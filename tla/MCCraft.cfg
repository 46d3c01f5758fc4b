SPECIFICATION Spec
CONSTANTS
  RowLength = 2
  ChestLength = 1
  MaxStack = 8
  Height = 3
  Games <- AllGames
  StartingItems <- OneTable
  Ids <- AllIds
  Recipes <- AllRecipes
  Foods = {32, 33}
  NonPlaceable = {32, 33, 17, 36, 37, 38, 39}
  Overwritable = {0, 2}
  Damages = {20}
  Absent = Absent
  MaxDeaths = 1
  Builds <- AllBuilds
  MaxStamps = 1
INVARIANT TypeOK
PROPERTY DoorsWhole CraftIsAllOrNothing CraftAllLosesOneAtMost NothingFromNothing
CHECK_DEADLOCK FALSE
