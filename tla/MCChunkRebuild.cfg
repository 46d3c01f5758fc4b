SPECIFICATION FairSpec
CONSTANTS
  Spots <- Row
  Indices <- Facades
  Radius = 1
  Start = 12
  Nowhere = 99
  Stamped <- Models
  Glow <- Lights
  MaxChanges = 1
  MaxWalks = 1
INVARIANT MeshesCatchUp EntriesAreTrue
PROPERTY AllIsServed
