------------------------------ MODULE Controls ------------------------------
(***************************************************************************)
(* The window loop of the client: keys and mouse buttons, the windows they *)
(* open (menu, crafting, chest), who has the mouse, and the key bindings,  *)
(* which the player may change and which a file keeps                      *)
(* (lib/src/windowandkey.rs run, game.rs keyboard, mouse_button and        *)
(* button_command, statics.rs).                                            *)
(*                                                                         *)
(* A turn of the loop reads once which windows are open, draws them, lets  *)
(* the player click a button of the menu, and then handles the events that *)
(* have come in.  An event may open or close a window; the later events of *)
(* the same turn are still handled as if it had not.                       *)
(*                                                                         *)
(* The keys that work while they are held are one action here, "Forward".  *)
(* What clicks do to slots and recipes is in Inventory.                    *)
(***************************************************************************)
EXTENDS Naturals, FiniteSets

CONSTANTS
  Keys,        \* the keys of the keyboard
  Buttons,     \* the buttons of the mouse
  Escape,      \* the key the loop names itself
  B,           \* the key load_misc looks for
  Left,        \* the button the loop names itself
  DefaultKeys, \* the bindings of a first start: the action of each key
  DefaultButtons,
  Absent,      \* an unbound key, a file that was never written, no request
  MaxHeld,     \* bound: keys and buttons held down at a time
  MaxRebinds,  \* bound: bindings changed in a run
  MaxStarts    \* bound: how often the program is started

MouseActions == {"Break/Attack", "Place/Use"}
KeyActions == {"Exit/Menu", "Forward", "Craft"}
Toggle == "Build Mode Toggle"
Actions == KeyActions \cup MouseActions \cup {Toggle}

ASSUME ControlsAssumption ==
  /\ Escape \in Keys /\ B \in Keys /\ Left \in Buttons
  /\ Keys \cap Buttons = {} /\ Absent \notin Actions
  /\ DefaultKeys \in [Keys -> KeyActions \cup {Absent}]
  /\ DefaultButtons \in [Buttons -> MouseActions \cup {Absent}]
  /\ \A a \in KeyActions : Cardinality({k \in Keys : DefaultKeys[k] = a}) = 1
  /\ \A a \in MouseActions :
       Cardinality({b \in Buttons : DefaultButtons[b] = a}) = 1
  /\ IsFiniteSet(Keys) /\ IsFiniteSet(Buttons)
  /\ {MaxHeld, MaxRebinds} \subseteq Nat /\ MaxStarts \in Nat \ {0}

VARIABLES
  game,    \* the flags of Game that events change
  binds,   \* MISCSETTINGS: the action of every key and button
  asking,  \* ABOUTTOREBIND while LISTENINGFORREBIND, else Absent
  seen,    \* the windows the turn of the loop has found open
  captured,\* what imgui keeps from the game: the keyboard, the mouse
  turn,    \* "frame", "draw", "events", or "over" when the program has ended
  held,    \* environment: the keys and buttons that are down
  missed,  \* history: actions whose release or whose binding went by unseen
  rebinds, starts

loopVars == <<asking, seen, captured, turn, rebinds, starts>>
inputVars == <<held, missed>>
vars == <<game, binds, loopVars, inputVars>>

Inputs == Keys \cup Buttons
Windows == {"menu", "craft", "chest"}
Pages == {"Loading", "escapemenu", "settingsmenu", "bindingsmenu", "recipemenu"}

(* The rows of the bindings menu: as many as there are bindings.           *)
Rows(b) == {<<i, b[i]>> : i \in {j \in Inputs : b[j] # Absent}}

(* A game that is being loaded shows its menu without buttons.  The file   *)
(* misc is here because set_mouse_focused writes it.                       *)
Started(misc) ==
  [windows |-> {"menu"}, loading |-> TRUE, page |-> "Loading", rows |-> {},
   focused |-> FALSE, uncap |-> FALSE, on |-> {}, building |-> FALSE,
   file |-> misc]

FirstBinds == [i \in Inputs |-> IF i \in Keys THEN DefaultKeys[i]
                                              ELSE DefaultButtons[i]]

Init ==
  /\ game = Started(Absent) /\ binds = FirstBinds
  /\ asking = Absent /\ seen = {} /\ captured = {}
  /\ turn = "frame" /\ held = {} /\ missed = {}
  /\ rebinds = 0 /\ starts = 1

----------------------------------------------------------------------------
(* What the handlers do to the game.  A definition whose name ends in a    *)
(* bug's description is that bug planted in the definition after it.       *)

(* set_cursor_mode and set_mouse_focused, which also calls save_misc.      *)
Focus(g, has) == [g EXCEPT !.focused = has, !.file = binds]

Close(g, w) == Focus([g EXCEPT !.windows = @ \ {w}, !.uncap = TRUE], TRUE)
Open(g, w) == Focus([g EXCEPT !.windows = @ \cup {w}], FALSE)

(* button_command                                                          *)
Page(g, p) == [g EXCEPT !.page = p, !.windows = @ \cup {"menu"},
                        !.rows = IF p = "bindingsmenu" THEN Rows(binds) ELSE {}]

(* A second button_command, after the bindings have changed.               *)
Relist(g, b) == [g EXCEPT !.page = "bindingsmenu", !.windows = @ \cup {"menu"},
                          !.rows = Rows(b)]

(* "Exit/Menu" of keyboard(): the menu opens, or whatever is open closes,  *)
(* and the mouse goes back to the game.                                    *)
ExitMenu(g) ==
  IF g.windows = {} THEN Page(g, "escapemenu")
  ELSE [Focus(g, TRUE) EXCEPT !.windows = {}, !.uncap = TRUE]

Hold_Latches(g, action, down) ==
  [g EXCEPT !.on = IF down THEN @ \cup {action} ELSE @]
Hold(g, action, down) ==
  [g EXCEPT !.on = IF down THEN @ \cup {action} ELSE @ \ {action}]

(* keyboard(): how is "press", "repeat" or "release".                      *)
Keyboard(g, action, how) ==
  CASE action = Toggle /\ how = "press" -> [g EXCEPT !.building = ~@]
    [] action = "Exit/Menu" /\ how = "press" -> ExitMenu(g)
    [] action = "Forward" -> Hold(g, action, how # "release")
    [] action = "Craft" /\ how = "press" -> Open(g, "craft")
    [] OTHER -> g

(* The loop, after keyboard(), for Escape however it is bound.             *)
AfterEscape(g) ==
  IF "menu" \in g.windows THEN Focus(g, FALSE) ELSE Focus(g, TRUE)

(* cast_place_ray: a chest, a bench, or anything else is struck.           *)
CastPlaceRay(g, target) ==
  CASE target = "chest" -> Open(g, "chest")
    [] target = "bench" -> Open(g, "craft")
    [] OTHER -> g

(* mouse_button(): with a chest open, clicks only move its slots.          *)
MouseButton(g, action, how, target) ==
  IF "chest" \in g.windows THEN g
  ELSE CASE action = "Break/Attack" -> Hold(g, action, how = "press")
         [] action = "Place/Use" /\ how = "press" /\ ~g.building ->
              CastPlaceRay(g, target)
         [] OTHER -> g

----------------------------------------------------------------------------
(* A turn of the loop.                                                     *)

Running == turn # "over"

(* Which windows are open is read first.  UNCAPKB lets imgui go of what it *)
(* had; drawing a menu or the recipes makes it decide again.               *)
Frame ==
  /\ turn \in {"frame", "events"}
  /\ seen' = game.windows
  /\ game' = [game EXCEPT !.uncap = FALSE]
  /\ IF "craft" \in game.windows /\ "menu" \notin game.windows
       THEN captured' \in SUBSET {"keyboard", "mouse"}
       ELSE captured' = IF game.uncap \/ game.windows # {} THEN {} ELSE captured
  /\ turn' = IF "menu" \in game.windows THEN "draw" ELSE "events"
  /\ UNCHANGED <<binds, asking, held, missed, rebinds, starts>>

(* The buttons of the menu, at most one in a turn.  imgui hears of no      *)
(* click while an input is listened for.  The button that quits is an End. *)
Links(page) ==
  CASE page = "escapemenu" -> {"recipemenu", "settingsmenu"}
    [] page = "settingsmenu" -> {"escapemenu", "bindingsmenu"}
    [] page = "bindingsmenu" -> {"settingsmenu"}
    [] page = "recipemenu" -> {"escapemenu"}
    [] OTHER -> {}

Clicked(g) ==
  /\ turn = "draw" /\ asking = Absent
  /\ game' = [g EXCEPT !.uncap = TRUE]
  /\ turn' = "events"
  /\ UNCHANGED <<binds, seen, captured, rebinds, starts, inputVars>>

ClickLink ==
  /\ \E page \in Links(game.page) : Clicked(Page(game, page))
  /\ UNCHANGED asking

ClickClose_KeepsMouse ==
  /\ game.page = "escapemenu"
  /\ Clicked([game EXCEPT !.windows = @ \ {"menu"}])
  /\ UNCHANGED asking
ClickClose ==
  /\ game.page = "escapemenu"
  /\ Clicked(Close(game, "menu"))
  /\ UNCHANGED asking

ClickBinding ==
  /\ Clicked(game)
  /\ game.page = "bindingsmenu"
  /\ asking' \in game.rows

NoClick ==
  /\ turn = "draw" /\ turn' = "events"
  /\ UNCHANGED <<game, binds, asking, seen, captured, rebinds, starts, inputVars>>

----------------------------------------------------------------------------
(* The events.                                                             *)

(* A key is pressed, or repeats or is released after that.                 *)
Happens(i, how) ==
  /\ turn = "events"
  /\ IF how = "press" THEN i \notin held /\ Cardinality(held) < MaxHeld
                      ELSE i \in held
  /\ held' = IF how = "release" THEN held \ {i} ELSE held \cup {i}

(* An input while one is listened for: of the other kind it is lost, of    *)
(* the same kind it becomes the binding, unless it is one already.         *)
SameKind(i, j) == (i \in Keys) = (j \in Keys)
Unbound(i) == binds[i] = Absent
Rebound(i) == [binds EXCEPT ![asking[1]] = Absent, ![i] = asking[2]]

Holding == {"Forward", "Break/Attack"}
Forget(actions) == missed' = missed \cup (actions \cap Holding)
Lost(i, how) == IF how = "release" THEN {binds[i]} ELSE {}

Listen(i, how) ==
  /\ asking # Absent /\ Happens(i, how)
  /\ IF SameKind(i, asking[1]) /\ Unbound(i)
       THEN /\ rebinds < MaxRebinds /\ rebinds' = rebinds + 1
            /\ binds' = Rebound(i)
            /\ game' = Relist(game, binds')
            /\ Forget({asking[2], binds[i]})
       ELSE /\ Forget(Lost(i, how))
            /\ UNCHANGED <<game, binds, rebinds>>
  /\ asking' = IF SameKind(i, asking[1]) THEN Absent ELSE asking
  /\ UNCHANGED <<seen, captured, turn, starts>>

(* A key that reaches the game, or is kept from it by a menu or imgui.     *)
ClosesCraft(k, how) ==
  "craft" \in seen /\ how # "release" /\ binds[k] = "Craft"
ClosesMenu(k, how) ==
  "menu" \in seen /\ how # "release" /\ binds[k] = "Exit/Menu"
KeyReaches(k, how) ==
  ~ClosesCraft(k, how) /\ "keyboard" \notin captured /\ "menu" \notin seen

ToGame(g, k, how) ==
  LET after == Keyboard(g, binds[k], how)
  IN IF k = Escape THEN AfterEscape(after) ELSE after

Key(k, how) ==
  /\ asking = Absent /\ Happens(k, how)
  /\ \/ /\ ClosesCraft(k, how)
        /\ game' = Close(game, "craft") /\ UNCHANGED missed
     \/ /\ ClosesMenu(k, how) /\ ~ClosesCraft(k, how)
        /\ game' = Close(game, "menu") /\ UNCHANGED missed
     \/ /\ KeyReaches(k, how)
        /\ game' = ToGame(game, k, how)
        /\ missed' = missed \ {binds[k]}
     \/ /\ ~KeyReaches(k, how) /\ ~ClosesMenu(k, how) /\ ~ClosesCraft(k, how)
        /\ Forget(Lost(k, how)) /\ UNCHANGED game
  /\ UNCHANGED <<binds, loopVars>>

(* A button: the left one gives the game the mouse first.  A chest takes   *)
(* the click; its slots are moved, and nothing else hears of it.           *)
ButtonReaches == "mouse" \notin captured /\ "menu" \notin seen
TakesMouse(b) == b = Left /\ "chest" \notin seen
Targets == IF game.loading THEN {"other"} ELSE {"chest", "bench", "other"}

Button(b, how) ==
  LET g == IF TakesMouse(b) THEN Focus(game, TRUE) ELSE game
  IN /\ asking = Absent /\ Happens(b, how)
     /\ \/ /\ ButtonReaches
           /\ \E target \in Targets :
                game' = MouseButton(g, binds[b], how, target)
           /\ IF "chest" \in game.windows THEN Forget(Lost(b, how))
                ELSE missed' = missed \ {binds[b]}
        \/ /\ ~ButtonReaches
           /\ Forget(Lost(b, how)) /\ UNCHANGED game
     /\ UNCHANGED <<binds, loopVars>>

----------------------------------------------------------------------------
(* The program ends, by its menu, its window or a crash, and is started    *)
(* again.                                                                  *)

(* main(): the world is loaded, the menu goes, the mouse is the game's.    *)
Loaded ==
  /\ turn = "events" /\ game.loading
  /\ game' = [Close(game, "menu") EXCEPT !.loading = FALSE]
  /\ turn' = "frame"
  /\ UNCHANGED <<binds, asking, seen, captured, rebinds, starts, inputVars>>

End ==
  /\ Running /\ starts < MaxStarts
  /\ turn' = "over"
  /\ UNCHANGED <<game, binds, asking, seen, captured, rebinds, starts, inputVars>>

(* load_misc: a file without B gets it for the build mode, and is written. *)
LoadMisc_Defaults(misc) ==
  [i \in Inputs |-> IF misc[i] = Absent THEN FirstBinds[i] ELSE misc[i]]
LoadMisc(misc) == [misc EXCEPT ![B] = IF @ = Absent THEN Toggle ELSE @]

Restart ==
  /\ turn = "over" /\ starts < MaxStarts
  /\ binds' = IF game.file = Absent THEN FirstBinds ELSE LoadMisc(game.file)
  /\ game' = Started(IF game.file = Absent THEN Absent ELSE binds')
  /\ asking' = Absent /\ seen' = {} /\ captured' = {}
  /\ turn' = "frame" /\ held' = {} /\ missed' = {}
  /\ starts' = starts + 1 /\ UNCHANGED rebinds

----------------------------------------------------------------------------

Click == ClickLink \/ ClickClose \/ ClickBinding \/ NoClick

KeyEvent == \E k \in Keys, how \in {"press", "repeat", "release"} : Key(k, how)
ButtonEvent == \E b \in Buttons, how \in {"press", "release"} : Button(b, how)
ListenEvent ==
  \/ \E k \in Keys, how \in {"press", "repeat", "release"} : Listen(k, how)
  \/ \E b \in Buttons, how \in {"press", "release"} : Listen(b, how)

Next == \/ Frame \/ Click \/ KeyEvent \/ ButtonEvent \/ ListenEvent
        \/ Loaded \/ End \/ Restart

Spec == Init /\ [][Next]_vars

----------------------------------------------------------------------------
(* Properties.                                                             *)

InPlay == Running /\ ~game.loading /\ game.windows = {} /\ asking = Absent

TypeOK ==
  /\ game \in [windows : SUBSET Windows, loading : BOOLEAN, page : Pages,
               rows : SUBSET (Inputs \X Actions), focused : BOOLEAN,
               uncap : BOOLEAN, on : SUBSET Holding, building : BOOLEAN,
               file : [Inputs -> Actions \cup {Absent}] \cup {Absent}]
  /\ binds \in [Inputs -> Actions \cup {Absent}]
  /\ asking \in (Inputs \X Actions) \cup {Absent}
  /\ seen \in SUBSET Windows /\ captured \in SUBSET {"keyboard", "mouse"}
  /\ turn \in {"frame", "draw", "events", "over"}
  /\ held \in SUBSET Inputs /\ missed \in SUBSET Actions
  /\ rebinds \in 0..MaxRebinds /\ starts \in 1..MaxStarts

(* Whatever the player rebinds, in whatever order, and however often the   *)
(* program is started again: each action of the game keeps one key or one  *)
(* button, and a binding in the file is never one that was given up.  Only *)
(* the build mode, which load_misc adds, may have none or several.         *)
BindingsWhole ==
  \A a \in KeyActions \cup MouseActions :
    /\ Cardinality({i \in Inputs : binds[i] = a}) = 1
    /\ \A i \in Inputs : binds[i] = a => (i \in Keys <=> a \in KeyActions)

(* When no window is open the game has the mouse again, however the        *)
(* windows were closed, several in one turn included, and changed bindings *)
(* are in the file: both hang on set_mouse_focused, which every way out of *)
(* the menu must go through, and no way out is open while an input is      *)
(* being listened for.                                                     *)
BackInPlay == InPlay => game.focused /\ game.file = binds

(* A control is on only while its key or button is down, unless the        *)
(* release, or the change of the binding, went by unseen: behind a menu, a *)
(* chest, imgui, or while an input was listened for.                       *)
OnMeansHeld ==
  \A a \in game.on : a \in missed \/ \E i \in held : binds[i] = a
=============================================================================
