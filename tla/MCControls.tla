----------------------------- MODULE MCControls -----------------------------
(***************************************************************************)
(* Controls with a key for each action and a spare one, which is the one   *)
(* load_misc looks for.                                                    *)
(***************************************************************************)
EXTENDS Controls, TLC

CONSTANTS W, C, Right

Board == {Escape, W, C, B}
Mouse == {Left, Right}
BoardBinds == [k \in Board |-> CASE k = Escape -> "Exit/Menu"
                                 [] k = W -> "Forward"
                                 [] k = C -> "Craft"
                                 [] OTHER -> Absent]
MouseBinds == [b \in Mouse |-> CASE b = Left -> "Break/Attack"
                                 [] b = Right -> "Place/Use"
                                 [] OTHER -> Absent]
=============================================================================
