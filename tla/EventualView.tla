---------------------------- MODULE EventualView ----------------------------
(***************************************************************************)
(* What the rest of the program relies on when it puts a value on a        *)
(* screen: the screen shows a value the relay has held, goes only forward, *)
(* and when it is drawn it is drawn with the value of that moment.         *)
(* FilterScreen takes it for granted in its Redraw, SimilarHeroes in its   *)
(* RedrawGrid.                                                             *)
(***************************************************************************)
EXTENDS Naturals

VARIABLES
    value,  \* how many values the relay has held; 0 is the empty list
    shown   \* the one on the screen, 0 while it is blank

viewVars == << value, shown >>

Init ==
    /\ value \in {0, 1}
    /\ shown = 0

Accept ==
    /\ value' = value + 1
    /\ UNCHANGED shown

Draw ==
    /\ shown' = value
    /\ UNCHANGED value

Next == Accept \/ Draw

Spec == Init /\ [][Next]_viewVars
============================================================================
