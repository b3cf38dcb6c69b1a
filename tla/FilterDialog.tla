---------------------------- MODULE FilterDialog ----------------------------
(***************************************************************************)
(* What the hero list relies on when it presents the filter screen: the    *)
(* names offered stay those it was opened with, and the screen goes away   *)
(* once, with one legal selection of those names or with nothing.          *)
(* HeroList's FilterSaved and FilterClosed take exactly these two steps.   *)
(***************************************************************************)
EXTENDS HeroCatalog

CONSTANT Openings  \* the lists of roles the dialog may be opened with

VARIABLES
    names,   \* the names offered, "All" first
    shown,
    result   \* the selection handed back, << >> while there is none

dialogVars == << names, shown, result >>

Init ==
    /\ \E roles \in Openings : names = Names(roles)
    /\ shown = TRUE
    /\ result = << >>

Save ==
    /\ shown
    /\ shown' = FALSE
    /\ result' \in LegalSelections(names)
    /\ UNCHANGED names

Close ==
    /\ shown
    /\ shown' = FALSE
    /\ UNCHANGED << names, result >>

Next == Save \/ Close

Spec == Init /\ [][Next]_dialogVars
============================================================================
