------------------------------ MODULE MCScreens ------------------------------
(***************************************************************************)
(* The filter screen, the taps on the grid and the list updater, checked   *)
(* in one run.  They share no state, so a behaviour is one of one of them: *)
(* the two others stay as they begin, and the states of the run are the    *)
(* sum of those of the three, not the product.                             *)
(*                                                                         *)
(* The filter screen is opened with every list getRoles can build from     *)
(* catalogues that offer no, some or all of three roles and any selection  *)
(* active.  The grids hold five to six heroes: ties of rank, heroes with   *)
(* one role, several or none, more than three candidates, the same hero    *)
(* twice (two saves of the same response) and two versions of one hero.    *)
(***************************************************************************)
EXTENDS FilterScreen, SimilarHeroes, ListUpdater

VARIABLE part  \* the module whose behaviour this is

screensVars == << vars, detailVars, updaterVars, part >>

Parts == {"filterScreen", "similarHeroes", "listUpdater"}

(* How the modules that do not move begin; they never leave this state.    *)
FilterAtRest == obsRoles = CHOOSE roles \in Openings : TRUE
DetailAtRest == obsHeroes = << >>
UpdaterAtRest == controller = "filter"

ScreensInit ==
    /\ part \in Parts
    /\ Init /\ DetailInit /\ UpdaterInit
    /\ part # "filterScreen" => FilterAtRest
    /\ part # "similarHeroes" => DetailAtRest
    /\ part # "listUpdater" => UpdaterAtRest

FilterScreenMoves == part = "filterScreen" /\ Next /\ UNCHANGED << detailVars, updaterVars, part >>
SimilarHeroesMoves == part = "similarHeroes" /\ DetailNext /\ UNCHANGED << vars, updaterVars, part >>
ListUpdaterMoves == part = "listUpdater" /\ UpdaterNext /\ UNCHANGED << vars, detailVars, part >>

(* The filter screen is the one that may end.                              *)
FilterScreenIsOver ==
    /\ part = "filterScreen"
    /\ screen = "dismissed"
    /\ UNCHANGED screensVars

ScreensNext == FilterScreenMoves \/ SimilarHeroesMoves \/ ListUpdaterMoves \/ FilterScreenIsOver

(* The fairness is the list updater's.                                     *)
ScreensSpec ==
    /\ ScreensInit /\ [][ScreensNext]_screensVars
    /\ WF_updaterVars(RunBlock) /\ WF_updaterVars(BatchCompletes)
----------------------------------------------------------------------------
MCRoleOrder == << "All", "Carry", "Escape", "Nuker", "Pusher", "Support" >>

Hero(id, attr, rank, roles) ==
    [id |-> id, primaryAttr |-> attr, roles |-> roles,
     moveSpeed |-> IF attr = "agi" THEN rank ELSE 0,
     baseAttackMax |-> IF attr = "str" THEN rank ELSE 0,
     baseMana |-> IF attr = "int" THEN rank ELSE 0]

Agi1 == Hero(1, "agi", 3, << "Carry", "Escape" >>)
Agi2 == Hero(2, "agi", 3, << "Escape", "Carry", "Nuker" >>)
Agi3 == Hero(3, "agi", 1, << "Carry" >>)
Agi4 == Hero(4, "agi", 2, << "Carry", "Escape" >>)
Agi5 == Hero(5, "agi", 1, << "Carry", "Escape" >>)
Str6 == Hero(6, "str", 2, << "Carry" >>)
Str7 == Hero(7, "str", 4, << "Carry", "Nuker" >>)
Int8 == Hero(8, "int", 1, << >>)
Int9 == Hero(9, "int", 2, << "Support" >>)
Agi1New == Hero(1, "agi", 2, << "Carry" >>)

MCGrids ==
    { << >>,
      << Agi1, Agi2, Agi3, Agi4, Agi5 >>,
      << Agi3, Agi5, Agi4, Agi2, Agi1, Str6 >>,
      << Agi1, Agi4, Agi1, Agi4, Agi5 >>,
      << Agi1New, Agi2, Agi3, Agi4, Agi5 >>,
      << Str6, Str7, Int8, Int9, Agi3 >>,
      << Int9, Int8, Str7, Str6, Str7 >> }

(* A catalogue that offers these roles, in one hero.                       *)
Offering(names) == << Hero(10, "str", 0, SetToSeq(names)) >>
Offered == SUBSET {"Carry", "Nuker", "Pusher"}

MCHeroes ==
    {Agi1, Agi2, Agi3, Agi4, Agi5, Str6, Str7, Int8, Int9, Agi1New}
        \cup {Offering(names)[1] : names \in Offered}

MCActive == {<< >>} \cup UNION {LegalSelections(OfferedNames(Offering(names))) : names \in Offered}

MCOpenings == {GetRoles(Offering(names), active) : names \in Offered, active \in MCActive}
============================================================================
