---------------------------- MODULE FilterScreen ----------------------------
(***************************************************************************)
(* The filter screen: FilterInteractor's roles, the buttons drawn from     *)
(* them and the save and close buttons.  A button flips itself when it is  *)
(* tapped and reports its own new state; the buttons are redrawn from the  *)
(* roles only later, when the list adapter's update runs on the main       *)
(* queue, so further taps may come from buttons that are out of date.      *)
(* Positions start at 1 here: position 1 is the code's index 0.            *)
(***************************************************************************)
EXTENDS HeroCatalog

CONSTANT Openings  \* the lists of roles the screen may be opened with

ASSUME OpeningsAssumption ==
    \A roles \in Openings :
        /\ roles \in Seq(RoleFilter)
        /\ Len(roles) >= 1
        /\ roles[1].isSelected => \A i \in 2 .. Len(roles) : ~roles[i].isSelected

VARIABLES
    obsRoles,   \* FilterInteractor.obsRoles
    buttons,    \* isSelected of every button on the screen
    pending,    \* an update of the list is queued
    screen,     \* "open", "alert" (nothing selected) or "dismissed"
    saved,      \* what was handed to the delegate, << >> if nothing was
    allTapped   \* history: "All" was tapped since the buttons were redrawn

vars == << obsRoles, buttons, pending, screen, saved, allTapped >>

Flags(roles) == [i \in DOMAIN roles |-> roles[i].isSelected]

(* FilterModule's init, then viewDidLoad: requestTitle queues the first    *)
(* update, so no button is drawn yet.                                      *)
Init ==
    /\ obsRoles \in Openings
    /\ buttons = << >>
    /\ pending = TRUE
    /\ screen = "open"
    /\ saved = << >>
    /\ allTapped = FALSE

(* RedrawWithoutAll, SetOneCountingAll, ButtonNotFlipped and               *)
(* SaveEverySelected are the definitions that follow each with a plausible *)
(* bug; no specification uses them.  They show that the properties below   *)
(* can fail.                                                               *)
RedrawWithoutAll ==
    /\ pending
    /\ screen # "dismissed"
    /\ buttons' = Tail(Flags(obsRoles))
    /\ pending' = FALSE
    /\ allTapped' = FALSE
    /\ UNCHANGED << obsRoles, screen, saved >>

(* The queued update runs: a new section identifier replaces the old one   *)
(* and its cell reloads the buttons from the live roles.                   *)
Redraw ==
    /\ pending
    /\ screen # "dismissed"
    /\ buttons' = Flags(obsRoles)
    /\ pending' = FALSE
    /\ allTapped' = FALSE
    /\ UNCHANGED << obsRoles, screen, saved >>

SetAll(roles, isSelected) ==
    [i \in DOMAIN roles |-> [roles[i] EXCEPT !.isSelected = isSelected]]

SetOneCountingAll(roles, index, isSelected) ==
    LET one == [roles EXCEPT ![index].isSelected = isSelected]
        every == Cardinality(Selected(one)) = Len(roles) - 1
    IN  [one EXCEPT ![1].isSelected = every]

(* A role other than "All": "All" is selected exactly when the number of   *)
(* selected roles, counted without it, is that of the other roles.         *)
SetOne(roles, index, isSelected) ==
    LET one == [roles EXCEPT ![index].isSelected = isSelected, ![1].isSelected = FALSE]
        every == Cardinality(Selected(one)) = Len(roles) - 1
    IN  [one EXCEPT ![1].isSelected = every]

(* FilterInteractor.didRoleButtonTapped                                    *)
DidRoleButtonTapped(index, isSelected) ==
    /\ obsRoles' = IF index > Len(obsRoles) THEN obsRoles
                   ELSE IF index = 1 THEN SetAll(obsRoles, isSelected)
                   ELSE SetOne(obsRoles, index, isSelected)
    /\ pending' = (pending \/ index <= Len(obsRoles))

ButtonNotFlipped(index) ==
    /\ screen = "open"
    /\ DidRoleButtonTapped(index, ~buttons[index])
    /\ allTapped' = (allTapped \/ index = 1)
    /\ UNCHANGED << buttons, screen, saved >>

ButtonTapped(index) ==
    /\ screen = "open"
    /\ buttons' = [buttons EXCEPT ![index] = ~buttons[index]]
    /\ DidRoleButtonTapped(index, buttons'[index])
    /\ allTapped' = (allTapped \/ index = 1)
    /\ UNCHANGED << screen, saved >>

SaveEverySelected ==
    /\ screen = "open"
    /\ LET filters == KeepAt(obsRoles, Selected(obsRoles))
       IN  IF Len(filters) > 0
           THEN saved' = filters /\ screen' = "dismissed"
           ELSE screen' = "alert" /\ UNCHANGED saved
    /\ UNCHANGED << obsRoles, buttons, pending, allTapped >>

SaveButtonTapped ==
    /\ screen = "open"
    /\ LET filters == SelectedFilters(obsRoles)
       IN  IF Len(filters) > 0
           THEN saved' = filters /\ screen' = "dismissed"
           ELSE screen' = "alert" /\ UNCHANGED saved
    /\ UNCHANGED << obsRoles, buttons, pending, allTapped >>

AlertClosed ==
    /\ screen = "alert"
    /\ screen' = "open"
    /\ UNCHANGED << obsRoles, buttons, pending, saved, allTapped >>

CloseButtonTapped ==
    /\ screen = "open"
    /\ screen' = "dismissed"
    /\ UNCHANGED << obsRoles, buttons, pending, saved, allTapped >>

Next ==
    \/ Redraw
    \/ \E index \in DOMAIN buttons : ButtonTapped(index)
    \/ SaveButtonTapped
    \/ AlertClosed
    \/ CloseButtonTapped

Spec == Init /\ [][Next]_vars
----------------------------------------------------------------------------
TypeOK ==
    /\ obsRoles \in Seq(RoleFilter) /\ Len(obsRoles) >= 1
    /\ buttons \in Seq(BOOLEAN) /\ Len(buttons) \in {0, Len(obsRoles)}
    /\ pending \in BOOLEAN /\ allTapped \in BOOLEAN
    /\ screen \in {"open", "alert", "dismissed"}
    /\ saved \in Seq(RoleFilter)

(* "All" is never selected along with some of the other roles but not all  *)
(* of them, so taking "All" alone for the selection loses nothing the user *)
(* chose.  Taps from buttons that are out of date cannot break it.         *)
AllCoherent ==
    obsRoles[1].isSelected =>
        \/ \A i \in 2 .. Len(obsRoles) : obsRoles[i].isSelected
        \/ \A i \in 2 .. Len(obsRoles) : ~obsRoles[i].isSelected

(* What the buttons show is what is selected, except while an update is    *)
(* queued; and then only "All" can lag, unless "All" itself was tapped.    *)
ButtonsShowRoles ==
    buttons # << >> =>
        /\ ~pending => buttons = Flags(obsRoles)
        /\ ~allTapped => \A i \in 2 .. Len(obsRoles) : buttons[i] = obsRoles[i].isSelected

(* Seen from the hero list the screen is a dialog over the names it was    *)
(* opened with, which hands back one legal selection of them or nothing.   *)
Dialog == INSTANCE FilterDialog
            WITH names <- Names(obsRoles), shown <- screen # "dismissed", result <- saved

ImplementsDialog == Dialog!Spec
============================================================================
