-------------------------- MODULE ResultsNotifier --------------------------
(***************************************************************************)
(* Results and its ResultsNotifier.  The target thread creates the         *)
(* notifier when the results are first used or observed; the worker runs   *)
(* its query, compares the rows with those of the previous run and hands   *)
(* the view over; the target thread packages the view and delivers it.     *)
(* A view, and a list of rows, is represented by the snapshot it was       *)
(* computed in, 0 for none; previousRows is m_last_seen_version, too.      *)
(***************************************************************************)
EXTENDS CollectionNotifier

(* A commit changes the observed table or does not.                        *)
ASSUME ResultsAssumption == Contents = BOOLEAN

(* stale is history: whether a run went by what m_have_callbacks no longer *)
(* or not yet held.                                                        *)
VARIABLES
    notifier,  \* the ResultsNotifier, its place in the coordinator included
    results    \* the Results: m_mode, m_has_used_table_view, m_wants_background_updates

resultsVars == << notifier, results, callbackVars >>

Views == {0} \cup Versions

Notifier == [place : {"none", "new", "main"}, alive : BOOLEAN, version : Versions,
             hasRun : BOOLEAN, changes : ChangeSets, previousRows : Views,
             tv : Views, handover : Views, toDeliver : Views, stale : BOOLEAN]

Results == [mode : {"Query", "TableView"}, used : BOOLEAN, wants : BOOLEAN]

NewNotifier(version) ==
    [place |-> "new", alive |-> TRUE, version |-> version,
     hasRun |-> FALSE, changes |-> {}, previousRows |-> 0,
     tv |-> 0, handover |-> 0, toDeliver |-> 0, stale |-> FALSE]

NewResults == [mode |-> "Query", used |-> FALSE, wants |-> TRUE]

NoNotifier == [NewNotifier(1) EXCEPT !.place = "none", !.alive = FALSE]

ResultsInit ==
    /\ notifier = NoNotifier
    /\ results = NewResults
    /\ NoCallbacks

Registered == notifier.alive /\ notifier.place # "none"

(* The commits that changed the table after one snapshot up to another.    *)
ChangedBetween(from, to) == {v \in from + 1 .. to : snapshots[v]}

(* prepare_async: the query is handed over at the snapshot of its Realm.   *)
PrepareAsync(version) ==
    /\ notifier' = NewNotifier(version)
    /\ StartCallbacks

NeedToRun(version) ==
    /\ notifier.alive
    /\ haveCallbacks \/ results.wants
    /\ ~notifier.hasRun \/ ChangedBetween(notifier.previousRows, version) # {}

(* tracked says whether the transaction log from base to version was read  *)
(* for this notifier.  Rows of an older snapshot than base are shifted by  *)
(* too few commits, rows of an untracked advance by none.                  *)
CalculateChanges(base, version, tracked) ==
    IF ~(notifier.hasRun /\ haveCallbacks) THEN notifier.changes
    ELSE IF tracked /\ ChangedBetween(notifier.previousRows, base) = {}
         THEN ChangedBetween(base, version)
         ELSE {WrongBase}

(* A run left out that would have had changes makes the history stale.     *)
Run(base, version, tracked) ==
    notifier' =
        IF NeedToRun(version)
        THEN [notifier EXCEPT
                !.tv = version,
                !.previousRows = version,
                !.changes = CalculateChanges(base, version, tracked)]
        ELSE [notifier EXCEPT
                !.stale = @ \/ ChangedBetween(notifier.previousRows, version) # {}]

(* HandedOver with a plausible bug, used by no specification.              *)
HandedOverOnlyNew(version, saw) ==
    [notifier EXCEPT !.version = version,
                     !.handover = IF notifier.tv # 0 THEN version ELSE @,
                     !.tv = 0,
                     !.changes = {},
                     !.stale = @ \/ (notifier.hasRun /\ saw \cup {haveCallbacks} = BOOLEAN),
                     !.hasRun = TRUE]

(* prepare_handover: with a new view, hand it over; without one, the old   *)
(* one will do for the new snapshot.  AddChanges goes with it, even with   *)
(* no changes, to clear the skip flags.  saw are the values the round has  *)
(* read in haveCallbacks: a change up to here makes the history stale.     *)
HandedOver(version, saw) ==
    [notifier EXCEPT !.version = version,
                     !.handover = IF notifier.tv # 0 \/ @ # 0 THEN version ELSE 0,
                     !.tv = 0,
                     !.changes = {},
                     !.stale = @ \/ (notifier.hasRun /\ saw \cup {haveCallbacks} = BOOLEAN),
                     !.hasRun = TRUE]

(* package_for_delivery, called where has_run has been seen to hold.       *)
Packaged == [notifier EXCEPT !.toDeliver = notifier.handover, !.handover = 0]

(* deliver, with Results::Internal::set_table_view.                        *)
Deliver ==
    /\ notifier' = [notifier EXCEPT !.toDeliver = 0]
    /\ results' =
         IF notifier.toDeliver = 0 THEN results
         ELSE [mode |-> "TableView", used |-> FALSE,
               wants |-> IF results.mode = "TableView" THEN results.used
                                                       ELSE results.wants]

(* evaluate_query_if_needed, prepare_async apart.                          *)
Evaluate == results' = [results EXCEPT !.mode = "TableView", !.used = TRUE]

ResultsTypeOK ==
    /\ notifier \in Notifier
    /\ results \in Results
    /\ CallbacksTypeOK
=============================================================================
