-------------------------- MODULE RealmCoordinator --------------------------
(***************************************************************************)
(* RealmCoordinator: a Realm on the main thread with one observed Results, *)
(* a second Realm that writes, in another thread or process, and the       *)
(* worker thread that brings the notifier forward after every commit and   *)
(* signals the main thread.                                                *)
(*                                                                         *)
(* Each action is what one thread does between two points where another    *)
(* can see or change something: under m_notifier_mutex, under the callback *)
(* mutex, or under the write lock of the file.                             *)
(***************************************************************************)
EXTENDS ResultsNotifier

CONSTANTS
    Main, Other, Worker,  \* the accessors
    Calls                 \* bound: what else may happen besides what must

ASSUME CoordinatorAssumption ==
    /\ Accessors = {Main, Other, Worker}
    /\ Cardinality(Accessors) = 3
    /\ Calls \subseteq {"use", "destroy", "refresh", "invalidate", "suppress", "die"}

VARIABLES
    skipVersion,  \* m_notifier_skip_version
    wake,         \* whether the notification pipe has something to read
    signal,       \* whether the main thread's run loop source is signalled
    worker,       \* the worker thread in run_async_notifiers
    main,         \* the main thread in the calls of its Realm
    other         \* the other writer: "idle", "committed" and yet to notify, "dead"

vars == << groupVars, resultsVars, skipVersion, wake, signal, worker, main, other >>

(* skip is the version a first round goes to, 0 if there is none; base and *)
(* tracked are of the advance under way; saw is history, the values read   *)
(* in haveCallbacks.                                                       *)
WorkerThread ==
    [pc : {"idle", "advance", "run", "handover", "signal"},
     version : Versions, skip : Versions \cup {0}, base : Versions, tracked : BOOLEAN,
     saw : SUBSET BOOLEAN]

(* target is the snapshot wait_for_notifiers waits for, 0 for none;        *)
(* package the version of the NotifierPackage, 0 for an empty one; halfway *)
(* the call whose other half must come next; nested whether the write      *)
(* transaction was begun by a callback; jumped is history: whether Main    *)
(* was moved past a snapshot its callbacks had not been told of.           *)
MainThread ==
    [pc : {"idle", "packaging", "delivering", "calling", "called", "undefined"},
     op : {"write", "refresh", "ready", "process"},
     target : Versions \cup {0}, package : Versions \cup {0},
     halfway : {"no", "adding", "suppressing"}, nested : BOOLEAN, jumped : BOOLEAN]

IdleWorker == [pc |-> "idle", version |-> 1, skip |-> 0, base |-> 1,
               tracked |-> FALSE, saw |-> {}]

IdleMain == [pc |-> "idle", op |-> "process", target |-> 0, package |-> 0,
             halfway |-> "no", nested |-> FALSE, jumped |-> FALSE]

(* The Realms have been opened and read.                                   *)
Init ==
    /\ GroupInit({Main, Other}, FALSE)
    /\ ResultsInit
    /\ skipVersion = 0
    /\ wake = FALSE
    /\ signal = FALSE
    /\ worker = IdleWorker
    /\ main = IdleMain
    /\ other = "idle"

-----------------------------------------------------------------------------
(* The worker: on_change.                                                  *)

(* StartRound with a plausible bug: it does not stop on the way.  No       *)
(* specification uses it.                                                  *)
StartRoundAtOnce ==
    /\ worker.pc = "idle" /\ wake /\ Registered
    /\ wake' = FALSE
    /\ worker' = [worker EXCEPT !.pc = "advance", !.version = latest]
    /\ skipVersion' = 0
    /\ notifier' = [notifier EXCEPT !.place = "main"]
    /\ IF stage[Worker] = "Ready" THEN BeginRead(Worker) ELSE UNCHANGED groupVars
    /\ UNCHANGED << results, callbackVars, signal, main, other >>

(* clean_up_dead_notifiers: with the last notifier of m_notifiers go the   *)
(* read transaction and the version to skip to.                            *)
CleanUp(n) ==
    IF n.alive \/ n.place # "main"
    THEN /\ notifier' = IF n.alive THEN n ELSE NoNotifier
         /\ UNCHANGED << groupVars, skipVersion >>
    ELSE /\ notifier' = NoNotifier
         /\ skipVersion' = 0
         /\ EndRead(Worker)

NothingToRun ==
    /\ worker.pc = "idle" /\ wake /\ ~Registered
    /\ wake' = FALSE
    /\ CleanUp(notifier)
    /\ worker' = [worker EXCEPT !.pc = "signal"]
    /\ UNCHANGED << results, callbackVars, signal, main, other >>

(* A round starts: the version to go to and the version to stop at on the  *)
(* way are chosen together, under the lock.                                *)
StartRound ==
    /\ worker.pc = "idle" /\ wake /\ Registered
    /\ wake' = FALSE
    /\ worker' = [worker EXCEPT !.pc = "advance", !.version = latest,
                                !.skip = skipVersion]
    /\ skipVersion' = 0
    /\ notifier' = [notifier EXCEPT !.place = "main"]
    /\ IF stage[Worker] = "Ready" THEN BeginRead(Worker) ELSE UNCHANGED groupVars
    /\ UNCHANGED << results, callbackVars, signal, main, other >>

(* add_required_change_info and advance_to_final.                          *)
Advance ==
    LET goal == IF worker.skip # 0 THEN worker.skip ELSE worker.version IN
    /\ worker.pc = "advance"
    /\ AdvanceRead(Worker, goal)
    /\ worker' = [worker EXCEPT !.pc = "run",
                                !.base = bound[Worker],
                                !.tracked = notifier.hasRun /\ haveCallbacks,
                                !.saw = {haveCallbacks}]
    /\ UNCHANGED << resultsVars, skipVersion, wake, signal, main, other >>

RunNotifier ==
    /\ worker.pc = "run"
    /\ Run(worker.base, bound[Worker], worker.tracked)
    /\ worker' = [worker EXCEPT !.pc = "handover", !.saw = @ \cup {haveCallbacks}]
    /\ UNCHANGED << groupVars, results, callbackVars, skipVersion, wake, signal,
                    main, other >>

(* After a first round there is a second; after the second, dead notifiers *)
(* are cleaned up and whoever waits is woken.  add_callback holds the      *)
(* callback mutex until it has set haveCallbacks.                          *)
HandOver ==
    /\ worker.pc = "handover"
    /\ main.halfway # "adding"
    /\ AddChanges(notifier.changes)
    /\ IF worker.skip # 0
       THEN /\ notifier' = HandedOver(bound[Worker], worker.saw)
            /\ worker' = [worker EXCEPT !.pc = "advance", !.skip = 0, !.saw = {}]
            /\ UNCHANGED << groupVars, skipVersion >>
       ELSE /\ CleanUp(HandedOver(bound[Worker], worker.saw))
            /\ worker' = [IdleWorker EXCEPT !.pc = "signal"]
    /\ UNCHANGED << results, wake, signal, main, other >>

(* NotifyRealms with a plausible bug, used by no specification.            *)
NotifyRealmsOnce ==
    /\ worker.pc = "signal"
    /\ signal' = ~signal
    /\ worker' = [worker EXCEPT !.pc = "idle"]
    /\ UNCHANGED << groupVars, resultsVars, skipVersion, wake, main, other >>

NotifyRealms ==
    /\ worker.pc = "signal"
    /\ signal' = TRUE
    /\ worker' = [worker EXCEPT !.pc = "idle"]
    /\ UNCHANGED << groupVars, resultsVars, skipVersion, wake, main, other >>

WorkerStep ==
    NothingToRun \/ StartRound \/ Advance \/ RunNotifier \/ HandOver \/ NotifyRealms
-----------------------------------------------------------------------------
(* The main thread.  It is free between two calls of the program, which    *)
(* then may come in any order, and while a callback runs.                  *)

Free == main.pc = "idle" /\ main.halfway = "no"
InCallback == main.pc = "called" /\ main.halfway = "no"
InWrite == stage[Main] = "Writing"

(* Realm::begin_read, by whatever is read first after invalidate.          *)
ReadAgain ==
    /\ Free \/ InCallback
    /\ BeginRead(Main)
    /\ main' = [main EXCEPT !.jumped = @ \/ HasChanged(Main) \/ InCallback]
    /\ UNCHANGED << resultsVars, skipVersion, wake, signal, worker, other >>

(* The results are read or observed for the first time, in a read          *)
(* transaction: prepare_async and register_notifier.                       *)
RegisterNotifier ==
    /\ Free \/ InCallback
    /\ stage[Main] = "Reading"
    /\ notifier.place = "none"
    /\ PrepareAsync(bound[Main])
    /\ results' \in {NewResults, [NewResults EXCEPT !.mode = "TableView", !.used = TRUE]}
    /\ UNCHANGED << groupVars, skipVersion, wake, signal, worker, main, other >>

UseResults ==
    /\ "use" \in Calls
    /\ Free \/ InCallback
    /\ notifier.alive /\ stage[Main] # "Ready"
    /\ Evaluate
    /\ UNCHANGED << groupVars, notifier, callbackVars, skipVersion, wake, signal,
                    worker, main, other >>

(* The results go, with the tokens of their callbacks: unregister.         *)
DestroyResults ==
    /\ "destroy" \in Calls
    /\ Free
    /\ notifier.alive
    /\ notifier' = [notifier EXCEPT !.alive = FALSE]
    /\ StartCallbacks
    /\ results' = NewResults
    /\ UNCHANGED << groupVars, skipVersion, wake, signal, worker, main, other >>

(* While callbacks are being called, nothing follows.                      *)
AddCallback ==
    /\ Free \/ InCallback
    /\ notifier.alive
    /\ PushCallback
    /\ IF callbackIndex = NPos
       THEN wake' = TRUE /\ main' = [main EXCEPT !.halfway = "adding"]
       ELSE UNCHANGED << wake, main >>
    /\ UNCHANGED << groupVars, notifier, results, skipVersion, signal, worker, other >>

FinishAddCallback ==
    /\ main.halfway = "adding"
    /\ NoteCallbacks
    /\ main' = [main EXCEPT !.halfway = "no"]
    /\ UNCHANGED << groupVars, notifier, results, skipVersion, wake, signal, worker, other >>

RemoveCallbackOf(token) ==
    /\ Free \/ InCallback
    /\ RemoveCallback(token, InCallback)
    /\ UNCHANGED << groupVars, notifier, results, skipVersion, wake, signal, worker,
                    main, other >>

-----------------------------------------------------------------------------
(* Write transactions of the main thread.                                  *)

Settled(target) ==
    target = 0 \/ ~haveCallbacks \/ (notifier.hasRun /\ notifier.version >= target)

(* StartPackaging with a plausible bug: nobody wakes the worker.           *)
StartPackagingAsleep(op, target) ==
    /\ main' = [main EXCEPT !.pc = "packaging", !.op = op, !.target = target]
    /\ UNCHANGED wake

(* wait_for_notifiers: the worker is woken once if there is need to wait.  *)
StartPackaging(op, target) ==
    /\ main' = [main EXCEPT !.pc = "packaging", !.op = op, !.target = target]
    /\ wake' = (wake \/ ~Settled(target))

(* begin_transaction outside of callbacks.  The write lock is taken before *)
(* the wait.                                                               *)
BeginTransaction ==
    /\ Free
    /\ IF Registered
       THEN LockForWrite(Main) /\ StartPackaging("write", latest)
       ELSE PromoteToWrite(Main) /\ UNCHANGED << main, wake >>
    /\ UNCHANGED << resultsVars, skipVersion, signal, worker, other >>

(* begin_transaction in a callback: no notifications on the way.           *)
BeginInCallback ==
    /\ InCallback
    /\ PromoteToWrite(Main)
    /\ main' = [main EXCEPT !.nested = TRUE, !.jumped = @ \/ HasChanged(Main)]
    /\ UNCHANGED << resultsVars, skipVersion, wake, signal, worker, other >>

(* The transaction under way may end: a callback ends only its own.        *)
MayEnd == main.pc = "idle" \/ (main.pc = "called" /\ main.nested)

(* commitWriteTransactionWithoutNotifying suppresses, and commits next.    *)
SuppressNext(token) ==
    /\ "suppress" \in Calls
    /\ MayEnd /\ InWrite /\ latest < MaxVersion
    /\ main.halfway # "adding"
    /\ SuppressNextNotification(token, latest + 1)
    /\ main' = [main EXCEPT !.halfway = "suppressing"]
    /\ UNCHANGED << groupVars, notifier, results, skipVersion, wake, signal, worker, other >>

(* commit_write: the version to skip to is set under the lock the worker   *)
(* chooses its versions under.                                             *)
CommitTransaction ==
    /\ MayEnd
    /\ main.halfway # "adding"
    /\ \E touches \in BOOLEAN : CommitAndContinueAsRead(Main, touches)
    /\ skipVersion' = IF notifier.alive /\ notifier.place = "main" THEN latest'
                                                                   ELSE skipVersion
    /\ wake' = TRUE
    /\ main' = [main EXCEPT !.halfway = "no", !.nested = FALSE, !.jumped = @ \/ main.nested]
    /\ UNCHANGED << resultsVars, signal, worker, other >>

CancelTransaction ==
    /\ MayEnd /\ main.halfway = "no"
    /\ RollbackAndContinueAsRead(Main)
    /\ main' = [main EXCEPT !.nested = FALSE]
    /\ UNCHANGED << resultsVars, skipVersion, wake, signal, worker, other >>

(* invalidate, outside of callbacks, where it does nothing.  In a write    *)
(* transaction it cancels that first.                                      *)
Invalidate ==
    /\ "invalidate" \in Calls
    /\ Free
    /\ EndRead(Main)
    /\ UNCHANGED << resultsVars, skipVersion, wake, signal, worker, main, other >>

-----------------------------------------------------------------------------
(* Refresh and the run loop.                                               *)

(* advance_to_latest                                                       *)
Refresh ==
    /\ "refresh" \in Calls
    /\ Free
    /\ stage[Main] = "Reading"
    /\ IF Registered
       THEN StartPackaging("refresh", latest) /\ UNCHANGED groupVars
       ELSE AdvanceRead(Main, latest) /\ UNCHANGED << main, wake >>
    /\ UNCHANGED << resultsVars, skipVersion, signal, worker, other >>

(* The rest of refresh, without a read transaction.                        *)
RefreshUnread ==
    /\ "refresh" \in Calls
    /\ Free
    /\ BeginRead(Main)
    /\ main' = IF Registered
               THEN [main EXCEPT !.pc = "packaging", !.op = "process", !.target = 0,
                                 !.jumped = @ \/ HasChanged(Main)]
               ELSE [main EXCEPT !.jumped = @ \/ HasChanged(Main)]
    /\ UNCHANGED << resultsVars, skipVersion, wake, signal, worker, other >>

(* notify, from the run loop, which does not run in a write transaction.   *)
Notify ==
    /\ Free
    /\ signal
    /\ ~InWrite
    /\ signal' = FALSE
    /\ IF Registered
       THEN /\ StartPackaging(IF HasChanged(Main) /\ stage[Main] = "Reading"
                              THEN "ready" ELSE "process", 0)
            /\ UNCHANGED groupVars
       ELSE /\ UNCHANGED << main, wake >>
            /\ IF stage[Main] = "Reading" THEN AdvanceRead(Main, latest)
                                          ELSE UNCHANGED groupVars
    /\ UNCHANGED << resultsVars, skipVersion, worker, other >>

-----------------------------------------------------------------------------
(* Packaging, under the lock, when what was waited for has come; then on   *)
(* to the version of the package, or to the latest without one.            *)

Packaging(op) == main.pc = "packaging" /\ main.op = op /\ Settled(main.target)

(* A notifier that has not run is dropped from the package, and one behind *)
(* the target after it was packaged.                                       *)
PackageVersion ==
    IF notifier.hasRun /\ notifier.version >= main.target THEN notifier.version ELSE 0

PackageNotifier ==
    IF notifier.hasRun
    THEN notifier' = Packaged /\ PackageCallbacks
    ELSE UNCHANGED << notifier, callbackVars >>

Return == main' = [IdleMain EXCEPT !.jumped = main.jumped]

Carry(pc) ==
    IF PackageVersion = 0 THEN Return
    ELSE main' = [IdleMain EXCEPT !.package = PackageVersion, !.pc = pc,
                                  !.jumped = main.jumped /\ PackageVersion < bound[Main]]

OrElse(version, default) == IF version # 0 THEN version ELSE default

(* A view cannot be delivered in a write transaction.                      *)
PackageForWrite ==
    /\ Packaging("write")
    /\ PackageNotifier
    /\ FinishPromotion(Main)
    /\ Carry("calling")
    /\ UNCHANGED << results, skipVersion, wake, signal, worker, other >>

PackageForRefresh ==
    /\ Packaging("refresh")
    /\ PackageNotifier
    /\ AdvanceRead(Main, OrElse(PackageVersion, latest))
    /\ Carry("delivering")
    /\ UNCHANGED << results, skipVersion, wake, signal, worker, other >>

(* PackageReadyUnchecked and ProcessAvailableUnchecked are the operations  *)
(* PackageReady and ProcessAvailable with a plausible bug; no              *)
(* specification uses them.                                                *)
PackageReadyUnchecked ==
    /\ Packaging("ready")
    /\ PackageNotifier
    /\ AdvanceRead(Main, OrElse(PackageVersion, latest))
    /\ Carry("delivering")
    /\ UNCHANGED << results, skipVersion, wake, signal, worker, other >>

ProcessAvailableUnchecked ==
    /\ Packaging("process")
    /\ IF notifier.hasRun
       THEN PackageNotifier /\ Carry("delivering")
       ELSE Return /\ UNCHANGED << notifier, callbackVars >>
    /\ UNCHANGED << groupVars, results, skipVersion, wake, signal, worker, other >>

(* advance_to_ready                                                        *)
PackageReady ==
    /\ Packaging("ready")
    /\ ~(notifier.hasRun /\ notifier.version < bound[Main])
    /\ PackageNotifier
    /\ AdvanceRead(Main, OrElse(PackageVersion, latest))
    /\ Carry("delivering")
    /\ UNCHANGED << results, skipVersion, wake, signal, worker, other >>

(* The Realm has moved past the package: it is thrown away.                *)
DiscardPackage ==
    /\ Packaging("ready")
    /\ notifier.hasRun /\ notifier.version < bound[Main]
    /\ notifier' = Packaged
    /\ PackageAndDiscard
    /\ Return
    /\ UNCHANGED << groupVars, results, skipVersion, wake, signal, worker, other >>

(* process_available_async: only what fits the snapshot of the Realm; with *)
(* no read transaction anything does, and no view is delivered.            *)
ProcessAvailable ==
    LET reading == stage[Main] = "Reading" IN
    /\ Packaging("process")
    /\ IF notifier.hasRun /\ (reading => notifier.version = bound[Main])
       THEN /\ PackageNotifier
            /\ Carry(IF reading THEN "delivering" ELSE "calling")
       ELSE /\ Return
            /\ UNCHANGED << notifier, callbackVars >>
    /\ UNCHANGED << groupVars, results, skipVersion, wake, signal, worker, other >>

DeliverView ==
    /\ main.pc = "delivering"
    /\ Deliver
    /\ main' = [main EXCEPT !.pc = "calling"]
    /\ UNCHANGED << groupVars, callbackVars, skipVersion, wake, signal, worker, other >>

CallNext ==
    /\ main.pc = "calling"
    /\ CallCallback(main.package)
    /\ main' = [main EXCEPT !.pc = "called"]
    /\ UNCHANGED << groupVars, notifier, results, skipVersion, wake, signal, worker, other >>

ReturnFromCallback ==
    /\ InCallback /\ ~main.nested
    /\ main' = [main EXCEPT !.pc = "calling"]
    /\ UNCHANGED << groupVars, resultsVars, skipVersion, wake, signal, worker, other >>

FinishCalling ==
    /\ main.pc = "calling"
    /\ StopCalling
    /\ Return
    /\ UNCHANGED << groupVars, notifier, results, skipVersion, wake, signal, worker, other >>

(* With a count below zero for_each_callback goes on behind the last       *)
(* callback.  What the program does from then on is not modelled.          *)
ReadPastEnd ==
    /\ main.pc = "calling"
    /\ Due = {} /\ callbackCount > Len(callbacks)
    /\ main' = [main EXCEPT !.pc = "undefined"]
    /\ UNCHANGED << groupVars, resultsVars, skipVersion, wake, signal, worker, other >>

-----------------------------------------------------------------------------
(* The other writer.                                                       *)

OtherCommits ==
    /\ other = "idle"
    /\ \E touches \in BOOLEAN : WriteAtOnce(Other, touches)
    /\ other' = "committed"
    /\ UNCHANGED << resultsVars, skipVersion, wake, signal, worker, main >>

OtherNotifies ==
    /\ other = "committed"
    /\ wake' = TRUE
    /\ other' = "idle"
    /\ UNCHANGED << groupVars, resultsVars, skipVersion, signal, worker, main >>

(* The process ends between the commit and the notification.               *)
OtherDies ==
    /\ "die" \in Calls
    /\ other = "committed"
    /\ other' = "dead"
    /\ UNCHANGED << groupVars, resultsVars, skipVersion, wake, signal, worker, main >>

-----------------------------------------------------------------------------

(* What the program may do next, and what follows once it has begun.       *)
ProgramStep ==
    \/ ReadAgain \/ RegisterNotifier \/ UseResults \/ DestroyResults
    \/ AddCallback \/ (\E t \in Tokens : RemoveCallbackOf(t))
    \/ BeginTransaction \/ BeginInCallback \/ (\E t \in Tokens : SuppressNext(t))
    \/ Invalidate \/ Refresh \/ RefreshUnread

MainRuns ==
    \/ FinishAddCallback
    \/ PackageForWrite \/ PackageForRefresh \/ PackageReady \/ DiscardPackage
    \/ ProcessAvailable \/ DeliverView
    \/ CallNext \/ ReturnFromCallback \/ FinishCalling \/ ReadPastEnd

EndTransaction == CommitTransaction \/ CancelTransaction

Next ==
    \/ WorkerStep
    \/ ProgramStep \/ MainRuns \/ EndTransaction \/ Notify
    \/ OtherCommits \/ OtherNotifies \/ OtherDies

Spec == Init /\ [][Next]_vars

(* Threads run; whoever began a write transaction ends it; a callback      *)
(* returns, whatever it does before; the run loop gets to a signalled      *)
(* source although the program keeps it busy.                              *)
FairSpec ==
    /\ Spec
    /\ WF_vars(WorkerStep)
    /\ WF_vars(MainRuns)
    /\ WF_vars(EndTransaction)
    /\ WF_vars(OtherNotifies)
    /\ SF_vars(ReturnFromCallback)
    /\ SF_vars(Notify)

-----------------------------------------------------------------------------
(* The types of the group, the results and the threads.                    *)
TypeOK ==
    /\ GroupTypeOK
    /\ ResultsTypeOK
    /\ skipVersion \in Versions \cup {0}
    /\ wake \in BOOLEAN /\ signal \in BOOLEAN
    /\ worker \in WorkerThread
    /\ main \in MainThread
    /\ other \in {"idle", "committed", "dead"}

Members == {callbacks[i] : i \in DOMAIN callbacks}
Called == {c \in Members : c.initialDelivered}

ToldExactly(c) ==
    LET parts == << c.told, c.toDeliver, c.accumulated, c.skipped, c.discarded >>
    IN /\ UNION {parts[i] : i \in 1 .. 5} = ChangedBetween(c.base, notifier.version)
       /\ \A i, j \in 1 .. 5 : i # j => parts[i] \cap parts[j] = {}

(* Every commit that changed the table between the snapshot a callback was *)
(* first called with and the one its notifier has reached is reported to   *)
(* it, or waits for it, or was skipped or discarded for it, once and in no *)
(* two of these ways, and outside of deliveries nothing packaged is left:  *)
(* as long as the worker and the main thread agree on m_have_callbacks     *)
(* during a round, and no callback removes one added since packaging.      *)
EveryChangeOnce ==
    ~notifier.stale /\ ~miscounted =>
        /\ \A c \in Called : ToldExactly(c)
        /\ main.pc \in {"idle", "packaging"} => \A c \in Members : c.toDeliver = {}

(* collection_notifier.hpp says of m_callback_count that it is "the number *)
(* of callbacks which were present when the notifier was packaged for      *)
(* delivery which are still present", so that for_each_callback leaves out *)
(* the ones "registered during delivery" and no other: when it stops,      *)
(* every callback has been told what was packaged for it.                  *)
PackagedAreCalled ==
    [][FinishCalling => \A c \in Members : c.toDeliver = {}]_vars

(* collection_notifier.hpp says of m_have_callbacks that it is okay if it  *)
(* is stale, as at worst it results in some extra work: so a round that    *)
(* went by a stale value loses no change either.                           *)
StaleFlagOnlyCostsWork == notifier.stale => \A c \in Called : ToldExactly(c)

(* A callback is called when it has been told of, or been spared, all that *)
(* changed up to the snapshot the package is for, and its Realm stands on  *)
(* that snapshot, unless it has been moved past it with read_group or a    *)
(* write transaction in a callback.                                        *)
CallbackSeesItsVersion ==
    main.pc = "called" =>
        /\ ~notifier.stale /\ ~miscounted => \A i \in 1 .. callbackIndex :
              LET c == callbacks[i] IN
              ChangedBetween(c.base, main.package)
                  \subseteq c.told \cup c.skipped \cup c.discarded
        /\ main.jumped \/ bound[Main] = main.package \/ stage[Main] = "Ready"

(* for_each_callback: the loop over the callbacks stays within m_callbacks *)
(* although callbacks remove callbacks meanwhile, unless one of these was  *)
(* added since packaging.                                                  *)
CountFits ==
    main.pc \in {"calling", "called"} /\ ~miscounted => callbackCount <= Len(callbacks)

(* do_prepare_handover and the import of a handover: a table view is only  *)
(* imported into the snapshot it was exported for, however old its run.    *)
ViewFitsSnapshot ==
    (main.pc = "delivering" /\ notifier.toDeliver # 0) => notifier.toDeliver = bound[Main]

(* run_async_notifiers: the version to stop at is of a notifier that is in *)
(* the main list and not yet there, and not beyond the round's version.    *)
SkipIsAhead ==
    /\ skipVersion # 0 =>
         notifier.place = "main" /\ bound[Worker] < skipVersion /\ skipVersion <= latest
    /\ worker.skip # 0 => worker.skip <= worker.version

(* What the notifiers assert of one another's state when they run holds,   *)
(* whatever happened between the worker's rounds and the main thread's     *)
(* deliveries.                                                             *)
AssertionsHold == CountFits /\ ViewFitsSnapshot /\ SkipIsAhead

(* Realm.swift: "You can skip notifiying specific notification blocks      *)
(* about the changes made in this write transaction by passing in their    *)
(* associated notification tokens."  None of these is told of it.          *)
SuppressedNotTold == ~notifier.stale => \A c \in Members : c.asked \cap c.told = {}

(* A callback that has been called, and then asked not to be told of one   *)
(* commit, is not kept from hearing of others, which the worker would have *)
(* to hand over together with it; except after a write transaction begun   *)
(* in a callback, and by a round that went by a stale value.               *)
OthersNeverSkipped ==
    [][HandOver =>
         \/ main.jumped \/ notifier'.stale
         \/ \A c \in Called :
                c.skipNext /\ c.asked # {} => notifier.changes \subseteq c.asked]_vars

(* No accessor is ever moved to an earlier snapshot, as with a package     *)
(* older than what the Realm has already read.                             *)
NoReaderGoesBack == [][\A a \in Accessors : bound[a] <= bound'[a]]_vars

(* The wait for the notifiers ends, although begin_transaction keeps the   *)
(* write lock through it and the worker may go to sleep just before it.    *)
WaitEnds == (main.pc = "packaging") ~> (main.pc # "packaging")

UpToDate(c) ==
    /\ c.initialDelivered /\ c.accumulated = {} /\ c.toDeliver = {}
    /\ ChangedBetween(notifier.version, latest) = {}

(* Time and again every callback has been called and nothing is left to    *)
(* tell, unless the other process died between its commit and its notice;  *)
(* a callback added by a callback, which wakes nobody, may have to wait,   *)
(* and one that a wrong count leaves out.                                  *)
CallbacksCatchUp ==
    []<>(other = "dead" \/ miscounted \/ \A c \in Members : c.woken => UpToDate(c))
=============================================================================
