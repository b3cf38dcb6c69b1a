------------------------- MODULE ListUpdater_proofs -------------------------
(***************************************************************************)
(* Proofs about ListUpdater for any number of values and blocks: no update *)
(* is lost, and the screen implements EventualView.  The invariant adds to *)
(* the properties that a queued update always carries the relay's value,   *)
(* and that nothing is queued, running or drawn before viewDidLoad.        *)
(***************************************************************************)
EXTENDS ListUpdater, TLAPS

QueuedIsCurrent == queued # None => queued = value

NothingBeforeLoad ==
    phase = "built" =>
        /\ cells = 0 /\ queued = None /\ blocks = 0 /\ ~busy
        /\ controller = "heroList" => value = 0

UpdaterInv == UpdaterTypeOK /\ NoUpdateLost /\ QueuedIsCurrent /\ NothingBeforeLoad

(* What every step that asks for an update of a loaded screen shares.      *)
LEMMA UpdateKeepsInv ==
    ASSUME UpdaterInv, PerformUpdates(value'), value' \in 0 .. MaxValues,
           phase' \in Phases \ {"built"}, UNCHANGED << controller, busy, cells >>
    PROVE  UpdaterInv'
<1> USE UpdaterAssumption DEF None, PerformUpdates
<1>1. UpdaterTypeOK'
    BY DEF UpdaterInv, UpdaterTypeOK, Phases
<1>2. NoUpdateLost'
    BY DEF UpdaterInv, UpdaterTypeOK, NoUpdateLost
<1>3. QueuedIsCurrent' /\ NothingBeforeLoad'
    BY DEF QueuedIsCurrent, NothingBeforeLoad, Phases
<1> QED
    BY <1>1, <1>2, <1>3 DEF UpdaterInv

LEMMA InitInv == UpdaterInit => UpdaterInv
<1> USE UpdaterAssumption DEF None
<1>1. UpdaterInit => UpdaterTypeOK
    <2> SUFFICES ASSUME UpdaterInit PROVE UpdaterTypeOK
        OBVIOUS
    <2>1. value \in 0 .. MaxValues
        <3>1. CASE controller = "heroList"
            BY <3>1 DEF UpdaterInit
        <3>2. CASE controller # "heroList"
            BY <3>2 DEF UpdaterInit
        <3> QED
            BY <3>1, <3>2
    <2>2. phase \in Phases /\ busy \in BOOLEAN
        BY DEF UpdaterInit, Phases
    <2> QED
        BY <2>1, <2>2 DEF UpdaterInit, UpdaterTypeOK
<1>2. UpdaterInit => NoUpdateLost /\ QueuedIsCurrent /\ NothingBeforeLoad
    BY DEF UpdaterInit, NoUpdateLost, QueuedIsCurrent, NothingBeforeLoad
<1> QED
    BY <1>1, <1>2 DEF UpdaterInv

LEMMA NextInv == UpdaterInv /\ [UpdaterNext]_updaterVars => UpdaterInv'
<1> SUFFICES ASSUME UpdaterInv, [UpdaterNext]_updaterVars
             PROVE  UpdaterInv'
    OBVIOUS
<1> USE UpdaterAssumption
<1> DEFINE Rest == UNCHANGED << controller, value, queued, blocks, busy, cells >>
<1>1. ASSUME Rest, phase' \in Phases, phase' = "built" <=> phase = "built"
      PROVE  UpdaterInv'
    BY <1>1 DEF UpdaterInv, UpdaterTypeOK, NoUpdateLost, QueuedIsCurrent, NothingBeforeLoad, None
<1>2. CASE ViewDidLoad
    <2>1. CASE UNCHANGED << value, queued, blocks >> /\ controller = "heroList"
        BY <1>2, <2>1 DEF ViewDidLoad, UpdaterInv, UpdaterTypeOK, NoUpdateLost, QueuedIsCurrent,
                          NothingBeforeLoad, Phases, None
    <2>2. CASE PerformUpdates(value') /\ value' \in 0 .. MaxValues
        BY <1>2, <2>2, UpdateKeepsInv DEF ViewDidLoad, Phases
    <2>3. controller = "heroList" => value = 0
        BY <1>2 DEF ViewDidLoad, UpdaterInv, NothingBeforeLoad
    <2>4. value \in 0 .. MaxValues
        BY DEF UpdaterInv, UpdaterTypeOK
    <2> QED
        BY <1>2, <2>1, <2>2, <2>3, <2>4
           DEF ViewDidLoad, HeroListLoads, FilterLoads, HeroDetailLoads, NoUpdates, PerformUpdates
<1>3. CASE ViewWillAppear
    <2>1. CASE controller = "heroList"
        <3>1. PerformUpdates(value') /\ value' \in 0 .. MaxValues
            BY <1>3, <2>1 DEF ViewWillAppear, UpdaterInv, UpdaterTypeOK, PerformUpdates
        <3> QED
            BY <1>3, <3>1, UpdateKeepsInv DEF ViewWillAppear, Phases
    <2>2. CASE controller # "heroList"
        BY <1>1, <1>3, <2>2 DEF ViewWillAppear, NoUpdates, Phases
    <2> QED
        BY <2>1, <2>2
<1>4. CASE EntersWindow \/ LeavesWindow
    BY <1>1, <1>4 DEF EntersWindow, LeavesWindow, Phases
<1>5. CASE HeroesAccepted \/ RolesAccepted
    <2>1. value' \in 0 .. MaxValues
        BY <1>5 DEF HeroesAccepted, RolesAccepted, Accepts, UpdaterInv, UpdaterTypeOK
    <2>2. phase' \in Phases \ {"built"}
        BY <1>5 DEF HeroesAccepted, RolesAccepted, Accepts, UpdaterInv, UpdaterTypeOK
    <2> QED
        BY <1>5, <2>1, <2>2, UpdateKeepsInv DEF HeroesAccepted, RolesAccepted, Accepts
<1>6. CASE WillTransition
    <2>1. PerformUpdates(value') /\ value' \in 0 .. MaxValues /\ phase' \in Phases \ {"built"}
        BY <1>6 DEF WillTransition, UpdaterInv, UpdaterTypeOK, PerformUpdates, Phases
    <2> QED
        BY <1>6, <2>1, UpdateKeepsInv DEF WillTransition
<1>7. CASE RunBlock
    <2>1. CASE busy \/ queued = None
        BY <1>7, <2>1 DEF RunBlock, HasWork, UpdaterInv, UpdaterTypeOK, NoUpdateLost, QueuedIsCurrent,
                          NothingBeforeLoad, None
    <2>2. CASE ~busy /\ queued # None
        <3>1. cells' = value
            BY <1>7, <2>2 DEF RunBlock, HasWork, DrawnFor, UpdaterInv, QueuedIsCurrent
        <3>2. phase # "built"
            BY <2>2 DEF UpdaterInv, NothingBeforeLoad
        <3>3. /\ queued' = None
              /\ blocks' = blocks - 1 /\ blocks > 0
              /\ busy' = (phase = "inWindow")
              /\ UNCHANGED << controller, phase, value >>
            BY <1>7, <2>2 DEF RunBlock, HasWork
        <3>4. busy' \in BOOLEAN
            BY <3>3, Zenon
        <3>5. UpdaterTypeOK'
            BY <3>1, <3>3, <3>4 DEF UpdaterInv, UpdaterTypeOK
        <3> QED
            BY <3>1, <3>2, <3>3, <3>5 DEF UpdaterInv, NoUpdateLost, QueuedIsCurrent, NothingBeforeLoad
    <2> QED
        BY <2>1, <2>2
<1>8. CASE BatchCompletes
    <2>1. blocks' = blocks + 1 /\ UNCHANGED << controller, phase, value, queued, cells >>
        BY <1>8 DEF BatchCompletes
    <2>2. phase # "built" /\ busy' \in BOOLEAN
        BY <1>8 DEF BatchCompletes, UpdaterInv, NothingBeforeLoad
    <2>3. UpdaterTypeOK' /\ blocks' > 0
        BY <2>1, <2>2 DEF UpdaterInv, UpdaterTypeOK
    <2> QED
        BY <2>1, <2>2, <2>3 DEF UpdaterInv, NoUpdateLost, QueuedIsCurrent, NothingBeforeLoad, None
<1>9. CASE UNCHANGED updaterVars
    BY <1>1, <1>9 DEF updaterVars, UpdaterInv, UpdaterTypeOK
<1> QED
    BY <1>2, <1>3, <1>4, <1>5, <1>6, <1>7, <1>8, <1>9 DEF UpdaterNext

LEMMA UpdaterInvariance == UpdaterSpec => []UpdaterInv
BY InitInv, NextInv, PTL DEF UpdaterSpec

(* The updater's state keeps its type: the screen never shows an object    *)
(* that is not there, whatever IGListKit's blocks find when they run.      *)
THEOREM UpdaterTypeCorrect == UpdaterSpec => []UpdaterTypeOK
<1>1. UpdaterInv => UpdaterTypeOK
    BY DEF UpdaterInv
<1> QED
    BY <1>1, UpdaterInvariance, PTL

(* No update of a screen is lost between performUpdates, the coalesced     *)
(* blocks and the batch updates in flight.                                 *)
THEOREM UpdatesReachScreen == UpdaterSpec => []NoUpdateLost
<1>1. UpdaterInv => NoUpdateLost
    BY DEF UpdaterInv
<1> QED
    BY <1>1, UpdaterInvariance, PTL

(* A step of the updater draws the relay's value of the moment, lets the   *)
(* relay take the next one, or cannot be seen.                             *)
LEMMA ViewStep == UpdaterInv /\ [UpdaterNext]_updaterVars => [View!Next]_(View!viewVars)
<1> SUFFICES ASSUME UpdaterInv, [UpdaterNext]_updaterVars
             PROVE  View!Accept \/ View!Draw \/ UNCHANGED << value, cells >>
    BY DEF View!Next, View!viewVars
<1>1. CASE ViewDidLoad
    BY <1>1 DEF ViewDidLoad, HeroListLoads, FilterLoads, HeroDetailLoads, View!Accept
<1>2. CASE HeroesAccepted \/ RolesAccepted
    BY <1>2 DEF HeroesAccepted, RolesAccepted, Accepts, View!Accept
<1>3. CASE RunBlock
    BY <1>3 DEF RunBlock, HasWork, DrawnFor, UpdaterInv, QueuedIsCurrent, View!Draw
<1>4. CASE ViewWillAppear \/ EntersWindow \/ LeavesWindow \/ WillTransition \/ BatchCompletes
    BY <1>4 DEF ViewWillAppear, EntersWindow, LeavesWindow, WillTransition, BatchCompletes
<1>5. CASE UNCHANGED updaterVars
    BY <1>5 DEF updaterVars
<1> QED
    BY <1>1, <1>2, <1>3, <1>4, <1>5 DEF UpdaterNext

(* The three screens implement the abstract view: what is drawn is the     *)
(* relay's value of the moment, and no screen goes back to an older one.   *)
THEOREM UpdaterImplementsView == UpdaterSpec => ImplementsView
<1>1. UpdaterInit => View!Init
    BY DEF UpdaterInit, View!Init
<1> QED
    BY <1>1, ViewStep, UpdaterInvariance, PTL DEF UpdaterSpec, ImplementsView, View!Spec
============================================================================
