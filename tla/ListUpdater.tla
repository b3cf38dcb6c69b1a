----------------------------- MODULE ListUpdater -----------------------------
(***************************************************************************)
(* How a value reaches the screen: a relay of the interactor, the view     *)
(* controller's performUpdates, IGListKit's ListAdapter and its updater,   *)
(* and the cell that the section controller draws.  The three screens      *)
(* differ in when they ask for an update and in what the drawn cell reads. *)
(*                                                                         *)
(* An update is queued at once and runs later, in a block on the main      *)
(* queue.  Several updates share a run; while a batch update is animated   *)
(* no other one starts, and blocks that come up meanwhile do nothing.      *)
(* Values are numbered in the order the relay holds them; 0 is the empty   *)
(* list, for which the adapter has no section.  Every performUpdates       *)
(* builds a new section object, so that a run always replaces the section. *)
(***************************************************************************)
EXTENDS Naturals

CONSTANTS
    MaxValues,  \* bound: how many values the relay may hold
    MaxBlocks   \* bound: no event asks for an update beyond so many blocks

ASSUME UpdaterAssumption == MaxValues \in Nat \ {0} /\ MaxBlocks \in Nat \ {0}

VARIABLES
    controller,  \* whose view it is: "heroList", "heroDetail" or "filter"
    phase,   \* how far the view controller's life has come
    value,   \* what the relay holds
    queued,  \* the objects of the queued update, or None
    blocks,  \* blocks on the main queue
    busy,    \* a batch update is in flight
    cells    \* what the collection view shows

updaterVars == << controller, phase, value, queued, blocks, busy, cells >>

Screens == {"heroList", "heroDetail", "filter"}
Phases == {"built", "loaded", "appearing", "inWindow", "covered"}
None == MaxValues + 1

(* The modules of the filter and the detail screen give their relays a     *)
(* value before the view is loaded.  The updates this asks for are ignored *)
(* because there is no collection view yet.                                *)
UpdaterInit ==
    /\ controller \in Screens
    /\ phase = "built"
    /\ value = IF controller = "heroList" THEN 0 ELSE 1
    /\ queued = None
    /\ blocks = 0
    /\ busy = FALSE
    /\ cells = 0

(* PerformUpdatesKeepsFirst, FilterLoadsTitleOnly, RunBlockUnchecked and   *)
(* BatchCompletesQuietly are the definitions that follow each with a       *)
(* plausible bug; no specification uses them.  They show that the          *)
(* properties below can fail.                                              *)
PerformUpdatesKeepsFirst(v) ==
    /\ blocks < MaxBlocks
    /\ queued' = IF queued = None THEN v ELSE queued
    /\ blocks' = blocks + 1

(* performUpdates, asked for when the relay holds v: setupListDiffable     *)
(* takes v down, the adapter reads it back and the updater, forgetting an  *)
(* update that was queued before, dispatches a block.                      *)
PerformUpdates(v) ==
    /\ blocks < MaxBlocks
    /\ queued' = v
    /\ blocks' = blocks + 1

NoUpdates == UNCHANGED << queued, blocks >>

(* viewDidLoad of the hero list fetches, and the rows of the store, if     *)
(* there are any, are accepted at once.                                    *)
HeroListLoads ==
    /\ controller = "heroList"
    /\ \/ value' = value /\ NoUpdates
       \/ value' = value + 1 /\ PerformUpdates(value')

(* viewDidLoad of the others asks for the title, and with it for an update.*)
FilterLoadsTitleOnly == controller = "filter" /\ NoUpdates /\ UNCHANGED value
FilterLoads == controller = "filter" /\ PerformUpdates(value) /\ UNCHANGED value
HeroDetailLoads == controller = "heroDetail" /\ PerformUpdates(value) /\ UNCHANGED value

ViewDidLoad ==
    /\ phase = "built"
    /\ phase' = "loaded"
    /\ HeroListLoads \/ FilterLoads \/ HeroDetailLoads
    /\ UNCHANGED << controller, busy, cells >>

ViewWillAppear ==
    /\ phase \in {"loaded", "covered"}
    /\ phase' = "appearing"
    /\ IF controller = "heroList" THEN PerformUpdates(value) ELSE NoUpdates
    /\ UNCHANGED << controller, value, busy, cells >>

EntersWindow ==
    /\ phase = "appearing"
    /\ phase' = "inWindow"
    /\ UNCHANGED << controller, value, queued, blocks, busy, cells >>

(* Another screen is pushed or presented over this one.                    *)
LeavesWindow ==
    /\ phase = "inWindow"
    /\ phase' = "covered"
    /\ UNCHANGED << controller, value, queued, blocks, busy, cells >>

Accepts ==
    /\ phase # "built"
    /\ value < MaxValues
    /\ value' = value + 1
    /\ PerformUpdates(value')
    /\ UNCHANGED << controller, phase, busy, cells >>

(* A response, the store or a saved filter fills the hero list, which may  *)
(* be covered.                                                             *)
HeroesAccepted == controller = "heroList" /\ Accepts

(* A role button is tapped.                                                *)
RolesAccepted == controller = "filter" /\ phase = "inWindow" /\ Accepts

(* The hero list redraws itself when the device is turned.                 *)
WillTransition ==
    /\ controller = "heroList"
    /\ phase = "inWindow"
    /\ PerformUpdates(value)
    /\ UNCHANGED << controller, phase, value, busy, cells >>

(* What a cell drawn for section object v shows: the filter's section      *)
(* holds the relay, the others hold the heroes they were built with.       *)
DrawnFor(v) == IF controller = "filter" THEN value ELSE v

(* What a block checks first: the updater is idle and has changes.         *)
HasWork == ~busy /\ queued # None

RunBlockUnchecked ==
    /\ blocks > 0
    /\ blocks' = blocks - 1
    /\ IF busy
       THEN UNCHANGED << queued, busy, cells >>
       ELSE /\ queued' = None
            /\ cells' = DrawnFor(queued)
            /\ busy' = (phase = "inWindow")
    /\ UNCHANGED << controller, phase, value >>

(* A block runs.  Out of a window the collection view is reloaded on the   *)
(* spot, otherwise a batch update begins.                                  *)
RunBlock ==
    /\ blocks > 0
    /\ blocks' = blocks - 1
    /\ IF HasWork
       THEN /\ queued' = None
            /\ cells' = DrawnFor(queued)
            /\ busy' = (phase = "inWindow")
       ELSE UNCHANGED << queued, busy, cells >>
    /\ UNCHANGED << controller, phase, value >>

BatchCompletesQuietly ==
    /\ busy
    /\ busy' = FALSE
    /\ UNCHANGED << controller, phase, value, queued, blocks, cells >>

(* The batch update ends; a block is dispatched for what was queued        *)
(* meanwhile.                                                              *)
BatchCompletes ==
    /\ busy
    /\ busy' = FALSE
    /\ blocks' = blocks + 1
    /\ UNCHANGED << controller, phase, value, queued, cells >>

UpdaterNext ==
    \/ ViewDidLoad \/ ViewWillAppear \/ EntersWindow \/ LeavesWindow
    \/ HeroesAccepted \/ RolesAccepted \/ WillTransition
    \/ RunBlock \/ BatchCompletes

UpdaterSpec == UpdaterInit /\ [][UpdaterNext]_updaterVars

(* The main run loop keeps turning, and UIKit calls the completion of      *)
(* every batch update, finished or not.                                    *)
UpdaterFairSpec == UpdaterSpec /\ WF_updaterVars(RunBlock) /\ WF_updaterVars(BatchCompletes)
----------------------------------------------------------------------------
UpdaterTypeOK ==
    /\ controller \in Screens
    /\ phase \in Phases
    /\ value \in 0 .. MaxValues
    /\ queued \in 0 .. MaxValues \cup {None}
    /\ blocks \in Nat
    /\ busy \in BOOLEAN
    /\ cells \in 0 .. MaxValues

(* No update is lost, whatever is queued before, during or between the     *)
(* runs: a queued update has a block to run it or a batch update whose end *)
(* brings one, and with none queued the screen shows what the relay holds. *)
NoUpdateLost ==
    /\ queued # None => blocks > 0 \/ busy
    /\ queued = None /\ phase # "built" => cells = value

(* Seen from the interactor the screen is a view that skips values but     *)
(* never goes back, and is drawn with the value of the moment.             *)
View == INSTANCE EventualView WITH shown <- cells

ImplementsView == View!Spec

(* Every value the relay held is overtaken on the screen by itself or a    *)
(* later one.                                                              *)
EveryValueOvertaken ==
    \A v \in 0 .. MaxValues : (phase # "built" /\ value = v) ~> cells >= v
============================================================================
