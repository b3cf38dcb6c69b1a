# HeroQ in TLA+

A verification development for HeroQ, an iOS app that lists the heroes of
Dota 2: it fetches them from `api.opendota.com`, keeps them in a Realm store,
shows them in a grid, filters them by role and shows one hero with similar
ones. The app is written in Swift with the VIPER pattern; lists are drawn with
IGListKit and observed with RxSwift relays. The repository carries the source of
the pods the app is built with; of these the Realm store behind the heroes, with
its threads and its files shared between processes, has the richest behaviour,
and its core is modelled too. Paths of the app are relative to
`src/HeroQ/HeroQ/`, paths of Realm to `src/HeroQ/Pods/Realm/`.

## 1. The system

| component | state it keeps | operations | talks to |
|---|---|---|---|
| **Hero service** `Services/HeroService.swift` | none of its own; one URLSession task per fetch, blocks on the main queue | `fetchHeroes`: on a background queue the completion handler ends in one of five ways and posts one block | hero list (handlers) |
| **Realm store** `Utils/Helper/RealmHelper.swift` | the rows of `RLMHero`, without a primary key | `saveHeroes` (one transaction per hero, errors swallowed), `getHeroes` | hero list (synchronous calls on the main thread) |
| **Hero list** `Modules/HeroList` | `obsHeroes` (the grid), `_masterHeroes` (last response), `obsActiveFilters`, `_isFetching`, `_error` | `viewLoaded`/`fetchHeroes`, refresh, Try Again, open filter, `filterHeroes`, `getRoles`, `getSimilarHeroes`, success and error handlers | service, store, filter screen (presents it, is its delegate), detail screen |
| **Filter screen** `Modules/Filter`, `IGListSection/Filter` | `obsRoles`; each button's own `isSelected` | role button, save, close, alert | hero list (delegate `didSaveButtonTapped`) |
| **Hero detail** `Modules/HeroDetail` | `obsHero`, `obsHeroes`, set once | draw | - |
| **List pipeline** adapters, section controllers, IGListKit | `listDiffable`, the queued update, the batch in flight, the cells | `performUpdates`, queued block, batch completion | every screen's relay |
| **Reachability** `Utils/Network/NetworkManager.swift` | none | `isConnectedToInternet` | hero list |
| **Layout and styling** | none | centred rows, colours, images | - |
| **Realm: file transactions** `include/core/realm/group_shared.hpp` and its callers | numbered snapshots, the write lock, per accessor a stage and the snapshot it reads | begin/end/advance read, promote to write, commit, roll back | every Realm and the notification worker |
| **Realm: notifications** `Realm/ObjectStore/src/impl/realm_coordinator.cpp`, `collection_notifier.cpp`, `results_notifier.cpp`, `results.cpp`, `shared_realm.cpp` | notifiers in two lists, the version to stop at, a worker's round, packages, callbacks with two change sets each | commit, `on_change`, `run_async_notifiers`, `package_notifiers`, `after_advance`, `add_callback`, `remove_callback`, `suppress_next_notification`, `refresh`, `notify` | main thread and worker through two mutexes, a pipe and a run loop source |
| **Realm: opening and schema** `Realm/RLMRealm.mm`, `shared_realm.cpp`, `object_store.cpp`, `realm_coordinator.cpp` | the tables and schema version in the file, a schema cache per process, column indices per Realm | open, migrate, follow changes of the tables, close | processes through the file's write lock, Realms of a process through `initLock` and the cache |
| **Realm: change sets** `Realm/ObjectStore/src/impl/transact_log_handler.cpp`, `collection_change_builder.cpp`, `index_set.cpp` | insertions, deletions, modifications, moves; ranges of indices | one per log instruction, `parse_complete`, `merge`, `finalize`, `calculate` | fed by the worker, read by a callback |

How they interact. Everything but a URLSession task runs on the main thread:
taps, handlers posted by the service, queued IGListKit updates. `saveHeroes`
blocks the main thread, row by row. A relay's subscriber asks the view for an
update in the same call; the update itself runs later. The filter screen gets a
*copy* of the roles and answers once through its delegate.

Realm works with three kinds of threads. A Realm on the main thread reads a
snapshot until it moves on; another thread or process may commit at any time. A
commit wakes the worker of each process through a pipe. The worker brings its own
read transaction forward, runs the queries of the notifiers, adds the changes to
every callback and signals the main thread's run loop. There, or in `refresh` or
`begin_transaction`, the changes are packaged, the Realm is moved to the snapshot
of the package and the callbacks are called, which may write, refresh, add and
remove callbacks in turn.

What is hard to test, and so what the properties are for (each item is a hazard
of `PROJECT.json`, at its line):

* fetches overlap and end in any order, in five ways; the server's list changes
  between them; connectivity is checked before the task is started;
* the process dies, or Realm throws, between two rows of a save;
* a response arrives while the filter screen is open, or while the grid is
  covered by the detail screen;
* role buttons are tapped before the redraw caused by the last tap has run, and
  a hero is tapped on a grid that is out of date;
* updates are queued while another is queued or animated;
* the grid has two sources (`_masterHeroes`, which only a response fills, and
  the store), and filters work only on the first;
* the worker lags behind while the main thread moves its Realm by reading,
  writing and refreshing, so that packages are older than what was read;
* `m_have_callbacks` is read without its mutex several times in a round;
* callbacks add and remove callbacks while the loop over them runs, ones that
  were there at the packaging and ones that have only just been added;
* a commit that one callback asked not to hear of has to be handed over alone, and
  the worker may pass between the request and the commit;
* `begin_transaction` holds the file's write lock while it waits for the worker,
  which may just have gone to sleep;
* a process dies between its commit and its notice, or anywhere in an opening;
* two processes find the same old tables, or find them change under them, or a
  schema version that is raised while the tables stay as they are;
* rows are renamed again and again in one transaction, and the changes of several
  transactions are merged before anybody sees them;
* the diff of a query in table order tells from counts alone which rows have moved.

What makes each component correct:

* *service*: every fetch reaches exactly one handler;
* *store*: rows are never lost; they grow by at most one copy per response;
* *hero list*: what is shown was saved (or given up on); a filtered grid is the
  selection over the last response; heroes do not vanish without a cause;
* *filter screen*: "All" is coherent with the other roles; it hands back one
  legal selection or none; buttons tell the truth once redrawn;
* *similar heroes*: the best ones, never the hero itself, at most three;
* *list pipeline*: no update is lost, screens never go back to an old value;
* *file transactions*: one writer, on the latest snapshot; no reader goes back;
* *notifications*: each change is told once to each callback, with the Realm on
  the snapshot it leads to; all callbacks catch up;
* *opening and schema*: the cache and the columns are those of the snapshot they
  are used for, the version never falls, a file is migrated once;
* *change sets*: they turn the collection last shown into the present one.

## 2. The modules

```
 HeroCatalog        values and pure functions (getRoles, filterHeroes, ...)
 HeroService        data tasks, completion handlers, main queue
 RealmHelper        rows, saves in progress
   \_ HeroList      EXTENDS the three: the interactor and its handlers
 FilterDialog       abstract: what HeroList relies on of a filter screen
   ^_ FilterScreen  implements it (INSTANCE FilterDialog)
 EventualView       abstract: what a screen promises its interactor
   ^_ ListUpdater   implements it (INSTANCE EventualView)
 SimilarHeroes      a hero tap, getSimilarHeroes

 SharedGroup                  snapshots, the write lock, read transactions
   |_ CollectionNotifier      callbacks and what is due to each
   |    \_ ResultsNotifier    a Results and its notifier
   |         \_ RealmCoordinator   the worker, the main thread, another writer
   \_ RealmSchema             opening, migration, the schema cache
 IndexSet                     ranges of indices
   \_ CollectionChangeBuilder  changes of a collection, merged or calculated
        \_ TransactLogObserver  instructions of the log, runs, the callback
```

In the second half every module EXTENDS the one above it.

`MC*.tla` give the constants values for TLC; `MCScreens` extends FilterScreen,
SimilarHeroes and ListUpdater, which share no state, and lets each behaviour be one of
one of them, so that one run checks the three and its states are their sum.
`*_proofs.tla` hold the theorems.
`CollectionChangeBuilder_proofs.tla` has the lemmas on ranges and on merged changes
that `TransactLogObserver_proofs.tla`, which EXTENDS it, builds its theorems on.
Some modules define variants of an action with a plausible bug
(`ApiErrorWithoutReturn`, `WriteRowAgain`, ...). No specification uses them; they are put
in place of the real definition to see that a property notices the difference.

**HeroService.** `Send(r)` is `fetchHeroes`; `ApiError`, `BadResponse` and
`Decoded` are the ways out of the completion handler, `TakeBlock` the main thread
taking a posted block. `Publish` and `ServerReads` are the server: it answers
with the list of the moment it reads the request, so an older list may be
delivered after a newer one. `posted` is a history of the process's blocks, so that
what the handlers leave behind can be compared with all that was answered.
`invalidEndpoint` cannot happen, as the URL is a constant.

**RealmHelper.** `saving` is what the running `saveHeroes` has still to write:
each row is a step, so that a kill (`RealmKilled`) or an error (`SaveFails`)
fits between any two. `getHeroes` returns every row, or nothing when Realm
throws. `dropped` records what a failed save gave up on. The store keeps the
order rows were added in.

**HeroList.** One action per handler. `FetchHeroes` is the whole of
`fetchHeroes`: reload from the store, then a task, or the alert. At `Launch` the
view is not in a window yet, so UIKit may refuse the alert; both outcomes are
allowed. `HandleResponse` assigns grid and master list and begins the save,
during which no other main-thread step happens (`MainThreadIdle`). `modal` is
what covers the grid; while it is the filter screen, `offered` holds the roles
it was opened with and `FilterSaved` hands back any legal selection of them.
`Kill` takes everything but the store. A role filter's `id` is abstracted to
"is it All": the code asks nothing else of it.

**FilterScreen.** `buttons` are the states the cells show, `obsRoles` the
interactor's. A tap flips the button and reports *its* state; `Redraw` is the
queued update. `SetOne`'s count is the code's: clear "All", then compare with
`roles.count - 1`. `allTapped` is a history variable.

**ListUpdater.** One value path for the three screens: who asks for an update
(subscriber, `viewDidLoad`, `viewWillAppear`, rotation), IGListKit's coalescing
(`queued` is overwritten, each request dispatches a block, a block does nothing
while a batch is in flight, the end of a batch dispatches another), and what the
cell reads: the filter's section holds the relay, the others hold a snapshot.
FilterScreen and SimilarHeroes have the redraw as one step, `Redraw` and
`RedrawGrid`, which is what `EventualView` promises of it.

**SimilarHeroes.** Swift's `sort` promises no order between equals, so
`SimilarHeroes` is the set of results it may give. The tapped hero is the one
the cell was drawn with, the candidates those the interactor holds by then.

**SharedGroup.** `snapshots` is the file, in the order of the commits; what a
snapshot holds (`Contents`) is up to the module that extends this one. Of
`SharedGroup` the repository has the headers and a compiled library, so the
operations are modelled from the object store's calls of them. `LockForWrite` and
`FinishPromotion` are the halves of `promote_to_write` between which
`begin_transaction` waits for the worker.

**CollectionNotifier, ResultsNotifier.** One observed `Results`. A change set is
the set of commits it stands for, and a view, or a list of rows, the snapshot it
was computed in: that is all the questions asked here need, and what is *in* a
change set is the subject of TransactLogObserver. `WrongBase` stands for the
difference of two row lists that no sequence of commits leads between. The last
six fields of `Callback` are history: what the callback has been told since
its first call, what it was spared, what was thrown away. `notifier.stale` is
history, too: whether a round went by a value of `m_have_callbacks` that was not
the one its other reads found. So is `miscounted`: `remove_callback` lowers
`m_callback_count` whichever callback goes, and `RemoveCallback` sets `miscounted`
when, during the loop over the callbacks, one goes that was added after the
packaging and so was never counted.

**RealmCoordinator.** Each action is what one thread does between two points
where another can see or change something. The worker's round is `StartRound`
(versions chosen under the lock), `Advance` (the log is read), `RunNotifier` (the
query), `HandOver` (`deliver` under the lock; back to `Advance` if this was the
stop at `m_notifier_skip_version`), `NotifyRealms`. `main.pc` is `"packaging"`
while the main thread waits for the notifiers, `"delivering"` with a view in the
package, `"calling"` between callbacks and `"called"` inside one, where the
program may do what it can do outside, but for a few calls. `halfway` marks the
two operations that are visible in halves: `add_callback`, which wakes the worker
before it sets `m_have_callbacks`, and `suppress_next_notification`, which a
commit follows. `ReadPastEnd` is the loop over the callbacks when `m_callback_count`
has gone below zero, to a huge unsigned number: it reads behind the last callback.
What happens then is undefined, and the main thread stays at `"undefined"`. `Calls`
says which calls a run allows besides observing, writing and what the run loop does.

**RealmSchema.** A schema is a set of `<<table, column>>` fields, so that `Extra`
and `Missing` are set differences. `pc` follows `realmWithConfiguration` from
the constructor (`"reading"`, `"read"`) over `update_schema` (`"begun"`, `"full"`,
`"promoted"`, `"applying"`, `"clear"`) to the open Realm; `"moved"` is the point
between a move to another snapshot and `cache_new_schema`, where other Realms of
the process may get in between. A new version may bring fields, drop some or be
raised alone. The group calls the schema change handler for changed tables only, so
versions raised alone are reported to nobody, and neither the second look of
`update_schema` nor the cache hears of them. A kill takes a process at any of these points.

**IndexSet, CollectionChangeBuilder, TransactLogObserver.** Here index sets are
sequences of ranges, as in the code, because the joining and splitting of ranges
is what goes wrong. A row has a name that stays when its number changes; `rows`
is the list or table, `change` what the observer built in this run, `total` what
is merged for the callback, `shown` the collection it last saw. `Run` is the end
of a run (`parse_complete`, `calculate` for queries, `merge`), after which a
callback may take the changes. `passed` is a history variable: whether in some run a
row of a query went to a higher number and past a row that kept its own. Loops of the
code that carry a state are functions over the number of rounds (`updated`, `taken`,
`done`, `found`, `round`), where no recursive operator would do in a module with
proofs; `LongestMatches` takes the stretches left after each round as a set, as the
order in which the code visits them does not matter to what it collects.

## 3. The runs

| run | spec | what is asked | size |
|---|---|---|---|
| `hero_list` | `HeroList!FairSpec` | see below; every fetch returns, once | 2 fetches, 3 lists, ~136 000 states |
| `screens` | `MCScreens!ScreensSpec` | filter screen: coherence of "All", buttons, the dialog; hero taps: the best similar heroes are shown; updater: no update lost, refinement of the abstract view, liveness | 0-3 roles besides "All"; 7 grids of up to 6 heroes; 4 values, 3 blocks; ~3100 states |
| `notifier` | `RealmCoordinator!Spec` | every change told once, on the right snapshot | 3 snapshots, 1 callback, 4.0 million states |
| `notifier_live` | `FairSpec` | the same while callbacks add and remove callbacks; waits end, callbacks catch up | 2 snapshots, 2 callbacks, ~470 000 states |
| `stale_flag` | `RealmCoordinator!Spec` | a stale `m_have_callbacks` costs work only; **violated** | 3 snapshots, 1 callback |
| `lost_change` | `RealmCoordinator!Spec` | `m_callback_count` leaves out no callback it should count; **violated** | 2 snapshots, 3 callbacks |
| `suppressed_told` | `RealmCoordinator!Spec` | a callback is not told of a commit it asked to be spared; **violated** | 2 snapshots, 1 callback |
| `realm_schema` | `RealmSchema!Spec` | cache, columns, versions, migrations | 2 processes, 3 Realms, 4 snapshots, 1.8 million states |
| `schema_assert` | `RealmSchema!Spec` | the assertion of `advance_schema_cache`; **violated** | 3 snapshots |
| `migration_race` | `RealmSchema!Spec` | what is committed after the second look is still needed; **violated** | 4 snapshots |
| `change_builder` | `TransactLogObserver!Spec` | change sets, index sets, the diff | up to 5 instructions, ~244 000 states |
| `query_diff` | `TransactLogObserver!Spec` | the assertion at the end of `calculate`, in table order; **violated** | 3 instructions |

The properties of `hero_list`:

* `HeroesKept`: every hero on the grid or available to filters is in the store,
  being written, or was given up on by a save that failed;
* `ShownMatchesFilter`: a grid last filled by a filter is exactly the active
  filters' selection over the last response. (After a *response* or a *reload*
  it need not be: the code replaces the grid and leaves the filters active.)
* `ReflectsAnswersRun`: the master list is the last success run in this process
  and the error that of the last failure; nothing else moves them. In
  particular a success does not clear an error.
* `RowsBoundedByResponses`: copies of a hero in the store never outnumber the
  places it had in the delivered responses. (Not the responses that contain it:
  the attempt to prove that failed on a response that lists a hero twice, which
  the catalogue of the run does not have and nothing in the code forbids. That no
  step loses a row is a theorem, `RowsStay`.)
* `GridBlanksOnlyByFilter`: a non-empty grid becomes empty only through an empty
  response, or by saving a filter when there was no response yet (the grid came
  from the store) or when another one arrived while the filter screen was open.
* `ReopenedFilterShowsActive`: a filter screen opened after a save shows what
  was saved, and handing it back untouched gives the same filters.
* `OneCallbackPerFetch` (of the service): a fetch calls back exactly once, however its
  task ends;
* `EveryFetchReturns`: every fetch reaches a handler, behind saves that block the
  main thread and under whatever screen is presented.

The properties of `screens`:

* `AllCoherent`: after any taps, also on buttons that do not show the present state,
  "All" is never selected along with some of the other roles but not all;
* `ButtonsShowRoles`: the buttons show the selection unless a redraw is queued, and
  then only "All" lags, until "All" itself is tapped;
* `ImplementsDialog`: the screen hands back one legal selection of the roles it was
  opened with, or none, as the hero list relies on;
* `ShowsBestSimilarHeroes`: a tap, also on a grid that is out of date, shows at most
  three heroes of the same attribute with all roles of the tapped one, none of them
  that hero and none left out that ranks higher;
* `NoUpdateLost`, `ImplementsView`, `EveryValueOvertaken`: as long as what is drawn is
  not the relay's value an update is under way, a screen never goes back to an older
  value, and in the end it has drawn each value or a newer one.

The properties of `notifier`:

* `EveryChangeOnce`: the commits that changed the table between the snapshot of a
  callback's first call and the one its notifier has reached are split into those
  told, those waiting (in the package or for the next one), those skipped on
  request and those thrown away with a package, and outside a delivery nothing is
  left in a package. Nothing is lost and nothing is told twice, unless a round went
  by a stale `m_have_callbacks` (`stale_flag`) or a callback removed one added since
  the packaging (`miscounted`, see `lost_change`);
* `CallbackSeesItsVersion`: inside a callback all changes up to the package's
  snapshot have been told or spared (with the same two exceptions), and the Realm
  stands on that snapshot;
* `AssertionsHold`: the loop's count stays within `m_callbacks` as long as nothing is
  miscounted, a view is only
  imported into the snapshot it was exported for, the version to stop at is ahead
  of the worker;
* `NoReaderGoesBack`: no accessor is moved to an older snapshot;
* `OthersNeverSkipped`: with a suppressed commit no other commit is kept from a
  callback that had been called when it asked (unless a callback's own write
  transaction moved the Realm, or a round went by a stale `m_have_callbacks`).

The properties of `notifier_live`: `EveryChangeOnce` and `AssertionsHold` again, where
a callback may add and remove others while the loop goes over them; `WaitEnds` (the
wait of `begin_transaction`, which holds the write lock) and `CallbacksCatchUp`: again
and again every callback has been called and told everything, unless the other
process died before its notice, the callback was added in a callback and woke nobody,
or the count is wrong.

The properties of `realm_schema`:

* `OneWriter`: whoever writes has the lock and the latest snapshot;
* `CacheRight`: the cached schema holds for every snapshot the cache claims, whatever
  the Realms of the process report in whatever order. The cached version is that of a
  snapshot with the same tables: a version raised alone is not reported and the cache
  keeps the older one;
* `ColumnsCurrent`: the columns a Realm in a transaction works with are those of
  its snapshot, wherever it has them from, and the version it compares with is that
  of a snapshot with the same tables;
* `HasItsFields`: an open Realm finds all tables and columns of its classes;
* `VersionNeverFalls`, `MigratedOnce`: also when two processes open at once, as long as
  no version was raised without the tables since these last changed
  (`OneVersionOfTables`); `migration_race` shows what happens otherwise.

The properties of `change_builder`:

* `LogChangesRight`: the changes read from one log lead from the rows before to the
  rows now, and a query finds where each row went;
* `MergedChangesRight`: so does what a callback gets, merged from several runs;
  moves are deletions and insertions of the same row; no modification is missing
  or made up. For a query in table order this holds until a row has passed one that
  kept its number (`passed`, see the findings); the number of rows the changes
  leave is right in any case, and a table view insists on that;
* `IndexSetsRight`: every operation on ranges does what is meant for sets, for
  every set up to the bound; `DiffRight`: `calculate` is right for any two orders.

**Bounds and why they are enough.** Two fetches are the least with overlap,
reordering, a second save over rows of the first, and a retry after a failure;
with three the state space of `hero_list` goes beyond five minutes (7 million
states, to depth 21, were explored without a violation), and the
theorems hold for any number of fetches. The three
catalogues differ in what matters: a hero is dropped, a hero changes his roles,
a role appears, everything disappears. Two roles per hero and three in all make
unions with duplicates. On the filter screen three roles besides "All" separate
none, one, all-but-one and all. The grids of `screens` have ties, a hero
without roles, more than three candidates, the same hero twice (two saves), and
a grid that has changed since it was drawn. `MaxBlocks` lets an update be asked
for while one is queued and one is animated.

Three snapshots are two commits: one to be suppressed, skipped to or packaged and
one that overtakes it; a commit may change the observed table or not. What one
callback is told takes one callback, and the loop over them two, of which one adds or
removes the other (`notifier_live`, which therefore checks `EveryChangeOnce` and
`AssertionsHold`, too). With two callbacks a wrong count can only come from removing
the one just added; that another is left out with its changes takes a third
(`lost_change`). In `realm_schema` a process has two Realms, so that they
disagree about snapshots, next to one of an extension; of the two configurations of
version 2 one replaces a column and the other leaves out a table, which in a file
with these tables raises the version alone; four snapshots
are the empty file, the first tables, a commit or migration, and one more. Rows
of a list or table start with up to three and grow to four; lists and queries
take four instructions in all runs together (five were explored, too), the
sorted query three and the linked table five. `Huge` (12) stands for `SIZE_MAX`,
beyond any row.

Deadlock is checked except in the Realm runs, where versions or instructions run out
and the model does stop. In `screens` the filter screen may be dismissed, which is the
one end the run allows (`FilterScreenIsOver`).

**Fairness.** The main run loop keeps turning: weak fairness of `TakeBlock`/
`RunBlock`, of `SaveStep` (a save is a loop on the main thread) and of ListUpdater's
`RunBlock`. URLSession completes every task, if only with a
timeout: weak fairness of each `TaskCompletes`. UIKit calls the completion of a
batch update: weak fairness of `BatchCompletes`. No user action, kill, server or
connectivity step is fair.

In `notifier_live` threads run: weak fairness of the worker, of what the main
thread has begun (`MainRuns`) and of the other process's notice. Who began a write
transaction ends it (weak fairness of `EndTransaction`). A callback that has been
called returns and the run loop gets to a signalled source: strong fairness of
`ReturnFromCallback` and `Notify`, because each is disabled again and again, by a
write transaction inside the callback and by calls of the program. Commits, calls
and the death of the other process are not fair.

**Findings.** `stale_flag`: `collection_notifier.hpp:232-234` says of `m_have_callbacks` that "It's
okay if this value is stale as at worst it'll result in us doing some extra work."
The worker reads it in `add_required_change_info`, `need_to_run` and
`calculate_changes` (`results_notifier.cpp:120`). A callback added between the first
and the last is told the difference to rows that were not carried forward by the
log, or is not told of a commit at all.

`lost_change`: `collection_notifier.hpp:240-243` says that `m_callback_count` is the
number of packaged callbacks that are still there, for `for_each_callback` to leave out
those registered during the delivery. `remove_callback` lowers it for any callback
(`collection_notifier.cpp:214`). With A and B packaged, A adds C and removes it again:
the count falls to 1, B is not called, and the next package overwrites the changes it
should have been told (`cpp:366-367`). The theorems below say that nothing is lost
while this does not happen.

`suppressed_told`: `Realm.swift:255-257` promises that the callbacks whose tokens are
passed are skipped for this write transaction. `suppress_next_notification` marks them
before the commit; a round of the worker in between, for the callback's first results
or for another process's commit, hands over and clears the mark
(`collection_notifier.cpp:410`), and the callback is told of the commit.

`schema_assert`: `realm_coordinator.cpp:397` asserts that nobody comes to a snapshot
from one the cache has not seen. After the first opening has emptied the cache, a
second thread's constructor reads a snapshot; the first Realm commits the next one,
which an empty cache does not note; the constructor caches its schema for the older
snapshot; the first Realm's next move reports the newer one as previous, and the
assertion, which the build enables, ends the process.

`migration_race`: `update_schema` looks again after it has got the write lock, as
somebody else may have "initialized the schema on disk" meanwhile
(`shared_realm.cpp:476-477`), but only if a change of the tables was reported
(`m_new_schema`, line 478). If the version was raised without one, or with a migration
that only changes rows, the second opener does not look: it still has the old version,
runs its migration over a file that has been migrated, and may put version 2 over
version 3.

`query_diff`: `calculate` ends with a check for debug builds
(`collection_change_builder.cpp:848`), "Verify that applying the calculated change to
prev_rows actually produces next_rows". `calculate_moves_unsorted` goes through the
rows of a query in table order. A row whose number did not change it takes for
unmoved, and a row whose number did change it takes for unmoved, too, when as many rows
are before it as there should be (line 556), wherever those rows came from. Take the
results a b c, and a transaction that adds two rows and swaps them with a and b, so
that the query finds c b a: c kept its number and is accepted at 0; b is where it was
and is accepted; a alone is reported as moved, and the changes lead to b c a. The
sorted calculation, `calculate_moves_sorted`, has no such case (`SortedDiff`).
Deleting rows by `move_last_over` never does this, as it only lowers numbers: the
run `change_builder` and the theorem `MergedChanges` say that all is right unless a
row has gone up past one that stayed. This came out of the proof of
`MergedChangesRight`, whose invariant could not be kept by a run: with three rows
and the instructions `change_builder` allows it takes a table that has grown by two,
which is beyond that run's bounds and within those of `query_diff`.

## 4. The theorems

All hold for every value of the constants (any heroes, roles, catalogues, number
of fetches, opening lists, values), under the assumptions that TLC evaluates in
the runs:

* `RoleOrderAssumption`: the role names are listed without repetition and "All"
  sorts first (the code takes position 0 for "All"; the API's role names have
  this property);
* `HeroesAssumption`, `CataloguesAssumption`, `ServiceAssumption`,
  `OpeningsAssumption`, `UpdaterAssumption`, `GridsAssumption`, `RankAssumption`:
  the constants have their types (what heroes are ranked by is a whole number), and
  a filter screen is opened with a list `getRoles` can build: "All" first and
  coherent;
* `GroupAssumption`, `CallbacksAssumption`, `ResultsAssumption`,
  `CoordinatorAssumption`, `SchemaAssumption`: types; there are three accessors to
  the file of RealmCoordinator, any number to that of RealmSchema;
* `BoundsAssumption`: the bounds on rows and instructions are numbers, there are not
  more rows at first than at any time, and `Huge`, for `SIZE_MAX`, is beyond any row.

| module | theorem | says |
|---|---|---|
| `HeroList_proofs` | `ServiceTypeCorrect`, `FetchCallsBackOnce` | the service's invariants |
| | `ListImplementsService`, `ListFetchCallsBackOnce` | the app takes only steps of the service, so its guarantees carry over |
| | `ListTypeCorrect`, `ShownHeroesAreKept`, `FilteredGridMatches` | the list's invariants |
| | `AnswersReflected`, `RowsBounded` | what the fetches leave in the interactor and in the store |
| | `ReopenedFilterIsActive` | a filter screen opened again shows what was saved |
| | `GridBlanks`, `RowsStay` | its two action properties |
| `SimilarHeroes_proofs` | `BestSimilarHeroes` | what a tap on a hero shows |
| `FilterScreen_proofs` | `ScreenTypeCorrect`, `AllStaysCoherent`, `ButtonsFollowRoles` | the screen's invariants |
| | `ScreenImplementsDialog` | it implements `FilterDialog` |
| `ListUpdater_proofs` | `UpdaterTypeCorrect`, `UpdatesReachScreen`, `UpdaterImplementsView` | no lost update; it implements `EventualView` |
| `RealmSchema_proofs` | `TypesCorrect`, `SchemaOneWriter`, `CacheIsRight`, `ColumnsAreCurrent`, `ProgramsHaveTheirFields` | the invariants of opening |
| | `VersionsRise`, `MigrationHappensOnce` | its two action properties, for versions that come with changed tables |
| `TransactLogObserver_proofs` | `IndexSetsMeanSets` | the operations on ranges do what is meant for sets |
| | `LogChanges` | the changes read from a transaction's log are right |
| | `MergedChanges` | so are those a callback gets after any number of runs |
| | `SortedDiff` | the diff of sorted results is right for any two orders |
| | `TypeCorrect` | all index sets are ranges in order and apart |
| `RealmCoordinator_proofs` | `ThreadsTypeCorrect`, `PipelineAssertionsHold` | invariants of the pipeline |
| | `ChangesToldOnce`, `CallbacksSeeTheirVersion` | what the callbacks are told |
| | `OthersAreHeard` | what the callbacks are not told |
| | `ReadersGoForward` | no accessor goes back |

The arguments.

*Service.* `ServiceInv` is the types, `OneCallbackPerFetch` and `QueueIsRest`, that
the queue holds the posted blocks that have not run: that no task has two blocks is
inductive only together with "a queued block's task is answered".

*Hero list.* `ListInv` adds to the properties what makes them inductive.

* `NothingDroppedYet` says that nothing is dropped while a save runs: a failing
  save *replaces* `dropped`, which would break `HeroesKept` if a hero shown could
  owe its place to an earlier failure.
* `OffersOpenedOn`: the roles of an open filter screen are `getRoles` of the heroes
  recorded when it was opened and of the active filters, whatever has been delivered
  since. With `LegalSelectionFinds` (a legal selection of offered roles selects a
  hero when there is one) and `NoneShownBeforeLaunch` it gives
  `GridBlanksOnlyByFilter`.
* `ActiveIsSelection`: the active filters are a selection, that is, selected, in the
  order of the role names, and "All" only on its own. Two selections that list the
  same filters in that order are the same list (`SameOrderSameList`), so the screen
  that is opened on them gives them back (`SelectionGivenBack`). The order comes
  from `KeepAtPlaces`: what Swift's `filter` leaves stands in the order it stood in.
* `RanAreOver` and `NothingRuns`: a block that has run has ended its fetch, so what
  the fetch brought is settled (`BroughtStays`), and a process starts with no block.
  Then each block moves either the last success or the last failure
  (`LastOfAppended`), which is `ReflectsAnswersRun`.
* `RowsComeFromResponses` counts the rows still to be written with those in the
  store, against the places of the hero in the delivered responses: a delivery adds
  to both sides the same number (`HeldGrows`), a row written moves from one summand
  to the other (`CopiesAppended`, `CopiesOfTail`), a failed save or a kill takes away.
  That the places are finitely many is part of it.

The lemmas on the catalogue's functions stand at the beginning of `HeroList_proofs`;
the two other modules over the catalogue repeat those on `KeepAt` they need.

*Similar heroes.* `Candidates` filters once per role of the hero. Each filter keeps
a one-to-one listing of places in the hero list (`FilteredLists`), so after the last
role the candidates are the similar heroes, each place once (`CandidatesAreSimilar`,
by induction over the roles as a set of numbers closed under successor, `UpTo`).
Sorting permutes that listing; what the first three leave out ranks no higher.

*Filter screen.* The lemma on `SetOne` relates the count to the roles: with "All"
cleared, as many selected as there are other roles means all of them
(`EveryPosition`). The dialog's step follows from `SelectedFiltersLegal`.

*List pipeline.* `UpdaterInv` adds that a queued update carries the relay's value
of the moment and that nothing is queued or drawn before `viewDidLoad`.

*File transactions.* Both modules over `SharedGroup` first show what the operations
they use do to `GroupInv` (types and `OneWriter`): `GroupStep` and `GroupFrame`, which
adds what becomes of the other accessors, and `GroupKept`.

*Schema.* `IInv` in `RealmSchema_proofs` is `TypeOK`, `OneWriter`, for each Realm what
is true at its phase of opening (`PhaseOK`: its read or write transaction, who holds `initLock`;
`ColumnsOK`: for which snapshot its columns and version hold), and for each process
`CacheOK`. The cache is right only together with the phases: a Realm between a
move and `cache_new_schema` still owes the cache a report, and the interval may be
widened only because a move over unchanged tables means the same schema all the
way. The version a Realm or the cache knows is one that these tables have had
(`VersionSeen`), which is all the code ensures. Where they have had one version only,
`AboutToUpdate` says that a Realm about to update has the file's, and the two action
properties follow; where they have had two, `migration_race` is a counterexample.
`HasItsFields` needs `FieldsInv` on top of it: no table ever goes
(`TablesStay`; an update of the schema drops columns of its own tables only), an
open Realm's tables are in the latest snapshot, and its columns lack no field in a
table they have. That carries the promise through the time without a transaction
and to a Realm that takes its sibling's schema without looking at the file.

*Notifications.* `IInv` in `RealmCoordinator_proofs` has a part per thread.
`WorkerInv`: the worker is in a read transaction as long as the main list has a
notifier, a round goes forwards, and its stop lies between where it is and where
it goes. `NotifierInv`: a view waits to be handed over only for the notifier's
version, never beyond the worker. `MainInv`: what each phase of a delivery
knows of package and Realm, and that the loop's count fits. `CallbacksInv`: types,
and fewer callbacks than tokens given out. Each
action has a lemma that gives the invariant and `Moved(a)`, that only the accessor
of the acting thread moved, and forwards; `ReadersGoForward` is then immediate.

What the callbacks are told needs a second invariant, `EInv`. For each callback
(`EachInv`) it says where it stands in the loop of the delivery under way: those
the loop has passed have been called and have nothing left to be delivered; those
ahead hold what the package brings, and all that waits for the next package is
later than the snapshot of this one, which is what makes a first call begin its
history there. `RoundInv` and `RowsInv` tie the worker's round to it: a round
starts at the notifier's version, the rows of the last run are those of that
version although runs without changes are left out, and so what a run finds is
exactly what changed from the notifier's version to the worker's, for the
hand-over to add. `RowsInv` and the history in `EachInv` are claimed only while the
values read of `m_have_callbacks` agree (`~notifier.stale`); `stale_flag` shows
that they fail otherwise. What `EachInv` and `LoopInv` say of the loop's count is
claimed while nothing is miscounted, and `lost_change` shows that it fails otherwise;
removing a callback that was counted moves the ones behind it and the count alike
(`RemoveExact`). `LoopInv` and `StandInv` say where loop and Realm stand.
The only step that makes the file longer is a commit, and what changed between two
old snapshots remains (`ChangesStay`), so that the steps of the other threads keep
all of this.

For what is skipped a third part, `SkipInv`, follows a flag from
`commitWriteTransactionWithoutNotifying` to the hand-over that clears it. Whoever
asks in a write transaction has been told of all there is (`WriteInv`), so the
commit asked about is the notifier's next version; until the hand-over either
`m_notifier_skip_version` is that version, or the round under way took it and stops
there, or the round was under way before and stops earlier (`StopsInTime`). A
hand-over then brings that commit alone, or nothing. All of it is claimed for a
Realm that has not been moved past its callbacks (`~main.jumped`): a package that
comes up with it ends that state only when no flag is set (`FlagOK`).

*Index sets.* `IndexSetsMeanSets` is about the operations themselves and needs no
invariant. Sets of numbers and ranges correspond one to one: `FromIndexesIs` (what is
pushed index by index are ranges, in order and apart, with these members) and
`SameMembers` (two such sequences with the same members are the same, since each
range begins and ends where the other one does). Each operation is then shown to
leave ranges, and which members they have: `AddIndexIs`, `EraseIndexIs`,
`InsertRangeIs`, `ShiftForInsertIs`, `RemoveRangeIs`, over lemmas about one range
taken out, changed, put in or joined with the next (`Removed`, `Replaced`,
`Inserted`, `Joined`) and about the ranges behind a place moved up or down
(`Shifted`). Where the code tests whether two ranges now touch, the proof needs that
test, and the definitions without it (`DoAddUnjoined`, `DoEraseUnjoined`) violate
the invariants. `CountIs` and `ShiftIndexIs` go through the ranges with the number of
members before each; the index that is free and has `x` free ones before it is unique
(`OneFree`). The functions that go through ranges are recursive: that they take the
steps of their definition is `LoopRuns`, a function defined up to `k` being extended
to `k + 1`, and what is true of all their values is shown with `UpTo`, from the least
element of a set of numbers.

*Changes of a log.* `LogChanges` says that `LogChangesRight` holds after any number of
instructions on any number of rows. `LogChangesRight` looks at the builder only after
`parse_complete`, so it says nothing of the builder between two instructions; `LogInv`
does. `RowsRight`: the rows are few, and no row is twice among them. `change \in
Builders`: deletions, insertions and modifications are sequences of ranges, the moves
name positions, the mapping goes from positions to positions. `ModsRight`: the rows
marked as modified are those modified in this run that are still there. For a query,
`TableRight`: a number that both tables have is deleted exactly if it is inserted, one
that only the old or the new table has is deleted or inserted, and the row under each
number comes from where the mapping says, or, if the number is inserted and not in the
mapping, was not in the old table. For a list,
`ListRight`: the deletions and insertions leave the same rows in the same order
(`Places`), each move is of one row from a deletion to an insertion (`Known`), and no two
moves share an end (`Apart`). A table that is only linked to has an empty mapping.

Places in the old and new collection are compared by rank, the number of places before
them that are neither deleted nor inserted; `Applies` is stated so, too. `UnshiftIs` and
`ShiftIs` say that `UnshiftIndex` and `ShiftIndex` compute a rank and the place that has
it, so a row is found by way of its rank. Each operation of the builder has a lemma on
the sets it leaves (`InsertIs`, `EraseIs`, `MoveIs`, for `move_over` its three cases
`MovedOver`, `MovedOff` and `MovedUntracked`, `SwapRowsIs`, `SubsumeIs`, `ClearTableIs`,
`ClearListIs`), and then each of the parts of `LogInv` has one on what the operation does
to it (`TableOver`, `TableSwapped`, `TableMerged`, `TableGrown`, `PlacesErased`,
`KnownMoved` and so on). `LogInvMeans` follows `parse_complete` through the mapping
(`ParsedIs`, `TableApplies`, `TableMoves`, `TableNumbers`) and through the moves of a
list that end on a row no longer inserted (`CleanedIs`). The guards of `MergeRows`, that
the row taken over is new and in no other row's place, are needed in `TableMerged`.

*Changes merged.* A position that is not deleted and the position that is not inserted
with the same rank are *mates*: `add_shifted_by`, `erase_at`, `insert_at` and
`unshift`/`shift` all lead from a position to its mate (`AddShiftedByIs`,
`InsertIndexesIs`, `MateShifted`). With that, `PlacesMerged` composes the deletions and
insertions of two changes: the merged sets count, before two positions that correspond
through both changes, what both of them delete and insert (`MateRank`). For the moves,
`Merge` is followed step by step. `Follows(b, c, x, m)` says that the move `m` is the way of
the row at position `x` between the two changes through both of them; every move `merge`
makes, of an older move moved on, of one shifted and of a newer one taken back, follows
a row, and no two follow the same one (`UpdatedIs`, `TakenIs`, `FollowsOne`), so they
stay apart. `MergeKeepsRight` is the result: right changes merge to right ones.
`MergeModsIn` and `MergeModsFound` say the same of the modifications: those of merged
changes are rows modified before or after, and all of them but the ones that are new.

*The diff.* Which rows are reported as moved depends on the search; that the change is
right depends only on what is left. Say that `calculate` keeps the rows `K` of both
results: then the deletions are the positions of the others in the old result and the
insertions those in the new (`Reckoned`), and the change is right if the rows of `K` are
in the same order in both (`KeepingPlaces`). For sorted results, the matches found are
boxes in the plane of old and new positions. A round replaces a stretch by its match
and the stretches on either side of it, so that any two boxes are clear of each other, one
before the other in both results (`RoundKeeps`); rows in boxes that are clear are in
order (`LinkedOrder`, `SortedIs`). The argument holds with what the code compares in
line 700 (see section 5): that may end the search early but makes no box that is not
clear. For results in table order (`UnsortedIs`), the rows accepted are in order if the
results are `Steady`: a row that is not a candidate is behind the rows that were before
it. `SteadyIs` derives that from `~Passes(next)`: the inserted numbers of the log, the
candidates, contain every number whose row is not the one it was (`StayPut`).

*Runs.* `RunInv` is the invariant for what is between the runs. The results shown and seen
by the last run repeat no row, the last run's are rows of the table it began with, in
table order for a query and all of them for a list, and `TotalRight`: as long as no row
has passed, the merged change leads from the rows shown to the rows of the last run, and
its modifications are those touched since. Always, it leads from one to the other as far
as *counting* goes, which is said by putting the same row at every position (`Zeros`):
that is what remains after a row has passed, and gives the numbers of rows and the
types. `QueryRunRight` and `ListRunRight` say what a run adds, `MergedRun` that it merges;
the numbers `calculate` works on stand for the rows (`NumbersAgree`). `MergedMeans` then
goes through `finalize`, whose modifications in the old result are the mates of those in
the new (`FinalizeIs`, `OldAndNew`). `TypeCorrect` needs in addition that the mapping of a
list stays empty (`ListUnmapped`) and follows from `Builders`.

**Model-checked only.** Liveness (`EveryFetchReturns`, `EveryValueOvertaken`,
`WaitEnds`, `CallbacksCatchUp`), since it needs fairness and ENABLED.
Every safety invariant and every action property of a run is a theorem.
Recursion is proved about as far as its steps are numbered: of `LongestMatch` and
`LongestMatches` that what they find is right, not that it is the longest.
`AddIndexes`, `AddShiftedBy`, `InsertIndexes` and the other operations that take a
whole set as argument are modelled by the set they leave, not range by range.

## 5. Not modelled, and why

*In the app.* Layout, colours, images and labels (no state depends on them); the
wiring of VIPER modules (straight-line code; `Init` and `Launch` are what it
leaves); object lifetime (the interactors' subscriptions retain them, which
nothing can observe); the decision over reachability flags (a Boolean of the
environment here); the JSON decoder (success or `serializationError`).

*In the pods.* The sources of RxSwift, Kingfisher, SwiftyVIPER, SnapKit, FLEX and
the rest of IGListKit and Realm. By lines they are nearly all of the repository:
of some 109 000 lines of implementation the app has under three thousand, while
Realm Core's headers alone (queries, columns, arrays, B+ trees, sockets, a
websocket and its HTTP) have tens of thousands. They are third-party templates
over a library that is only there in compiled form, and HeroQ uses them through
the object store. What is modelled is therefore the app and the part of the
object store that decides what the app sees and when: about 3 % of those lines.

*Of the notifications.* Several notifiers and notifiers of lists and objects; KVO
and the binding context; errors on the worker; callbacks before a change; closing
a Realm in a callback; a run loop run inside a write transaction; what a program does
after the loop has read behind the last callback.

*Of opening.* Schema modes other than Automatic, sync, compaction, encryption, what
a migration block does to rows, and two files.

*Of change sets.* Results with duplicates, the modifications per column (the same
operations on more sets), subtables, reordered columns and tables, how the observer
keeps track of a list that moves in its own table, and the chunks in which index
sets keep their ranges.

**Noticed while reading,** outside of what the runs are about:

* `_isFetching` is set to false by both handlers and to true by nothing, so the
  activity indicator never shows (`HeroListInteractor.swift:38`);
* `HeroListPresenterTests.swift:94-96` expect Juggernaut, Bloodseeker and Mirana as the
  similar heroes of Anti-Mage, those with his *first* role; `getSimilarHeroes`
  (`HeroListInteractor.swift:124-128`) keeps heroes that have *every* role of his,
  which on the mock response leaves Mirana and Morphling;
* a callback added inside a callback wakes nobody and waits for the next commit;
* once `set_table_view` has set `m_wants_background_updates` to false nothing sets
  it again unless the results are read (`results.cpp:767-771`);
* a commit that throws leaves the mark of a suppressed notification behind;
* `begin_read` at the end of a failed `read_group` leaves a group with columns of an
  older snapshot;
* `update_schema` may throw before its clean-up guard exists, and the read
  transaction stays open until the Realm goes;
* HeroQ sets no `schemaVersion`, so an RLMHero with other properties than the
  stored ones fails to open;
* `initLock` is held while a file's write lock is waited for: opening a second file
  inside a write transaction on the first can wait for ever;
* `ChunkedRangeVectorBuilder::push_back` starts an extra chunk with a count of one
  whatever the range's length (`index_set.cpp:243`);
* the modifications of a table that is only linked to are merged, when a round stops
  on the way, without its insertions and deletions, which are not tracked there, so
  that older ones may be under outdated row numbers;
* `find_longest_matches` compares the end of a match in the old rows with the end of
  the new ones (`collection_change_builder.cpp:700`) and may stop early, which leaves
  the change set right, if not the smallest; `finalize` drops the modifications of
  rows that moved, as these count as inserted.

## 6. Plan

Done, in this order: service, store, catalogue, hero list, filter screen, similar
heroes, list pipeline; then, behind the store, file transactions, notifications,
opening and schema, change sets; each with its runs and with proofs of all its safety
properties.

Next:

1. Several notifiers in one package: `add_required_change_info` advances the new ones
   separately, and the package waits for all of them.
2. `HeroApp`: FilterScreen and ListUpdater composed with HeroList, with the
   navigation between screens, in place of the abstract dialog; refinement of
   FilterScreen's `Redraw` to ListUpdater.
3. The sections of each screen (`Extension+ListAdapter`): which section controller
   draws which object; image cells reused while a picture is still being loaded.
4. Pure checks: reachability flags, rows of `UICollectionViewCenterLayout`,
   colours from hexadecimal strings.
5. Abstract `FetchPromise` (a fetch is answered once or lost with the process)
   implemented by the service.
6. The diff of a query in table order for tables whose rows may pass each other: what
   callbacks are told until the next full reload, and whether the sorted calculation
   in its place would be enough for all of `MergedChangesRight`.
