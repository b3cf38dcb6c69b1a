------------------------------ MODULE HeroList ------------------------------
(***************************************************************************)
(* The hero list screen: HeroListInteractor with the presenter and view    *)
(* handlers that call it, over HeroService and RealmHelper.  Everything    *)
(* here runs on the main thread, which is busy while saveHeroes writes its *)
(* rows.  The filter screen is represented by the roles it was opened with *)
(* and the selections it may hand back (FilterScreen models it).           *)
(***************************************************************************)
EXTENDS HeroCatalog, HeroService, RealmHelper

ASSUME CataloguesAssumption == \A v \in Versions : Catalogues[v] \in Seq(Heroes)

VARIABLES
    running,           \* the process is alive and the list has been loaded
    connected,         \* NetworkManager.isConnectedToInternet()
    obsHeroes,         \* the heroes on the grid
    masterHeroes,      \* the last response
    obsActiveFilters,
    isFetching,
    error,
    modal,             \* what is presented over the grid
    offered,           \* the roles the filter screen was opened with
    history            \* shownBy: what filled the grid; openedOn: masterHeroes
                       \* when the filter screen was last opened

interactorVars == << obsHeroes, masterHeroes, obsActiveFilters, isFetching, error >>
listVars == << running, connected, modal, offered, history, interactorVars >>
vars == << listVars, serviceVars, realmVars >>

Modals == {"none", "alert", "filter"}
Fillers == {"none", "local", "response", "filter"}

FreshInteractor ==
    /\ masterHeroes' = << >>
    /\ obsActiveFilters' = << >>
    /\ isFetching' = FALSE
    /\ error' = "none"

Init ==
    /\ ServiceInit
    /\ RealmInit
    /\ running = FALSE
    /\ connected \in BOOLEAN
    /\ obsHeroes = << >>
    /\ masterHeroes = << >>
    /\ obsActiveFilters = << >>
    /\ isFetching = FALSE
    /\ error = "none"
    /\ modal = "none"
    /\ offered = << >>
    /\ history = [shownBy |-> "none", openedOn |-> << >>]

(* GetLocalHeroesUnchecked, FilterHeroesShown, HandleResponseSavesOld,     *)
(* HandleResponseSwapped and RunBlockUnlessModal are the definitions that  *)
(* follow each with a plausible bug; no specification uses them.  They     *)
(* show that the properties below can fail.                                *)
GetLocalHeroesUnchecked(shown, by) ==
    \E rows \in GetHeroes :
        /\ obsHeroes' = rows
        /\ history' = [history EXCEPT !.shownBy = "local"]

(* _getLocalHeroes over the grid `shown` that filler `by` had filled.      *)
GetLocalHeroes(shown, by) ==
    \E rows \in GetHeroes :
        /\ obsHeroes' = IF rows # << >> THEN rows ELSE shown
        /\ history' = [history EXCEPT !.shownBy = IF rows # << >> THEN "local" ELSE by]

(* fetchHeroes: the local rows first; then a data task, or the alert.      *)
FetchHeroes(shown, by, alertShows) ==
    /\ GetLocalHeroes(shown, by)
    /\ IF connected
       THEN /\ \E r \in Requests : Send(r)
            /\ modal' = "none"
       ELSE /\ modal' = IF alertShows THEN "alert" ELSE "none"
            /\ UNCHANGED serviceVars

MainThreadIdle == running /\ saving = << >>

(* The process starts, the list module is built and viewDidLoad runs.  The *)
(* view is not yet in a window, so UIKit may refuse to present the alert.  *)
Launch ==
    /\ ~running
    /\ running' = TRUE
    /\ FreshInteractor
    /\ \E alertShows \in BOOLEAN : FetchHeroes(<< >>, "none", alertShows)
    /\ offered' = << >>
    /\ UNCHANGED << connected, realmVars >>

RefreshButtonTapped ==
    /\ MainThreadIdle
    /\ modal = "none"
    /\ FetchHeroes(obsHeroes, history.shownBy, TRUE)
    /\ UNCHANGED << running, connected, offered, realmVars >>
    /\ UNCHANGED << masterHeroes, obsActiveFilters, isFetching, error >>

TryAgainTapped ==
    /\ MainThreadIdle
    /\ modal = "alert"
    /\ FetchHeroes(obsHeroes, history.shownBy, TRUE)
    /\ UNCHANGED << running, connected, offered, realmVars >>
    /\ UNCHANGED << masterHeroes, obsActiveFilters, isFetching, error >>

CloseAlertTapped ==
    /\ MainThreadIdle
    /\ modal = "alert"
    /\ modal' = "none"
    /\ UNCHANGED << running, connected, offered, history, interactorVars, serviceVars, realmVars >>

(* The filter screen is built on a copy of the roles, fixed from here on.  *)
FilterButtonTapped ==
    /\ MainThreadIdle
    /\ modal = "none"
    /\ modal' = "filter"
    /\ offered' = GetRoles(masterHeroes, obsActiveFilters)
    /\ history' = [history EXCEPT !.openedOn = masterHeroes]
    /\ UNCHANGED << running, connected, interactorVars, serviceVars, realmVars >>

FilterHeroesShown(filters) ==
    /\ obsHeroes' = FilterResult(obsHeroes, filters)
    /\ history' = [history EXCEPT !.shownBy = "filter"]
    /\ obsActiveFilters' = filters
    /\ UNCHANGED << masterHeroes, isFetching, error >>

FilterHeroes(filters) ==
    /\ IF filters # << >>
       THEN /\ obsHeroes' = FilterResult(masterHeroes, filters)
            /\ history' = [history EXCEPT !.shownBy = "filter"]
       ELSE UNCHANGED << obsHeroes, history >>
    /\ obsActiveFilters' = filters
    /\ UNCHANGED << masterHeroes, isFetching, error >>

FilterSaved ==
    /\ MainThreadIdle
    /\ modal = "filter"
    /\ \E filters \in LegalSelections(Names(offered)) : FilterHeroes(filters)
    /\ modal' = "none"
    /\ offered' = << >>
    /\ UNCHANGED << running, connected, serviceVars, realmVars >>

FilterClosed ==
    /\ MainThreadIdle
    /\ modal = "filter"
    /\ modal' = "none"
    /\ offered' = << >>
    /\ UNCHANGED << running, connected, history, interactorVars, serviceVars, realmVars >>

HandleResponseSavesOld(response) ==
    /\ isFetching' = FALSE
    /\ obsHeroes' = response
    /\ masterHeroes' = response
    /\ SaveHeroes(masterHeroes)
    /\ history' = [history EXCEPT !.shownBy = "response"]
    /\ UNCHANGED << obsActiveFilters, error >>

HandleResponseSwapped(response) ==
    /\ isFetching' = FALSE
    /\ masterHeroes' = obsHeroes
    /\ obsHeroes' = response
    /\ SaveHeroes(response)
    /\ history' = [history EXCEPT !.shownBy = "response"]
    /\ UNCHANGED << obsActiveFilters, error >>

(* fetchHeroes' success handler.                                           *)
HandleResponse(response) ==
    /\ isFetching' = FALSE
    /\ obsHeroes' = response
    /\ masterHeroes' = obsHeroes'
    /\ SaveHeroes(obsHeroes')
    /\ history' = [history EXCEPT !.shownBy = "response"]
    /\ UNCHANGED << obsActiveFilters, error >>

(* fetchHeroes' error handler.                                             *)
HandleError(outcome) ==
    /\ isFetching' = FALSE
    /\ error' = outcome
    /\ UNCHANGED << obsHeroes, masterHeroes, obsActiveFilters, history, realmVars >>

RunBlockUnlessModal ==
    /\ MainThreadIdle
    /\ modal = "none"
    /\ TakeBlock
    /\ LET block == Head(mainQueue)
       IN  IF block.outcome = "success"
           THEN HandleResponse(Catalogues[version[block.request]])
           ELSE HandleError(block.outcome)
    /\ UNCHANGED << running, connected, modal, offered >>

RunBlock ==
    /\ MainThreadIdle
    /\ TakeBlock
    /\ LET block == Head(mainQueue)
       IN  IF block.outcome = "success"
           THEN HandleResponse(Catalogues[version[block.request]])
           ELSE HandleError(block.outcome)
    /\ UNCHANGED << running, connected, modal, offered >>

SaveStep ==
    /\ running
    /\ WriteRow \/ SaveFails
    /\ UNCHANGED << listVars, serviceVars >>

(* The process is killed, at any point of any of the above.                *)
Kill ==
    /\ running
    /\ running' = FALSE
    /\ ServiceKilled
    /\ RealmKilled
    /\ FreshInteractor
    /\ obsHeroes' = << >>
    /\ modal' = "none"
    /\ offered' = << >>
    /\ history' = [shownBy |-> "none", openedOn |-> << >>]
    /\ UNCHANGED connected

ConnectivityChanges ==
    /\ connected' = ~connected
    /\ UNCHANGED << running, modal, offered, history, interactorVars, serviceVars, realmVars >>

(* What happens off the main thread, at any time.                          *)
Background ==
    /\ \/ Publish
       \/ \E r \in Requests : ServerReads(r) \/ TaskCompletes(r)
    /\ UNCHANGED << listVars, realmVars >>

Next ==
    \/ Launch \/ RefreshButtonTapped \/ TryAgainTapped \/ CloseAlertTapped
    \/ FilterButtonTapped \/ FilterSaved \/ FilterClosed
    \/ RunBlock \/ SaveStep \/ Kill \/ ConnectivityChanges \/ Background

Spec == Init /\ [][Next]_vars

(* The main run loop keeps turning, so a queued block runs and a save goes *)
(* on; URLSession completes every task, if only by timing out.             *)
CompleteTask(r) == TaskCompletes(r) /\ UNCHANGED << listVars, realmVars >>

Fairness ==
    /\ WF_vars(RunBlock)
    /\ WF_vars(SaveStep)
    /\ \A r \in Requests : WF_vars(CompleteTask(r))

FairSpec == Spec /\ Fairness
----------------------------------------------------------------------------
TypeOK ==
    /\ ServiceTypeOK
    /\ store \in Seq(Heroes) /\ saving \in Seq(Heroes) /\ dropped \in Seq(Heroes)
    /\ running \in BOOLEAN /\ connected \in BOOLEAN /\ isFetching \in BOOLEAN
    /\ obsHeroes \in Seq(Heroes)
    /\ masterHeroes \in Seq(Heroes)
    /\ obsActiveFilters \in Seq(RoleFilter)
    /\ error \in HeroErrors \cup {"none"}
    /\ modal \in Modals
    /\ offered \in Seq(RoleFilter)
    /\ history \in [shownBy : Fillers, openedOn : Seq(Heroes)]

(* Whatever the user can see or filter has been written to Realm, is being *)
(* written, or was given up on by a save that failed: no interleaving of   *)
(* reloads, responses, filters and kills shows a hero that was never       *)
(* handed to saveHeroes.                                                   *)
HeroesKept ==
    ToSet(obsHeroes) \cup ToSet(masterHeroes)
        \subseteq ToSet(store) \cup ToSet(saving) \cup ToSet(dropped)

(* While the grid was last filled by a filter it is the selection of the   *)
(* active filters over the last response, however many filters and         *)
(* responses came before.                                                  *)
ShownMatchesFilter ==
    history.shownBy = "filter" =>
        /\ obsActiveFilters # << >>
        /\ obsHeroes = FilterResult(masterHeroes, obsActiveFilters)

(* The blocks the main thread has run in this process.                     *)
Ran == SubSeq(posted, 1, Len(posted) - Len(mainQueue))

(* The interactor stands where the answers it was given put it: the heroes *)
(* filters work on are those of the last success, the error is that of the *)
(* last failure, and nothing else moves either of them.                    *)
ReflectsAnswersRun ==
    LET ok == {i \in DOMAIN Ran : Ran[i].outcome = "success"}
        bad == DOMAIN Ran \ ok
    IN  /\ masterHeroes = IF ok = {} THEN << >> ELSE Catalogues[version[Ran[Max(ok)].request]]
        /\ error = IF bad = {} THEN "none" ELSE Ran[Max(bad)].outcome

Copies(s, h) == Cardinality({i \in DOMAIN s : s[i] = h})

(* How often the delivered responses held the hero.                        *)
Delivered(h) ==
    LET places(r) == {i \in DOMAIN Catalogues[version[r]] : Catalogues[version[r]][i] = h}
    IN  Cardinality(UNION {{r} \X places(r) : r \in {q \in Requests : request[q] = "delivered"}})

(* RLMHero has no primary key, so each response delivered appends rows;    *)
(* still the store never holds more copies of a hero than the delivered    *)
(* responses held, through failed and interrupted saves.                   *)
RowsBoundedByResponses == \A h \in ToSet(store) : Copies(store, h) <= Delivered(h)

(* No step, a kill included, loses or reorders a row once written.         *)
RowsNeverLost == [][IsPrefix(store, store')]_vars

(* Heroes disappear from the grid altogether only through an empty         *)
(* response or a saved filter, and through a filter only when there is no  *)
(* response to filter, or another one came in while the filter screen was  *)
(* open.                                                                   *)
GridBlanksOnlyByFilter ==
    [][running' /\ obsHeroes # << >> /\ obsHeroes' = << >> =>
          \/ history'.shownBy = "response" /\ masterHeroes' = << >>
          \/ FilterSaved /\ (masterHeroes = << >> \/ history.openedOn # masterHeroes)]_vars

(* A filter screen opened after a save shows what was saved: handing its   *)
(* flags back untouched gives the active filters again, as long as the     *)
(* roles they name are still offered.                                      *)
ReopenedFilterShowsActive ==
    /\ modal = "filter"
    /\ obsActiveFilters # << >>
    /\ ToSet(Names(obsActiveFilters)) \subseteq ToSet(Names(offered))
    => SelectedFilters(offered) = obsActiveFilters
============================================================================
