---------------------------- MODULE RealmHelper ----------------------------
(***************************************************************************)
(* RealmHelper: the rows of RLMHero kept on the device.  saveHeroes runs   *)
(* on the main thread and writes one transaction per hero, so the process  *)
(* may die, or Realm may throw, between any two rows; an error leaves the  *)
(* rest unwritten and is swallowed.  RLMHero has no primary key: a row is  *)
(* only ever added.  A row keeps every field of its hero, and reading it   *)
(* back gives that hero again, so rows are represented by heroes.          *)
(***************************************************************************)
EXTENDS Naturals, Sequences

VARIABLES
    store,    \* the rows, in the order they were added; survives the process
    saving,   \* heroes the running saveHeroes has still to write
    dropped   \* history: heroes the last saveHeroes gave up on

realmVars == << store, saving, dropped >>

RealmInit ==
    /\ store = << >>
    /\ saving = << >>
    /\ dropped = << >>

(* What getHeroes can return: every row, or nothing if Realm throws.       *)
GetHeroes == {store, << >>}

SaveHeroes(heroes) ==
    /\ saving' = heroes
    /\ dropped' = << >>
    /\ UNCHANGED store

(* WriteRow with a plausible bug, used by no specification.                *)
WriteRowAgain ==
    /\ saving # << >>
    /\ store' = Append(store, Head(saving))
    /\ saving' \in {saving, Tail(saving)}
    /\ UNCHANGED dropped

WriteRow ==
    /\ saving # << >>
    /\ store' = Append(store, Head(saving))
    /\ saving' = Tail(saving)
    /\ UNCHANGED dropped

(* Realm cannot be opened, or a write throws.                              *)
SaveFails ==
    /\ saving # << >>
    /\ dropped' = saving
    /\ saving' = << >>
    /\ UNCHANGED store

RealmKilled ==
    /\ saving' = << >>
    /\ dropped' = << >>
    /\ UNCHANGED store
============================================================================
