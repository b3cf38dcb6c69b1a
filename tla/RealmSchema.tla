----------------------------- MODULE RealmSchema -----------------------------
(***************************************************************************)
(* RealmSchema: opening a Realm.  The first Realm of a process brings the  *)
(* tables of the file to the classes of the program, in a write            *)
(* transaction if they differ; the next ones take its schema over.  Open   *)
(* Realms follow the changes that other processes make to the tables.  The *)
(* coordinator of a process caches the schema of the file and the          *)
(* snapshots it holds for.                                                 *)
(*                                                                         *)
(* A schema is a set of fields, a field a pair of a table and a column; a  *)
(* table without columns does not exist, and a column whose type changes   *)
(* becomes another column.  The schema mode is Automatic.                  *)
(***************************************************************************)
EXTENDS SharedGroup, FiniteSets

CONSTANTS
    Process,  \* the process of each Realm
    Fields,   \* << table, column >> pairs
    Targets   \* the configurations: schema version and classes of a program

NotVersioned == 0   \* ObjectStore::NotVersioned
Schemas == SUBSET Fields
TablesOf(schema) == {f[1] : f \in schema}

ASSUME SchemaAssumption ==
    /\ Targets \subseteq [version : Nat \ {NotVersioned}, schema : Schemas \ {{}}]
    /\ Targets # {}
    /\ Contents = [version : {t.version : t \in Targets} \cup {NotVersioned},
                   schema : Schemas]

VARIABLES
    cache,    \* per process, m_cached_schema and what belongs to it
    opening,  \* per process, the Realm that holds initLock
    realm     \* per accessor, its Realm

schemaVars == << cache, opening, realm >>
vars == << groupVars, schemaVars >>

Processes == {Process[a] : a \in Accessors}

(* min and max are the snapshots the cached schema holds for; max stays    *)
(* when the cache is emptied.                                              *)
Cache == [present : BOOLEAN, schema : Schemas, version : Nat,
          min : 0 .. MaxVersion, max : 0 .. MaxVersion]

(* target is what the program asks for, columns the schema its column      *)
(* indices come from, version m_schema_version, read                       *)
(* m_schema_transaction_version, news whether there is an m_new_schema,    *)
(* then what follows cache_new_schema.                                     *)
Phases == {"closed", "reading", "read", "constructed", "begun", "full", "promoted",
           "applying", "clear", "open", "moved"}

Realm == [pc : Phases, then : {"applying", "clear", "opened", "open"},
          dynamic : BOOLEAN, target : Targets, columns : Schemas, version : Nat,
          read : 0 .. MaxVersion, news : BOOLEAN]

Closed == [pc |-> "closed", then |-> "open", dynamic |-> TRUE,
           target |-> CHOOSE t \in Targets : TRUE, columns |-> {},
           version |-> NotVersioned, read |-> 0, news |-> FALSE]

NoCache == [present |-> FALSE, schema |-> {}, version |-> NotVersioned,
            min |-> 0, max |-> 0]

Init ==
    /\ GroupInit({}, [version |-> NotVersioned, schema |-> {}])
    /\ cache = [p \in Processes |-> NoCache]
    /\ opening = [p \in Processes |-> NoOne]
    /\ realm = [a \in Accessors |-> Closed]

-----------------------------------------------------------------------------
(* Schema::compare and the visitors of object_store.cpp.                   *)

Missing(schema, target) == target \ schema
Extra(schema, target) == {f \in schema \ target : f[1] \in TablesOf(target)}
NeedsMigration(schema, target) ==
    \/ Extra(schema, target) # {}
    \/ \E f \in Missing(schema, target) : f[1] \in TablesOf(schema)

NothingToDo(version, schema, target) ==
    /\ version = target.version
    /\ Missing(schema, target.schema) = {} /\ Extra(schema, target.schema) = {}

InvalidVersion(version, target) ==
    version # NotVersioned /\ target.version < version

(* apply_schema_changes, of a file whose version is taken for version.     *)
Applied(schema, target) ==
    [version |-> target.version,
     schema |-> (schema \cup target.schema) \ Extra(schema, target.schema)]

(* On the way from one snapshot to another, is there one with other tables *)
(* (the schema change handler of Group), and is none without a field of an *)
(* earlier one (the validator of transaction logs)?                        *)
TablesChanged(from, to) ==
    \E v \in from .. to : snapshots[v].schema # snapshots[from].schema
ValidAdvance(from, to) ==
    \A u, v \in from .. to : u <= v => snapshots[u].schema \subseteq snapshots[v].schema

-----------------------------------------------------------------------------
(* The schema cache, each operation under its mutex.                       *)

CacheSchema(p, schema, version, at) ==
    cache' = IF at < cache[p].max \/ schema = {} \/ version = NotVersioned THEN cache
             ELSE [cache EXCEPT ![p] = [present |-> TRUE, schema |-> schema,
                                        version |-> version, min |-> at, max |-> at]]

Least(i, j) == IF i < j THEN i ELSE j
Greatest(i, j) == IF i < j THEN j ELSE i

(* With a plausible bug: an off-by-one.                                    *)
AdvanceSchemaCacheTooFar(p, previous, next) ==
    LET known == cache[p] IN
    cache' = IF ~known.present \/ next < known.min THEN cache
             ELSE [cache EXCEPT ![p] =
                      [present |-> TRUE, schema |-> known.schema,
                       version |-> known.version,
                       min |-> Least(previous, known.min),
                       max |-> Greatest(next + 1, known.max)]]

(* With a plausible bug: no regard to where the cached schema begins.      *)
AdvanceSchemaCacheFromAnywhere(p, previous, next) ==
    LET known == cache[p] IN
    cache' = IF ~known.present THEN cache
             ELSE [cache EXCEPT ![p] =
                      [present |-> TRUE, schema |-> known.schema,
                       version |-> known.version,
                       min |-> Least(previous, known.min),
                       max |-> Greatest(next, known.max)]]

AdvanceSchemaCache(p, previous, next) ==
    LET known == cache[p] IN
    cache' = IF ~known.present \/ next < known.min THEN cache
             ELSE [cache EXCEPT ![p] =
                      [present |-> TRUE, schema |-> known.schema,
                       version |-> known.version,
                       min |-> Least(previous, known.min),
                       max |-> Greatest(next, known.max)]]

(* The assertion of advance_schema_cache, which ends the process.          *)
AssertionHolds(r) ==
    ~realm[r].news /\ cache[Process[r]].present
        => realm[r].read <= cache[Process[r]].max

(* cache_new_schema, after the Realm has come to another snapshot.         *)
CacheNewSchema(r) ==
    /\ realm[r].pc = "moved"
    /\ AssertionHolds(r)
    /\ IF realm[r].news
       THEN CacheSchema(Process[r], realm[r].columns, realm[r].version, bound[r])
       ELSE AdvanceSchemaCache(Process[r], realm[r].read, bound[r])
    /\ IF realm[r].then = "opened"
       THEN /\ EndRead(r)
            /\ opening' = [opening EXCEPT ![Process[r]] = NoOne]
       ELSE UNCHANGED << groupVars, opening >>
    /\ realm' = [realm EXCEPT ![r] =
           [realm[r] EXCEPT !.pc = IF realm[r].then = "opened" THEN "open"
                                                              ELSE realm[r].then,
                            !.then = "open", !.read = bound[r], !.news = FALSE]]

(* With a plausible bug: the columns are not looked up again.              *)
MovedWithOldColumns(r, to, next) ==
    IF TablesChanged(bound[r], to)
    THEN [realm[r] EXCEPT !.pc = "moved", !.then = next, !.news = TRUE,
                          !.version = snapshots[to].version]
    ELSE [realm[r] EXCEPT !.pc = "moved", !.then = next]

(* What the schema change handler leaves in the Realm that has moved on.   *)
Moved(r, to, next) ==
    IF TablesChanged(bound[r], to)
    THEN [realm[r] EXCEPT !.pc = "moved", !.then = next, !.news = TRUE,
                          !.columns = snapshots[to].schema,
                          !.version = snapshots[to].version]
    ELSE [realm[r] EXCEPT !.pc = "moved", !.then = next]

-----------------------------------------------------------------------------
(* Opening: realmWithConfiguration, under initLock.                        *)

(* The constructor, with what the coordinator has cached.                  *)
Construct(r, target) ==
    LET known == cache[Process[r]] IN
    /\ realm[r].pc = "closed"
    /\ opening[Process[r]] = NoOne
    /\ opening' = [opening EXCEPT ![Process[r]] = r]
    /\ IF known.present
       THEN realm' = [realm EXCEPT ![r] =
                [Closed EXCEPT !.pc = "constructed", !.target = target,
                               !.columns = known.schema, !.version = known.version,
                               !.read = known.max]]
       ELSE realm' = [realm EXCEPT ![r] = [Closed EXCEPT !.pc = "reading",
                                                         !.target = target]]
    /\ UNCHANGED << groupVars, cache >>

(* The constructor, without: read_group, cache_schema, end_read.           *)
ReadFirst(r) ==
    /\ realm[r].pc = "reading"
    /\ BeginRead(r)
    /\ realm' = [realm EXCEPT ![r] =
           [realm[r] EXCEPT !.pc = "read", !.read = latest,
                            !.columns = snapshots[latest].schema,
                            !.version = snapshots[latest].version]]
    /\ UNCHANGED << cache, opening >>

CacheFirst(r) ==
    /\ realm[r].pc = "read"
    /\ CacheSchema(Process[r], realm[r].columns, realm[r].version, realm[r].read)
    /\ EndRead(r)
    /\ realm' = [realm EXCEPT ![r] = [realm[r] EXCEPT !.pc = "constructed"]]
    /\ UNCHANGED opening

(* The open Realms of the process, which RLMCacheRealm has noted.          *)
Siblings(r) == {s \in Accessors \ {r} : Process[s] = Process[r] /\ ~realm[s].dynamic}

(* set_schema_subset, with the schema of another Realm of the process.     *)
TakeSchema(r, sibling) ==
    /\ realm[r].pc = "constructed"
    /\ sibling \in Siblings(r)
    /\ ~NeedsMigration(realm[r].columns, realm[sibling].target.schema)
    /\ realm' = [realm EXCEPT ![r] =
           [realm[r] EXCEPT !.pc = "open", !.dynamic = FALSE,
                            !.target = realm[sibling].target]]
    /\ opening' = [opening EXCEPT ![Process[r]] = NoOne]
    /\ UNCHANGED << groupVars, cache >>

(* update_schema, get_full_schema: a Realm without a read transaction.     *)
UpdateSchema(r) ==
    /\ realm[r].pc = "constructed"
    /\ Siblings(r) = {}
    /\ BeginRead(r)
    /\ realm' = [realm EXCEPT ![r] = [realm[r] EXCEPT !.pc = "begun"]]
    /\ UNCHANGED << cache, opening >>

(* read_schema_from_group_if_needed, at the end of begin_read.             *)
ReadSchema(r) ==
    LET found == snapshots[bound[r]]
        next == IF realm[r].dynamic THEN "full" ELSE "open"
    IN  /\ realm[r].pc = "begun"
        /\ IF realm[r].read = bound[r]
           THEN /\ realm' = [realm EXCEPT ![r] = [realm[r] EXCEPT !.pc = next]]
                /\ UNCHANGED << cache, opening >>
           ELSE /\ CacheSchema(Process[r], found.schema, found.version, bound[r])
                /\ realm[r].dynamic \/ Extra(realm[r].target.schema, found.schema) = {}
                /\ realm' = [realm EXCEPT ![r] =
                       [realm[r] EXCEPT !.pc = next, !.read = bound[r],
                                        !.columns = found.schema,
                                        !.version = found.version]]
                /\ UNCHANGED opening
        /\ UNCHANGED groupVars

Needless(r) == NothingToDo(realm[r].version, realm[r].columns, realm[r].target)

(* Nothing to do: set_schema, and the read transaction ends.               *)
OpenAsIs(r) ==
    /\ realm[r].pc = "full"
    /\ Needless(r)
    /\ EndRead(r)
    /\ realm' = [realm EXCEPT ![r] =
           [realm[r] EXCEPT !.pc = "open", !.dynamic = FALSE]]
    /\ opening' = [opening EXCEPT ![Process[r]] = NoOne]
    /\ UNCHANGED cache

(* With a plausible bug: what others did before the lock was free is not   *)
(* looked at.                                                              *)
PromoteBlindly(r) ==
    /\ realm[r].pc = "full"
    /\ ~Needless(r) /\ ~InvalidVersion(realm[r].version, realm[r].target)
    /\ PromoteToWrite(r)
    /\ realm' = [realm EXCEPT ![r] = Moved(r, latest, "applying")]
    /\ UNCHANGED << cache, opening >>

(* begin_without_validation                                                *)
Promote(r) ==
    /\ realm[r].pc = "full"
    /\ ~Needless(r) /\ ~InvalidVersion(realm[r].version, realm[r].target)
    /\ PromoteToWrite(r)
    /\ LET moved == Moved(r, latest, "applying")
       IN realm' = [realm EXCEPT ![r] = [moved EXCEPT !.pc = IF moved.news THEN "promoted"
                                                                          ELSE "moved"]]
    /\ UNCHANGED << cache, opening >>

(* With a plausible bug: the version is not compared again.                *)
LookAgainAtTables(r) ==
    /\ realm[r].pc = "promoted"
    /\ IF Needless(r)
       THEN /\ RollbackAndContinueAsRead(r)
            /\ realm' = [realm EXCEPT ![r] =
                   [realm[r] EXCEPT !.pc = "moved", !.then = "opened",
                                    !.dynamic = FALSE]]
       ELSE /\ realm' = [realm EXCEPT ![r] = [realm[r] EXCEPT !.pc = "moved"]]
            /\ UNCHANGED groupVars
    /\ UNCHANGED << cache, opening >>

(* The tables have changed on the way: look again.                         *)
LookAgain(r) ==
    /\ realm[r].pc = "promoted"
    /\ ~InvalidVersion(realm[r].version, realm[r].target)
    /\ IF Needless(r)
       THEN /\ RollbackAndContinueAsRead(r)
            /\ realm' = [realm EXCEPT ![r] =
                   [realm[r] EXCEPT !.pc = "moved", !.then = "opened",
                                    !.dynamic = FALSE]]
       ELSE /\ realm' = [realm EXCEPT ![r] = [realm[r] EXCEPT !.pc = "moved"]]
            /\ UNCHANGED groupVars
    /\ UNCHANGED << cache, opening >>

CanApply(r) ==
    realm[r].version = realm[r].target.version =>
        ~NeedsMigration(realm[r].columns, realm[r].target.schema)

Apply(r) ==
    LET after == Applied(realm[r].columns, realm[r].target) IN
    /\ realm[r].pc = "applying"
    /\ CanApply(r)
    /\ CommitAndContinueAsRead(r, after)
    /\ realm' = [realm EXCEPT ![r] =
           [realm[r] EXCEPT !.pc = "moved", !.then = "clear"]]
    /\ UNCHANGED << cache, opening >>

(* clear_schema_cache_and_set_schema_version, and the open Realm.          *)
Clear(r) ==
    LET found == snapshots[bound[r]] IN
    /\ realm[r].pc = "clear"
    /\ cache' = [cache EXCEPT ![Process[r]] =
           [cache[Process[r]] EXCEPT !.present = FALSE,
                                     !.version = realm[r].target.version]]
    /\ realm' = [realm EXCEPT ![r] =
           [realm[r] EXCEPT !.pc = "open", !.dynamic = FALSE,
                            !.columns = found.schema,
                            !.version = found.version]]
    /\ opening' = [opening EXCEPT ![Process[r]] = NoOne]
    /\ EndRead(r)

(* With a plausible bug: the write lock is freed, the transaction not ended. *)
DestroyUnended(p, gone) ==
    /\ writer' = IF writer \in gone THEN NoOne ELSE writer
    /\ realm' = [a \in Accessors |-> IF a \in gone THEN Closed ELSE realm[a]]
    /\ opening' = [opening EXCEPT ![p] = IF @ \in gone THEN NoOne ELSE @]
    /\ cache' = IF \E a \in Accessors \ gone : Process[a] = p /\ realm[a].pc # "closed"
                THEN cache ELSE [cache EXCEPT ![p] = NoCache]
    /\ UNCHANGED << snapshots, stage, bound >>

(* The Realms of gone are destroyed: their SharedGroups give up what they  *)
(* hold, the next Realm has a new one, and the coordinator goes with its   *)
(* last Realm.                                                             *)
Destroy(p, gone) ==
    /\ stage' = [a \in Accessors |-> IF a \in gone THEN "Ready" ELSE stage[a]]
    /\ writer' = IF writer \in gone THEN NoOne ELSE writer
    /\ realm' = [a \in Accessors |-> IF a \in gone THEN Closed ELSE realm[a]]
    /\ opening' = [opening EXCEPT ![p] = IF @ \in gone THEN NoOne ELSE @]
    /\ cache' = IF \E a \in Accessors \ gone : Process[a] = p /\ realm[a].pc # "closed"
                THEN cache ELSE [cache EXCEPT ![p] = NoCache]
    /\ bound' = [a \in Accessors |-> IF a \in gone THEN 1 ELSE bound[a]]
    /\ UNCHANGED snapshots

(* update_schema throws: the file is of a newer version, or the classes do *)
(* not fit the tables and the version is the same, or the migration block  *)
(* throws.                                                                 *)
OpenFails(r) ==
    /\ \/ realm[r].pc \in {"full", "promoted"} /\ InvalidVersion(realm[r].version, realm[r].target)
       \/ realm[r].pc = "applying"
    /\ Destroy(Process[r], {r})

(* The end of a process, at any time.                                      *)
Dies(p) ==
    /\ \E a \in Accessors : Process[a] = p /\ realm[a].pc # "closed"
    /\ Destroy(p, {a \in Accessors : Process[a] = p})

(* set_schema_subset and verify_valid_external_changes throw, exceptions   *)
(* that a Swift program cannot catch, or an assertion fails.               *)
Uncaught(r) ==
    /\ \/ /\ realm[r].pc = "constructed"
          /\ \E s \in Siblings(r) :
                NeedsMigration(realm[r].columns, realm[s].target.schema)
       \/ /\ realm[r].pc = "begun" /\ ~realm[r].dynamic
          /\ realm[r].read # bound[r]
          /\ Extra(realm[r].target.schema, snapshots[bound[r]].schema) # {}
       \/ realm[r].pc = "moved" /\ ~AssertionHolds(r)
    /\ Dies(Process[r])

-----------------------------------------------------------------------------
(* An open Realm.                                                          *)

ReadGroup(r) ==
    /\ realm[r].pc = "open"
    /\ BeginRead(r)
    /\ realm' = [realm EXCEPT ![r] = [realm[r] EXCEPT !.pc = "begun"]]
    /\ UNCHANGED << cache, opening >>

(* A change that is not valid makes this one and Advance throw instead,    *)
(* without an effect.                                                      *)
BeginTransaction(r) ==
    /\ realm[r].pc = "open"
    /\ ValidAdvance(bound[r], latest)
    /\ PromoteToWrite(r)
    /\ realm' = [realm EXCEPT ![r] = Moved(r, latest, "open")]
    /\ UNCHANGED << cache, opening >>

CommitTransaction(r) ==
    /\ realm[r].pc = "open"
    /\ CommitAndContinueAsRead(r, snapshots[latest])
    /\ realm' = [realm EXCEPT ![r] = [realm[r] EXCEPT !.pc = "moved"]]
    /\ UNCHANGED << cache, opening >>

CancelTransaction(r) ==
    /\ realm[r].pc = "open"
    /\ RollbackAndContinueAsRead(r)
    /\ UNCHANGED schemaVars

(* With a plausible bug: removed columns go unnoticed.                     *)
AdvanceUnvalidated(r, version) ==
    /\ realm[r].pc = "open"
    /\ bound[r] < version /\ version <= latest
    /\ AdvanceRead(r, version)
    /\ realm' = [realm EXCEPT ![r] = Moved(r, version, "open")]
    /\ UNCHANGED << cache, opening >>

(* refresh and notify go to the latest or to the version of the package.   *)
Advance(r, version) ==
    /\ realm[r].pc = "open"
    /\ bound[r] < version /\ version <= latest
    /\ ValidAdvance(bound[r], version)
    /\ AdvanceRead(r, version)
    /\ realm' = [realm EXCEPT ![r] = Moved(r, version, "open")]
    /\ UNCHANGED << cache, opening >>

Invalidate(r) ==
    /\ realm[r].pc = "open"
    /\ EndRead(r)
    /\ UNCHANGED schemaVars

Close(r) ==
    /\ realm[r].pc = "open"
    /\ Destroy(Process[r], {r})

-----------------------------------------------------------------------------
RealmStep(r) ==
    \/ ReadFirst(r) \/ CacheFirst(r)
    \/ (\E s \in Accessors : TakeSchema(r, s)) \/ UpdateSchema(r)
    \/ ReadSchema(r) \/ OpenAsIs(r) \/ Promote(r) \/ LookAgain(r)
    \/ Apply(r) \/ CacheNewSchema(r) \/ Clear(r) \/ OpenFails(r) \/ Uncaught(r)

Next ==
    \/ \E r \in Accessors :
        \/ \E t \in Targets : Construct(r, t)
        \/ RealmStep(r)
        \/ ReadGroup(r) \/ BeginTransaction(r) \/ CommitTransaction(r)
        \/ CancelTransaction(r) \/ (\E v \in Versions : Advance(r, v))
        \/ Invalidate(r) \/ Close(r)
    \/ \E p \in Processes : Dies(p)

Spec == Init /\ [][Next]_vars

-----------------------------------------------------------------------------
TypeOK ==
    /\ GroupTypeOK
    /\ cache \in [Processes -> Cache]
    /\ opening \in [Processes -> Accessors \cup {NoOne}]
    /\ realm \in [Accessors -> Realm]

(* After update_schema has committed, and until it has emptied the cache.  *)
Unsettled(p) == opening[p] # NoOne /\ realm[opening[p]].pc = "clear"

(* What the coordinator offers while initLock lets another Realm of the    *)
(* process use it: the cached schema is that of every snapshot the cache   *)
(* claims to hold for, "report that it is still valid" in the words of     *)
(* realm_coordinator.hpp, whatever the other Realms of the process, each   *)
(* at a snapshot of its own, report in whatever order.  A version raised   *)
(* without a change to the tables is reported by nobody: the cached        *)
(* version is that of some of these snapshots, of all if they have one.    *)
CacheRight ==
    \A p \in Processes :
        cache[p].present /\ ~Unsettled(p) =>
            LET held == cache[p].min .. cache[p].max
            IN  /\ \A v \in held : snapshots[v].schema = cache[p].schema
                /\ \E v \in held : snapshots[v].version = cache[p].version

(* REALM_ASSERT(previous <= m_schema_transaction_version_max): nobody has  *)
(* come to a snapshot from one that the cache has not come to.             *)
ReportsKnown == \A r \in Accessors : realm[r].pc = "moved" => AssertionHolds(r)

(* A snapshot that has had the tables of at since an earlier one with this *)
(* version; they may differ in the version.                                *)
VersionSeen(version, at) ==
    \E v \in 1 .. at : snapshots[v].version = version /\ ~TablesChanged(v, at)

(* What a Realm in a transaction takes for the tables of the file, to find *)
(* its columns or to work out a migration, are the tables of its snapshot, *)
(* wherever it has them from: the file, the cache, another Realm, the      *)
(* change handler.  The version before a migration is as old as these      *)
(* tables at most: only versions raised without them may be missed.        *)
Settled(r) ==
    \/ realm[r].pc \in {"full", "applying", "open"}
    \/ realm[r].pc = "moved" /\ realm[r].then # "clear"

ColumnsCurrent ==
    \A r \in Accessors :
        Settled(r) /\ stage[r] # "Ready" =>
            /\ realm[r].columns = snapshots[bound[r]].schema
            /\ realm[r].dynamic => VersionSeen(realm[r].version, bound[r])

(* A program that reads or writes finds every table and column of its      *)
(* classes, although other processes change them under it, and although    *)
(* the second Realm of a process takes the schema of the first unseen.     *)
HasItsFields ==
    \A r \in Accessors :
        ~realm[r].dynamic /\ realm[r].pc = "open" /\ stage[r] # "Ready" =>
            realm[r].target.schema \subseteq snapshots[bound[r]].schema

(* No version was raised without the tables since these last changed.      *)
OneVersionOfTables ==
    \A v \in 1 .. latest :
        ~TablesChanged(v, latest) => snapshots[v].version = snapshots[latest].version

(* The schema version of the file does not fall, whoever opens it with     *)
(* which version at the same time, unless one of these versions came       *)
(* without a change to the tables.                                         *)
VersionNeverFalls ==
    [][latest < latest' /\ OneVersionOfTables =>
          snapshots[latest].version <= snapshots'[latest'].version]_vars

Updates(r) == realm[r].pc = "applying" /\ realm'[r].then = "clear"

(* Of several processes that find the same old tables only one migrates    *)
(* them: every schema update that is committed has something to do, again  *)
(* unless a version came without a change to the tables.                   *)
MigratedOnce ==
    [][\A r \in Accessors :
        Updates(r) /\ OneVersionOfTables =>
            ~NothingToDo(snapshots[latest].version, snapshots[latest].schema,
                         realm[r].target)]_vars

(* update_schema: "Beginning the write transaction may have advanced the   *)
(* version and left us with nothing to do if someone else initialized the  *)
(* schema on disk".  What is then committed is still called for by what    *)
(* the file holds: there is something to do and the version is not newer.  *)
UpdateStillNeeded ==
    [][\A r \in Accessors :
        Updates(r) =>
            /\ ~NothingToDo(snapshots[latest].version, snapshots[latest].schema,
                            realm[r].target)
            /\ ~InvalidVersion(snapshots[latest].version, realm[r].target)]_vars
=============================================================================
