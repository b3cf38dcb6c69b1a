------------------------- MODULE RealmSchema_proofs -------------------------
(***************************************************************************)
(* Proofs about RealmSchema.                                               *)
(***************************************************************************)
EXTENDS RealmSchema, TLAPS

GroupInv == GroupTypeOK /\ OneWriter

LEMMA SnapshotIn ==
    ASSUME GroupTypeOK, NEW v \in Versions, v <= latest
    PROVE  snapshots[v] \in Contents
  BY DEF GroupTypeOK, Versions, latest

(* What a commit does to the file.                                         *)
LEMMA Committed ==
    ASSUME GroupTypeOK, NEW r \in Accessors, NEW c \in Contents,
           CommitAndContinueAsRead(r, c)
    PROVE  /\ snapshots' \in Seq(Contents)
           /\ latest' = latest + 1 /\ latest' \in Versions
           /\ snapshots'[latest + 1] = c /\ snapshots'[latest'] = c
           /\ \A v \in 1 .. latest : snapshots'[v] = snapshots[v]
<1>1. snapshots \in Seq(Contents) /\ latest \in 1 .. MaxVersion
  BY DEF GroupTypeOK, Versions
<1>2. snapshots' = Append(snapshots, c) /\ latest < MaxVersion
  BY DEF CommitAndContinueAsRead
<1>3. snapshots' \in Seq(Contents) /\ latest' = latest + 1
  BY <1>1, <1>2 DEF latest
<1>4. snapshots'[latest + 1] = c /\ \A v \in 1 .. latest : snapshots'[v] = snapshots[v]
  BY <1>1, <1>2 DEF latest
<1>5. latest' \in Versions
  BY <1>1, <1>2, <1>3, GroupAssumption DEF Versions
<1> QED
  BY <1>3, <1>4, <1>5

(* The operations of SharedGroup that a Realm uses keep GroupInv.          *)
LEMMA GroupKept ==
    ASSUME GroupInv, NEW r \in Accessors, NEW v \in Versions, v <= latest,
           NEW c \in Contents,
           \/ UNCHANGED groupVars \/ BeginRead(r) \/ EndRead(r) \/ AdvanceRead(r, v)
           \/ PromoteToWrite(r) \/ RollbackAndContinueAsRead(r)
           \/ CommitAndContinueAsRead(r, c)
    PROVE  GroupInv'
<1> USE GroupAssumption DEF GroupInv, GroupTypeOK, OneWriter, Stages
<1>1. latest \in Versions /\ Versions \subseteq Nat
  BY DEF Versions
<1>2. CASE UNCHANGED groupVars \/ EndRead(r) \/ AdvanceRead(r, v)
             \/ RollbackAndContinueAsRead(r)
  BY <1>1, <1>2 DEF groupVars, EndRead, AdvanceRead, RollbackAndContinueAsRead, latest
<1>3. CASE BeginRead(r) \/ PromoteToWrite(r)
  BY <1>1, <1>3 DEF BeginRead, PromoteToWrite, latest
<1>4. CASE CommitAndContinueAsRead(r, c)
  <2>1. snapshots' \in Seq(Contents) /\ latest' = latest + 1 /\ latest' \in Versions
    BY <1>4, Committed
  <2>2. stage' = [stage EXCEPT ![r] = "Reading"] /\ writer' = NoOne
        /\ bound' = [bound EXCEPT ![r] = latest']
    BY <1>4, <2>1 DEF CommitAndContinueAsRead
  <2>3. \A b \in Accessors \ {r} : stage[b] # "Writing"
    BY <1>4 DEF CommitAndContinueAsRead
  <2>4. ASSUME NEW b \in Accessors
        PROVE  bound[b] <= latest'
    <3>1. bound[b] \in Nat /\ bound[b] <= latest /\ latest \in Nat
      BY <1>1
    <3> QED
      BY ONLY <2>1, <3>1
  <2>5. GroupTypeOK'
    BY <2>1, <2>2
  <2>6. OneWriter'
    BY <2>1, <2>2, <2>3, <2>4
  <2> QED
    BY <2>5, <2>6
<1> QED
  BY <1>2, <1>3, <1>4

(* VersionSeen, in file.                                                   *)
Seen(file, version, at) ==
    \E v \in 1 .. at : /\ file[v].version = version
                       /\ \A u \in v .. at : file[u].schema = file[v].schema

LEMMA SeenIsVersionSeen ==
    \A version, at : VersionSeen(version, at) <=> Seen(snapshots, version, at)
  BY DEF VersionSeen, TablesChanged, Seen

LEMMA SeenHere ==
    ASSUME NEW at \in Nat \ {0}, NEW file
    PROVE  Seen(file, file[at].version, at)
<1>1. at \in 1 .. at /\ \A u \in at .. at : u = at
  OBVIOUS
<1> QED
  BY <1>1 DEF Seen

(* It stays seen in a longer file, and at a later snapshot with the tables.*)
LEMMA SeenKept ==
    ASSUME NEW file, NEW longer, NEW at \in Nat, NEW version,
           \A v \in 1 .. at : longer[v] = file[v], Seen(file, version, at)
    PROVE  Seen(longer, version, at)
<1>1. PICK v \in 1 .. at : /\ file[v].version = version
                          /\ \A u \in v .. at : file[u].schema = file[v].schema
  BY DEF Seen
<1>2. \A u \in v .. at : u \in 1 .. at
  BY <1>1
<1> QED
  BY <1>1, <1>2 DEF Seen

LEMMA SeenOn ==
    ASSUME NEW file, NEW at \in Nat, NEW to \in Nat, NEW version, at <= to,
           \A u \in at .. to : file[u].schema = file[at].schema, Seen(file, version, at)
    PROVE  Seen(file, version, to)
<1>1. PICK v \in 1 .. at : /\ file[v].version = version
                          /\ \A u \in v .. at : file[u].schema = file[v].schema
  BY DEF Seen
<1>2. v \in 1 .. to /\ at \in v .. at
  BY <1>1
<1>3. \A u \in v .. to : u \in v .. at \/ u \in at .. to
  BY <1>1
<1>4. \A u \in v .. to : file[u].schema = file[v].schema
  BY <1>1, <1>2, <1>3
<1> QED
  BY <1>1, <1>2, <1>4 DEF Seen

At(r, phases) == realm[r].pc \in phases

Unopened == {"closed", "reading", "read", "constructed", "full", "promoted",
             "applying", "clear"}

Moving(r, to) == realm[r].pc = "moved" /\ realm[r].then \in to

(* Which SharedGroup a Realm has in which phase, whether it is open, and   *)
(* that the opening Realm of a process is the one that holds initLock.     *)
PhaseOK(r) ==
    /\ At(r, {"closed", "reading", "constructed"}) => stage[r] = "Ready"
    /\ At(r, {"read", "begun", "full", "clear"}) => stage[r] = "Reading"
    /\ At(r, {"promoted", "applying"}) => stage[r] = "Writing"
    /\ Moving(r, {"clear", "opened"}) => stage[r] = "Reading"
    /\ Moving(r, {"applying"}) => stage[r] = "Writing"
    /\ Moving(r, {"open"}) => stage[r] # "Ready"
    /\ At(r, Unopened) \/ Moving(r, {"applying", "clear"}) => realm[r].dynamic
    /\ At(r, {"open"}) \/ Moving(r, {"opened", "open"}) => ~realm[r].dynamic
    /\ (realm[r].dynamic /\ ~At(r, {"closed"})) \/ Moving(r, {"opened"})
          => opening[Process[r]] = r

(* The columns of a Realm are those of snapshot v, and its version is one  *)
(* of their time.                                                          *)
Fits(r, v) ==
    /\ v \in 1 .. latest
    /\ realm[r].columns = snapshots[v].schema
    /\ realm[r].dynamic => Seen(snapshots, realm[r].version, v)

Still == Phases \ {"promoted", "moved"}

ColumnsOK(r) ==
    /\ At(r, {"read", "full", "promoted", "applying"}) => Fits(r, bound[r])
    /\ At(r, {"read", "promoted"}) => realm[r].version = snapshots[bound[r]].version
    /\ At(r, {"read", "full", "applying", "clear"}) => realm[r].read = bound[r]
    /\ At(r, {"constructed", "begun", "open"}) => Fits(r, realm[r].read)
    /\ At(r, {"open"}) /\ stage[r] # "Ready" => realm[r].read = bound[r]
    /\ At(r, Still) \/ Moving(r, {"clear"}) => ~realm[r].news
    /\ At(r, {"promoted"}) => realm[r].news /\ realm[r].then = "applying"
    /\ At(r, Still) => realm[r].then = "open"
    /\ At(r, {"applying"}) \/ Moving(r, {"applying"})
          => ~Needless(r) /\ ~InvalidVersion(realm[r].version, realm[r].target)
    /\ At(r, {"moved"}) /\ ~realm[r].news => realm[r].read \in 1 .. bound[r]
    /\ Moving(r, {"applying", "opened", "open"}) =>
          /\ Fits(r, bound[r])
          /\ realm[r].news => realm[r].version = snapshots[bound[r]].version
          /\ ~realm[r].news => \A v \in realm[r].read .. bound[r] :
                                 snapshots[v].schema = realm[r].columns

CacheOK(p) ==
    /\ cache[p].max <= latest
    /\ cache[p].present => cache[p].min \in 1 .. cache[p].max
    /\ cache[p].present /\ (\A r \in Accessors : Process[r] = p => ~At(r, {"clear"}))
          => /\ \A v \in cache[p].min .. cache[p].max : snapshots[v].schema = cache[p].schema
             /\ \E v \in cache[p].min .. cache[p].max :
                   snapshots[v].version = cache[p].version

IInv ==
    /\ TypeOK
    /\ OneWriter
    /\ \A r \in Accessors : PhaseOK(r) /\ ColumnsOK(r)
    /\ \A p \in Processes : CacheOK(p)

-----------------------------------------------------------------------------
(* Types.                                                                  *)
Base == TypeOK /\ OneWriter

LEMMA SnapshotType ==
    ASSUME GroupTypeOK, NEW v \in Versions, v <= latest
    PROVE  /\ snapshots[v] = [version |-> snapshots[v].version,
                              schema |-> snapshots[v].schema]
           /\ snapshots[v].version \in Nat
           /\ snapshots[v].schema \in Schemas
           /\ snapshots[v] \in Contents
<1>1. snapshots[v] \in Contents
  BY SnapshotIn
<1> QED
  BY <1>1, SchemaAssumption DEF NotVersioned

(* The types of what the operations of the cache leave.                    *)
LEMMA CacheTypeStep ==
    ASSUME cache \in [Processes -> Cache], NEW p \in Processes,
           NEW schema \in Schemas, NEW version \in Nat, NEW previous \in 0 .. MaxVersion,
           NEW at \in 0 .. MaxVersion,
           \/ UNCHANGED cache
           \/ CacheSchema(p, schema, version, at)
           \/ AdvanceSchemaCache(p, previous, at)
    PROVE  cache' \in [Processes -> Cache]
<1> USE GroupAssumption DEF Cache
<1>1. CASE UNCHANGED cache
  BY <1>1
<1>2. CASE CacheSchema(p, schema, version, at)
  BY <1>2 DEF CacheSchema
<1>3. CASE AdvanceSchemaCache(p, previous, at)
  BY <1>3 DEF AdvanceSchemaCache, Least, Greatest
<1> QED
  BY <1>1, <1>2, <1>3

LEMMA AppliedType ==
    ASSUME NEW schema \in Schemas, NEW target \in Targets
    PROVE  /\ Applied(schema, target) \in Contents
           /\ Applied(schema, target).version = target.version
           /\ Applied(schema, target).schema \subseteq schema \cup target.schema
           /\ target.schema \subseteq Applied(schema, target).schema
           /\ target \in [version : Nat \ {NotVersioned}, schema : Schemas \ {{}}]
  BY SchemaAssumption DEF Applied, Extra, Schemas

LEMMA BaseInit == Init => Base
<1> SUFFICES ASSUME Init PROVE Base
  OBVIOUS
<1>1. [version |-> NotVersioned, schema |-> {}] \in Contents
  BY SchemaAssumption DEF Schemas
<1>2. GroupInv
  BY <1>1, GroupAssumption
     DEF Init, GroupInit, GroupInv, GroupTypeOK, OneWriter, Stages, Versions, latest
<1>3. NoCache \in Cache
  BY GroupAssumption DEF NoCache, Cache, Schemas, NotVersioned
<1>4. Closed \in Realm
  BY GroupAssumption, SchemaAssumption DEF Closed, Realm, Phases, Schemas, NotVersioned
<1> QED
  BY <1>2, <1>3, <1>4 DEF Init, TypeOK, Base, GroupInv

LEMMA BaseStep == Base /\ [Next]_vars => Base'
<1> SUFFICES ASSUME Base, [Next]_vars PROVE Base'
  OBVIOUS
<1> USE GroupAssumption
<1>a. /\ GroupInv /\ GroupTypeOK
      /\ cache \in [Processes -> Cache]
      /\ opening \in [Processes -> Accessors \cup {NoOne}]
      /\ realm \in [Accessors -> Realm]
      /\ \A r \in Accessors : Process[r] \in Processes
      /\ latest \in Versions /\ latest <= latest /\ Versions \subseteq 0 .. MaxVersion
      /\ \A r \in Accessors : bound[r] \in Versions /\ bound[r] <= latest
      /\ 1 \in Versions
  BY DEF Base, TypeOK, OneWriter, GroupInv, GroupTypeOK, Processes, Versions
<1>b. ASSUME NEW v \in Versions, v <= latest
      PROVE  /\ snapshots[v] \in Contents
             /\ snapshots[v].version \in Nat /\ snapshots[v].schema \in Schemas
  BY <1>a, <1>b, SnapshotType
<1>c. \A r \in Accessors : /\ realm[r].columns \in Schemas /\ realm[r].version \in Nat
                             /\ realm[r].read \in 0 .. MaxVersion /\ realm[r].target \in Targets
                             /\ realm[r].target.version \in Nat
  BY <1>a, SchemaAssumption DEF Realm
<1>d. ASSUME NEW r \in Accessors, NEW v \in Versions, v <= latest,
             NEW next \in {"applying", "open"}
      PROVE  Moved(r, v, next) \in Realm
  BY <1>a, <1>b, <1>d DEF Moved, Realm, Phases
<1>e. Closed \in Realm
  BY SchemaAssumption DEF Closed, Realm, Phases, Schemas, NotVersioned
<1>g. realm \in [Accessors -> Realm]
  BY <1>a
<1>h. ASSUME NEW r \in Accessors
      PROVE  /\ snapshots[bound[r]].version \in Nat /\ snapshots[bound[r]].schema \in Schemas
             /\ bound[r] \in 0 .. MaxVersion
             /\ snapshots[latest].version \in Nat /\ snapshots[latest].schema \in Schemas
             /\ latest \in 0 .. MaxVersion
  BY <1>a, <1>b
<1>f. snapshots[latest] \in Contents
  BY <1>a, <1>b
<1>1. ASSUME NEW r \in Accessors, NEW t \in Targets, Construct(r, t)
      PROVE  Base'
  <2>1. GroupInv'
    BY <1>a, <1>1, <1>f, GroupKept DEF Construct
  <2>2. cache' \in [Processes -> Cache]
    BY <1>a, <1>1 DEF Construct
  <2>3. opening' \in [Processes -> Accessors \cup {NoOne}]
    BY <1>a, <1>1 DEF Construct
  <2>4. realm' \in [Accessors -> Realm]
    <3>1. [Closed EXCEPT !.pc = "reading", !.target = t] \in Realm
      BY <1>g, <1>h, <1>a, <1>e DEF Realm, Phases, Cache
    <3>2. cache[Process[r]].present =>
          [Closed EXCEPT !.pc = "constructed", !.target = t,
                         !.columns = cache[Process[r]].schema,
                         !.version = cache[Process[r]].version,
                         !.read = cache[Process[r]].max] \in Realm
      BY <1>g, <1>h, <1>a, <1>e DEF Realm, Phases, Cache
    <3> QED
      BY <1>g, <1>1, <3>1, <3>2 DEF Construct
  <2> QED
    BY <2>1, <2>2, <2>3, <2>4 DEF Base, TypeOK, GroupInv
<1>2. ASSUME NEW r \in Accessors, ReadFirst(r)
      PROVE  Base'
  <2>1. GroupInv'
    BY <1>a, <1>2, <1>f, GroupKept DEF ReadFirst
  <2>2. cache' \in [Processes -> Cache]
    BY <1>a, <1>2 DEF ReadFirst
  <2>3. opening' \in [Processes -> Accessors \cup {NoOne}]
    BY <1>a, <1>2 DEF ReadFirst
  <2>4. realm' \in [Accessors -> Realm]
    <3>1. [realm[r] EXCEPT !.pc = "read", !.read = latest,
                              !.columns = snapshots[latest].schema,
                              !.version = snapshots[latest].version] \in Realm
      BY <1>g, <1>h DEF Realm, Phases
    <3> QED
      BY <1>g, <1>2, <3>1 DEF ReadFirst
  <2> QED
    BY <2>1, <2>2, <2>3, <2>4 DEF Base, TypeOK, GroupInv
<1>3. ASSUME NEW r \in Accessors, CacheFirst(r)
      PROVE  Base'
  <2>1. GroupInv'
    BY <1>a, <1>3, <1>f, GroupKept DEF CacheFirst
  <2>2. cache' \in [Processes -> Cache]
    BY <1>a, <1>3, <1>c, CacheTypeStep DEF CacheFirst
  <2>3. opening' \in [Processes -> Accessors \cup {NoOne}]
    BY <1>a, <1>3 DEF CacheFirst
  <2>4. realm' \in [Accessors -> Realm]
    BY <1>g, <1>h, <1>3 DEF CacheFirst, Realm, Phases
  <2> QED
    BY <2>1, <2>2, <2>3, <2>4 DEF Base, TypeOK, GroupInv
<1>4. ASSUME NEW r \in Accessors, NEW s \in Accessors, TakeSchema(r, s)
      PROVE  Base'
  <2>1. GroupInv'
    BY <1>a, <1>4, <1>f, GroupKept DEF TakeSchema
  <2>2. cache' \in [Processes -> Cache]
    BY <1>a, <1>4 DEF TakeSchema
  <2>3. opening' \in [Processes -> Accessors \cup {NoOne}]
    BY <1>a, <1>4 DEF TakeSchema
  <2>4. realm' \in [Accessors -> Realm]
    <3>1. [realm[r] EXCEPT !.pc = "open", !.dynamic = FALSE,
                              !.target = realm[s].target] \in Realm
      BY <1>g, <1>h DEF Realm, Phases
    <3> QED
      BY <1>g, <1>4, <3>1 DEF TakeSchema
  <2> QED
    BY <2>1, <2>2, <2>3, <2>4 DEF Base, TypeOK, GroupInv
<1>5. ASSUME NEW r \in Accessors, UpdateSchema(r)
      PROVE  Base'
  <2>1. GroupInv'
    BY <1>a, <1>5, <1>f, GroupKept DEF UpdateSchema
  <2>2. cache' \in [Processes -> Cache]
    BY <1>a, <1>5 DEF UpdateSchema
  <2>3. opening' \in [Processes -> Accessors \cup {NoOne}]
    BY <1>a, <1>5 DEF UpdateSchema
  <2>4. realm' \in [Accessors -> Realm]
    BY <1>g, <1>h, <1>5 DEF UpdateSchema, Realm, Phases
  <2> QED
    BY <2>1, <2>2, <2>3, <2>4 DEF Base, TypeOK, GroupInv
<1>6. ASSUME NEW r \in Accessors, ReadSchema(r)
      PROVE  Base'
  <2>1. GroupInv'
    BY <1>a, <1>6, <1>f, GroupKept DEF ReadSchema
  <2>2. cache' \in [Processes -> Cache]
    BY <1>a, <1>6, <1>b, CacheTypeStep DEF ReadSchema
  <2>3. opening' \in [Processes -> Accessors \cup {NoOne}]
    BY <1>a, <1>6 DEF ReadSchema
  <2>4. realm' \in [Accessors -> Realm]
    <3>1. \A next \in {"full", "open"} : [realm[r] EXCEPT !.pc = next] \in Realm
      BY <1>g, <1>h DEF Realm, Phases
    <3>2. \A next \in {"full", "open"} :
          [realm[r] EXCEPT !.pc = next, !.read = bound[r],
                           !.columns = snapshots[bound[r]].schema,
                           !.version = snapshots[bound[r]].version] \in Realm
      BY <1>g, <1>h DEF Realm, Phases
    <3> QED
      BY <1>g, <1>6, <3>1, <3>2 DEF ReadSchema
  <2> QED
    BY <2>1, <2>2, <2>3, <2>4 DEF Base, TypeOK, GroupInv
<1>7. ASSUME NEW r \in Accessors, OpenAsIs(r)
      PROVE  Base'
  <2>1. GroupInv'
    BY <1>a, <1>7, <1>f, GroupKept DEF OpenAsIs
  <2>2. cache' \in [Processes -> Cache]
    BY <1>a, <1>7 DEF OpenAsIs
  <2>3. opening' \in [Processes -> Accessors \cup {NoOne}]
    BY <1>a, <1>7 DEF OpenAsIs
  <2>4. realm' \in [Accessors -> Realm]
    BY <1>g, <1>h, <1>7 DEF OpenAsIs, Realm, Phases
  <2> QED
    BY <2>1, <2>2, <2>3, <2>4 DEF Base, TypeOK, GroupInv
<1>8. ASSUME NEW r \in Accessors, Promote(r)
      PROVE  Base'
  <2>1. GroupInv'
    BY <1>a, <1>8, <1>f, GroupKept DEF Promote
  <2>2. cache' \in [Processes -> Cache]
    BY <1>a, <1>8 DEF Promote
  <2>3. opening' \in [Processes -> Accessors \cup {NoOne}]
    BY <1>a, <1>8 DEF Promote
  <2>4. realm' \in [Accessors -> Realm]
    BY <1>a, <1>8, <1>d DEF Promote, Realm, Phases
  <2> QED
    BY <2>1, <2>2, <2>3, <2>4 DEF Base, TypeOK, GroupInv
<1>9. ASSUME NEW r \in Accessors, LookAgain(r)
      PROVE  Base'
  <2>1. GroupInv'
    BY <1>a, <1>9, <1>f, GroupKept DEF LookAgain
  <2>2. cache' \in [Processes -> Cache]
    BY <1>a, <1>9 DEF LookAgain
  <2>3. opening' \in [Processes -> Accessors \cup {NoOne}]
    BY <1>a, <1>9 DEF LookAgain
  <2>4. realm' \in [Accessors -> Realm]
    <3>1. [realm[r] EXCEPT !.pc = "moved", !.then = "opened", !.dynamic = FALSE] \in Realm
      BY <1>g, <1>h DEF Realm, Phases
    <3>2. [realm[r] EXCEPT !.pc = "moved"] \in Realm
      BY <1>g, <1>h DEF Realm, Phases
    <3> QED
      BY <1>g, <1>9, <3>1, <3>2 DEF LookAgain
  <2> QED
    BY <2>1, <2>2, <2>3, <2>4 DEF Base, TypeOK, GroupInv
<1>10. ASSUME NEW r \in Accessors, Apply(r)
      PROVE  Base'
  <2>1. GroupInv'
    BY <1>a, <1>10, <1>c, AppliedType, GroupKept DEF Apply
  <2>2. cache' \in [Processes -> Cache]
    BY <1>a, <1>10 DEF Apply
  <2>3. opening' \in [Processes -> Accessors \cup {NoOne}]
    BY <1>a, <1>10 DEF Apply
  <2>4. realm' \in [Accessors -> Realm]
    BY <1>g, <1>h, <1>10 DEF Apply, Realm, Phases
  <2> QED
    BY <2>1, <2>2, <2>3, <2>4 DEF Base, TypeOK, GroupInv
<1>11. ASSUME NEW r \in Accessors, CacheNewSchema(r)
      PROVE  Base'
  <2>1. GroupInv'
    BY <1>a, <1>11, <1>f, GroupKept DEF CacheNewSchema
  <2>2. cache' \in [Processes -> Cache]
    BY <1>a, <1>11, <1>c, CacheTypeStep DEF CacheNewSchema
  <2>3. opening' \in [Processes -> Accessors \cup {NoOne}]
    BY <1>a, <1>11 DEF CacheNewSchema
  <2>4. realm' \in [Accessors -> Realm]
    <3>1. [realm[r] EXCEPT !.pc = IF realm[r].then = "opened" THEN "open"
                                                           ELSE realm[r].then,
                         !.then = "open", !.read = bound[r], !.news = FALSE] \in Realm
      BY <1>g, <1>h DEF Realm, Phases
    <3> QED
      BY <1>g, <1>11, <3>1 DEF CacheNewSchema
  <2> QED
    BY <2>1, <2>2, <2>3, <2>4 DEF Base, TypeOK, GroupInv
<1>12. ASSUME NEW r \in Accessors, Clear(r)
      PROVE  Base'
  <2>1. GroupInv'
    BY <1>a, <1>12, <1>f, GroupKept DEF Clear
  <2>2. cache' \in [Processes -> Cache]
    BY <1>a, <1>12, <1>c DEF Clear, Cache
  <2>3. opening' \in [Processes -> Accessors \cup {NoOne}]
    BY <1>a, <1>12 DEF Clear
  <2>4. realm' \in [Accessors -> Realm]
    <3>1. [realm[r] EXCEPT !.pc = "open", !.dynamic = FALSE,
                              !.columns = snapshots[bound[r]].schema,
                              !.version = snapshots[bound[r]].version] \in Realm
      BY <1>g, <1>h DEF Realm, Phases
    <3> QED
      BY <1>g, <1>12, <3>1 DEF Clear
  <2> QED
    BY <2>1, <2>2, <2>3, <2>4 DEF Base, TypeOK, GroupInv
<1>13. ASSUME NEW r \in Accessors, ReadGroup(r)
      PROVE  Base'
  <2>1. GroupInv'
    BY <1>a, <1>13, <1>f, GroupKept DEF ReadGroup
  <2>2. cache' \in [Processes -> Cache]
    BY <1>a, <1>13 DEF ReadGroup
  <2>3. opening' \in [Processes -> Accessors \cup {NoOne}]
    BY <1>a, <1>13 DEF ReadGroup
  <2>4. realm' \in [Accessors -> Realm]
    BY <1>g, <1>h, <1>13 DEF ReadGroup, Realm, Phases
  <2> QED
    BY <2>1, <2>2, <2>3, <2>4 DEF Base, TypeOK, GroupInv
<1>14. ASSUME NEW r \in Accessors, BeginTransaction(r)
      PROVE  Base'
  <2>1. GroupInv'
    BY <1>a, <1>14, <1>f, GroupKept DEF BeginTransaction
  <2>2. cache' \in [Processes -> Cache]
    BY <1>a, <1>14 DEF BeginTransaction
  <2>3. opening' \in [Processes -> Accessors \cup {NoOne}]
    BY <1>a, <1>14 DEF BeginTransaction
  <2>4. realm' \in [Accessors -> Realm]
    BY <1>a, <1>14, <1>d DEF BeginTransaction
  <2> QED
    BY <2>1, <2>2, <2>3, <2>4 DEF Base, TypeOK, GroupInv
<1>15. ASSUME NEW r \in Accessors, CommitTransaction(r)
      PROVE  Base'
  <2>1. GroupInv'
    BY <1>a, <1>15, <1>f, GroupKept DEF CommitTransaction
  <2>2. cache' \in [Processes -> Cache]
    BY <1>a, <1>15 DEF CommitTransaction
  <2>3. opening' \in [Processes -> Accessors \cup {NoOne}]
    BY <1>a, <1>15 DEF CommitTransaction
  <2>4. realm' \in [Accessors -> Realm]
    BY <1>g, <1>h, <1>15 DEF CommitTransaction, Realm, Phases
  <2> QED
    BY <2>1, <2>2, <2>3, <2>4 DEF Base, TypeOK, GroupInv
<1>16. ASSUME NEW r \in Accessors, CancelTransaction(r)
      PROVE  Base'
  <2>1. GroupInv'
    BY <1>a, <1>16, <1>f, GroupKept DEF CancelTransaction
  <2>2. cache' \in [Processes -> Cache]
    BY <1>a, <1>16 DEF CancelTransaction, schemaVars
  <2>3. opening' \in [Processes -> Accessors \cup {NoOne}]
    BY <1>a, <1>16 DEF CancelTransaction, schemaVars
  <2>4. realm' \in [Accessors -> Realm]
    BY <1>a, <1>16 DEF CancelTransaction, schemaVars
  <2> QED
    BY <2>1, <2>2, <2>3, <2>4 DEF Base, TypeOK, GroupInv
<1>17. ASSUME NEW r \in Accessors, NEW v \in Versions, Advance(r, v)
      PROVE  Base'
  <2>1. GroupInv'
    BY <1>a, <1>17, <1>f, GroupKept DEF Advance
  <2>2. cache' \in [Processes -> Cache]
    BY <1>a, <1>17 DEF Advance
  <2>3. opening' \in [Processes -> Accessors \cup {NoOne}]
    BY <1>a, <1>17 DEF Advance
  <2>4. realm' \in [Accessors -> Realm]
    BY <1>a, <1>17, <1>d DEF Advance
  <2> QED
    BY <2>1, <2>2, <2>3, <2>4 DEF Base, TypeOK, GroupInv
<1>18. ASSUME NEW r \in Accessors, Invalidate(r)
      PROVE  Base'
  <2>1. GroupInv'
    BY <1>a, <1>18, <1>f, GroupKept DEF Invalidate
  <2>2. cache' \in [Processes -> Cache]
    BY <1>a, <1>18 DEF Invalidate, schemaVars
  <2>3. opening' \in [Processes -> Accessors \cup {NoOne}]
    BY <1>a, <1>18 DEF Invalidate, schemaVars
  <2>4. realm' \in [Accessors -> Realm]
    BY <1>a, <1>18 DEF Invalidate, schemaVars
  <2> QED
    BY <2>1, <2>2, <2>3, <2>4 DEF Base, TypeOK, GroupInv
<1>19. ASSUME NEW p \in Processes, NEW gone \in SUBSET Accessors, Destroy(p, gone)
      PROVE  Base'
  <2>1. GroupInv'
    <3>1. GroupTypeOK'
      BY <1>a, <1>19 DEF Destroy, GroupTypeOK, Stages, latest
    <3>2. ASSUME NEW a \in Accessors
          PROVE  /\ bound'[a] <= latest'
                 /\ stage'[a] = "Writing" => writer' = a /\ bound'[a] = latest'
      <4>1. latest' = latest /\ latest \in Nat \ {0}
        BY <1>a, <1>19 DEF Destroy, latest, Versions
      <4>2. CASE a \in gone
        BY <1>19, <4>1, <4>2 DEF Destroy
      <4>3. CASE a \notin gone
        BY <1>a, <1>19, <4>1, <4>3 DEF Destroy, GroupInv, OneWriter
      <4> QED
        BY <4>2, <4>3
    <3> QED
      BY <3>1, <3>2 DEF GroupInv, OneWriter
  <2>2. cache' \in [Processes -> Cache]
    BY <1>a, <1>19 DEF Destroy, NoCache, Cache, Schemas, NotVersioned
  <2>3. opening' \in [Processes -> Accessors \cup {NoOne}]
    BY <1>a, <1>19 DEF Destroy
  <2>4. realm' \in [Accessors -> Realm]
    BY <1>a, <1>19, <1>e DEF Destroy
  <2> QED
    BY <2>1, <2>2, <2>3, <2>4 DEF Base, TypeOK, GroupInv
<1>20. ASSUME NEW p \in Processes, Dies(p)
      PROVE  Base'
  BY <1>20, <1>19 DEF Dies
<1>21. ASSUME NEW r \in Accessors, OpenFails(r) \/ Uncaught(r) \/ Close(r)
      PROVE  Base'
  BY <1>a, <1>21, <1>19, <1>20 DEF OpenFails, Uncaught, Close
<1>22. ASSUME UNCHANGED vars
      PROVE  Base'
  BY <1>22 DEF vars, groupVars, schemaVars, Base, TypeOK, GroupTypeOK, OneWriter, latest
<1> QED
  BY <1>1, <1>2, <1>3, <1>4, <1>5, <1>6, <1>7, <1>8, <1>9, <1>10, <1>11, <1>12, <1>13, <1>14, <1>15, <1>16, <1>17, <1>18, <1>20, <1>21, <1>22 DEF Next, RealmStep

-----------------------------------------------------------------------------
(* What a step leaves alone.                                               *)
LEMMA OtherRealm ==
    ASSUME Base, NEW q \in Accessors, PhaseOK(q), ColumnsOK(q),
           latest' \in Nat, latest <= latest',
           \A v \in 1 .. latest : snapshots'[v] = snapshots[v],
           realm'[q] = realm[q], stage'[q] = stage[q], bound'[q] = bound[q],
           opening[Process[q]] = q => opening'[Process[q]] = q
    PROVE  PhaseOK(q)' /\ ColumnsOK(q)'
<1>1. PhaseOK(q)'
  BY DEF PhaseOK, At, Moving, Unopened
<1>2. /\ latest \in Nat /\ bound[q] \in 1 .. latest
      /\ realm[q].read \in Nat
  BY DEF Base, TypeOK, GroupTypeOK, OneWriter, Versions, Realm
<1>3. ASSUME NEW v \in 1 .. latest, Fits(q, v)
      PROVE  Fits(q, v)'
  <2>1. v \in Nat /\ v \in 1 .. latest' /\ \A u \in 1 .. v : u \in 1 .. latest
    BY <1>2
  <2>2. realm[q].dynamic => Seen(snapshots', realm[q].version, v)
    BY <1>3, <2>1, SeenKept DEF Fits
  <2> QED
    BY <1>3, <2>1, <2>2 DEF Fits
<1>4. ColumnsOK(q)'
  <2>1. At(q, {"constructed", "begun", "open"}) => realm[q].read \in 1 .. latest
    BY DEF ColumnsOK, Fits
  <2>2. At(q, {"read", "full", "promoted", "applying"}) => Fits(q, bound[q])'
    BY <1>2, <1>3 DEF ColumnsOK
  <2>3. At(q, {"constructed", "begun", "open"}) => Fits(q, realm[q].read)'
    BY <2>1, <1>3 DEF ColumnsOK
  <2>5. At(q, {"read", "promoted"}) => realm[q].version = snapshots'[bound[q]].version
    BY <1>2 DEF ColumnsOK
  <2>4. ASSUME Moving(q, {"applying", "opened", "open"})
        PROVE  /\ Fits(q, bound[q])'
               /\ realm[q].news => realm[q].version = snapshots'[bound[q]].version
               /\ ~realm[q].news => \A v \in realm[q].read .. bound[q] :
                                      snapshots'[v].schema = realm[q].columns
    <3>1. realm[q].read .. bound[q] \subseteq 1 .. latest \/ realm[q].news
      BY <1>2, <2>4 DEF ColumnsOK, Moving, At
    <3> QED
      BY <1>2, <1>3, <2>4, <3>1 DEF ColumnsOK
  <2> QED
    BY <2>2, <2>3, <2>4, <2>5 DEF ColumnsOK, At, Moving, Still, Needless
<1> QED
  BY <1>1, <1>4

LEMMA SameCache ==
    ASSUME Base, NEW p \in Processes, CacheOK(p), cache'[p] = cache[p],
           latest' \in Nat, latest <= latest',
           \A v \in 1 .. latest : snapshots'[v] = snapshots[v],
           \A q \in Accessors : Process[q] = p /\ At(q, {"clear"}) => At(q, {"clear"})'
    PROVE  CacheOK(p)'
<1>1. latest \in Nat /\ cache[p].max \in Nat /\ cache[p].min \in Nat
  BY GroupAssumption DEF Base, TypeOK, GroupTypeOK, Versions, Cache
<1>2. cache[p].present => cache[p].min .. cache[p].max \subseteq 1 .. latest
  BY <1>1 DEF CacheOK
<1> QED
  BY <1>1, <1>2 DEF CacheOK

(* The others are left alone by a step of r, and a process where initLock  *)
(* was another's keeps it so.                                              *)
LEMMA OthersLeftAlone ==
    ASSUME IInv, NEW r \in Accessors, latest' \in Nat, latest <= latest',
           \A v \in 1 .. latest : snapshots'[v] = snapshots[v],
           \A q \in Accessors \ {r} : /\ realm'[q] = realm[q]
                                      /\ stage'[q] = stage[q] /\ bound'[q] = bound[q],
           \A p \in Processes : opening'[p] = opening[p] \/ opening[p] \in {NoOne, r},
           PhaseOK(r)', ColumnsOK(r)'
    PROVE  \A q \in Accessors : PhaseOK(q)' /\ ColumnsOK(q)'
<1> SUFFICES ASSUME NEW q \in Accessors, q # r
             PROVE  PhaseOK(q)' /\ ColumnsOK(q)'
  OBVIOUS
<1>1. Process[q] \in Processes /\ q # NoOne
  BY GroupAssumption DEF Processes
<1> QED
  BY <1>1, OtherRealm DEF IInv, Base

(* cache_schema with what is in the file, and advance_schema_cache from a  *)
(* snapshot that the cache has come to, over snapshots with the same       *)
(* tables, keep the cache right.                                           *)
LEMMA CacheSchemaRight ==
    ASSUME Base, NEW p \in Processes, \A q \in Processes : CacheOK(q),
           NEW at \in 1 .. latest, NEW schema, NEW version,
           snapshots[at].version = version, snapshots[at].schema = schema,
           CacheSchema(p, schema, version, at), snapshots' = snapshots,
           \A q \in Accessors : At(q, {"clear"}) => At(q, {"clear"})'
    PROVE  \A q \in Processes : CacheOK(q)'
<1>1. latest \in Nat /\ cache \in [Processes -> Cache] /\ latest' = latest
  BY DEF Base, TypeOK, GroupTypeOK, Versions, latest
<1>2. ASSUME NEW q \in Processes, cache'[q] = cache[q]
      PROVE  CacheOK(q)'
  BY <1>1, <1>2, SameCache
<1>3. CASE cache' = cache
  BY <1>2, <1>3
<1>4. CASE cache' = [cache EXCEPT ![p] = [present |-> TRUE, schema |-> schema,
                                          version |-> version, min |-> at, max |-> at]]
  <2>1. ASSUME NEW v \in at .. at
        PROVE  v = at
    BY <1>1
  <2>2. CacheOK(p)'
    BY <1>1, <1>4, <2>1 DEF CacheOK
  <2> QED
    BY <1>1, <1>2, <1>4, <2>2
<1> QED
  BY <1>3, <1>4 DEF CacheSchema

LEMMA AdvanceSchemaCacheRight ==
    ASSUME Base, NEW p \in Processes, \A q \in Processes : CacheOK(q),
           NEW at \in 1 .. latest, NEW previous \in 1 .. at,
           cache[p].present => previous <= cache[p].max,
           (\A q \in Accessors : Process[q] = p => ~At(q, {"clear"}))' =>
                \A v \in previous .. at : snapshots[v].schema = snapshots[at].schema,
           AdvanceSchemaCache(p, previous, at), snapshots' = snapshots,
           \A q \in Accessors : At(q, {"clear"}) => At(q, {"clear"})'
    PROVE  \A q \in Processes : CacheOK(q)'
<1> DEFINE known == cache[p]
<1>1. latest \in Nat /\ cache \in [Processes -> Cache] /\ latest' = latest
  BY DEF Base, TypeOK, GroupTypeOK, Versions, latest
<1>2. ASSUME NEW q \in Processes, cache'[q] = cache[q]
      PROVE  CacheOK(q)'
  BY <1>1, <1>2, SameCache
<1>3. CASE cache' = cache
  BY <1>2, <1>3
<1>4. CASE /\ known.present /\ ~(at < known.min)
           /\ cache' = [cache EXCEPT ![p] =
                  [present |-> TRUE, schema |-> known.schema, version |-> known.version,
                   min |-> Least(previous, known.min), max |-> Greatest(at, known.max)]]
  <2>1. /\ known.min \in Nat /\ known.max \in Nat /\ known.min \in 1 .. known.max
        /\ known.max <= latest /\ previous <= known.max /\ known.min <= at
        /\ at \in Nat /\ previous \in Nat
    <3>1. known \in Cache
      BY <1>1
    <3>2. known.min \in Nat /\ known.max \in Nat
      BY <3>1, GroupAssumption DEF Cache
    <3>3. at \in Nat /\ previous \in Nat
      BY <1>1
    <3>4. /\ known.min \in 1 .. known.max /\ known.max <= latest
          /\ previous <= known.max
      BY <1>4 DEF CacheOK
    <3>5. known.min <= at
      BY <1>4, <3>2, <3>3
    <3> QED
      BY <3>2, <3>3, <3>4, <3>5
  <2>2. /\ cache'[p].min = Least(previous, known.min)
        /\ cache'[p].max = Greatest(at, known.max)
        /\ cache'[p].version = known.version /\ cache'[p].schema = known.schema
    BY <1>1, <1>4
  <2>3. cache'[p].min \in 1 .. cache'[p].max /\ cache'[p].max <= latest
    BY <2>1, <2>2 DEF Least, Greatest
  <2>4. ASSUME (\A q \in Accessors : Process[q] = p => ~At(q, {"clear"}))',
               NEW v \in cache'[p].min .. cache'[p].max
        PROVE  snapshots[v].schema = known.schema
    <3>1. \A u \in known.min .. known.max : snapshots[u].schema = known.schema
      BY <1>4, <2>4 DEF CacheOK
    <3>2. \A u \in previous .. at : snapshots[u].schema = snapshots[at].schema
      BY <2>4
    <3>3. PICK u \in previous .. at : u \in known.min .. known.max
      <4>1. CASE previous <= known.min
        BY <2>1, <4>1
      <4>2. CASE known.min <= previous
        BY <2>1, <4>2
      <4> QED
        BY <2>1, <4>1, <4>2
    <3>4. snapshots[at].schema = known.schema
      BY <3>1, <3>2, <3>3
    <3>5. v \in known.min .. known.max \/ v \in previous .. at
      BY <2>1, <2>2 DEF Least, Greatest
    <3> QED
      BY <3>1, <3>2, <3>4, <3>5
  <2>6. ASSUME (\A q \in Accessors : Process[q] = p => ~At(q, {"clear"}))'
        PROVE  \E v \in cache'[p].min .. cache'[p].max : snapshots[v].version = known.version
    <3>1. PICK v \in known.min .. known.max : snapshots[v].version = known.version
      BY <1>4, <2>6 DEF CacheOK
    <3>2. v \in cache'[p].min .. cache'[p].max
      BY <2>1, <2>2, <3>1 DEF Least, Greatest
    <3> QED
      BY <3>1, <3>2
  <2>5. CacheOK(p)'
    BY <1>1, <2>2, <2>3, <2>4, <2>6 DEF CacheOK
  <2> QED
    BY <1>1, <1>2, <1>4, <2>5
<1> QED
  BY <1>3, <1>4 DEF AdvanceSchemaCache

(* What the schema change handler leaves.                                  *)
LEMMA MovedFacts ==
    ASSUME Base, NEW r \in Accessors, Fits(r, bound[r]),
           realm[r].read = bound[r], ~realm[r].news,
           NEW to \in Versions, bound[r] <= to, to <= latest, NEW next,
           NEW moved, moved = Moved(r, to, next)
    PROVE  /\ moved.pc = "moved" /\ moved.then = next
           /\ moved.dynamic = realm[r].dynamic /\ moved.target = realm[r].target
           /\ moved.columns = snapshots[to].schema
           /\ moved.news => moved.version = snapshots[to].version
           /\ moved.dynamic => Seen(snapshots, moved.version, to)
           /\ moved.read = bound[r]
           /\ ~moved.news =>
                 /\ \A v \in bound[r] .. to : snapshots[v].schema = moved.columns
                 /\ moved.columns = realm[r].columns /\ moved.version = realm[r].version
<1>1. realm[r] \in Realm /\ bound[r] \in 1 .. latest /\ to \in 1 .. latest
      /\ latest \in Nat /\ bound[r] \in Nat /\ to \in Nat
  BY GroupAssumption DEF Base, TypeOK, GroupTypeOK, OneWriter, Versions
<1>2. CASE TablesChanged(bound[r], to)
  <2>1. moved = [realm[r] EXCEPT !.pc = "moved", !.then = next, !.news = TRUE,
                                 !.columns = snapshots[to].schema,
                                 !.version = snapshots[to].version]
    BY <1>2 DEF Moved
  <2>2. Seen(snapshots, snapshots[to].version, to)
    BY <1>1, SeenHere
  <2> QED
    BY <1>1, <2>1, <2>2 DEF Realm
<1>3. CASE ~TablesChanged(bound[r], to)
  <2>1. moved = [realm[r] EXCEPT !.pc = "moved", !.then = next]
    BY <1>3 DEF Moved
  <2>2. \A v \in bound[r] .. to : snapshots[v].schema = snapshots[bound[r]].schema
    BY <1>3 DEF TablesChanged
  <2>3. realm[r].dynamic => Seen(snapshots, realm[r].version, to)
    BY <1>1, <2>2, SeenOn DEF Fits
  <2> QED
    BY <1>1, <2>1, <2>2, <2>3 DEF Realm, Fits
<1> QED
  BY <1>2, <1>3

(* A step of r that adds no snapshot.                                      *)
LEMMA QuietStep ==
    ASSUME IInv, Base', NEW r \in Accessors, snapshots' = snapshots,
           \A q \in Accessors \ {r} : /\ realm'[q] = realm[q]
                                      /\ stage'[q] = stage[q] /\ bound'[q] = bound[q],
           \A p \in Processes : opening'[p] = opening[p] \/ opening[p] \in {NoOne, r},
           PhaseOK(r)', ColumnsOK(r)',
           \/ cache' = cache /\ ~At(r, {"clear"})
           \/ \A p \in Processes : CacheOK(p)'
    PROVE  IInv'
<1>1. latest' = latest /\ latest \in Nat /\ latest <= latest /\ Base
  BY DEF IInv, Base, TypeOK, GroupTypeOK, Versions, latest
<1>2. \A q \in Accessors : PhaseOK(q)' /\ ColumnsOK(q)'
  BY <1>1, OthersLeftAlone
<1>4. \A p \in Processes : CacheOK(p)'
  <2>1. ASSUME cache' = cache, ~At(r, {"clear"}), NEW p \in Processes
        PROVE  CacheOK(p)'
    <3>1. \A q \in Accessors : At(q, {"clear"}) => At(q, {"clear"})'
      BY <2>1 DEF At
    <3> QED
      BY <1>1, <2>1, <3>1, SameCache DEF IInv
  <2> QED
    BY <2>1
<1> QED
  BY <1>2, <1>4 DEF IInv, Base

(* A commit of r.                                                          *)
LEMMA CommitStep ==
    ASSUME IInv, Base', NEW r \in Accessors, NEW c \in Contents,
           CommitAndContinueAsRead(r, c), cache' = cache, opening' = opening,
           \A q \in Accessors \ {r} : realm'[q] = realm[q],
           ~At(r, {"clear"}), PhaseOK(r)', ColumnsOK(r)'
    PROVE  IInv'
<1>1. /\ Base /\ GroupTypeOK /\ stage \in [Accessors -> Stages]
      /\ bound \in [Accessors -> Versions] /\ latest \in Nat
  BY DEF IInv, Base, TypeOK, GroupTypeOK, Versions
<1>2. /\ latest' = latest + 1 /\ snapshots'[latest + 1] = c
      /\ \A v \in 1 .. latest : snapshots'[v] = snapshots[v]
  BY <1>1, Committed DEF CommitAndContinueAsRead
<1>3. latest' \in Nat /\ latest <= latest'
  BY <1>1, <1>2
<1>4. \A q \in Accessors \ {r} : stage'[q] = stage[q] /\ bound'[q] = bound[q]
  BY <1>1 DEF CommitAndContinueAsRead
<1>5. \A q \in Accessors : PhaseOK(q)' /\ ColumnsOK(q)'
  BY <1>2, <1>3, <1>4, OthersLeftAlone
<1>6. \A p \in Processes : CacheOK(p)'
  <2>1. \A q \in Accessors : At(q, {"clear"}) => At(q, {"clear"})'
    BY DEF At
  <2> QED
    BY <1>1, <1>2, <1>3, <2>1, SameCache DEF IInv
<1> QED
  BY <1>5, <1>6 DEF IInv, Base

(* The end of Realms of process p: of one of them, not between its commit  *)
(* and the clearing of the cache, or of all.                               *)
LEMMA DestroyStep ==
    ASSUME IInv, Base', NEW p \in Processes, NEW gone \in SUBSET Accessors,
           \A a \in gone : Process[a] = p,
           \/ \A a \in gone : ~At(a, {"clear"})
           \/ gone = {a \in Accessors : Process[a] = p},
           Destroy(p, gone)
    PROVE  IInv'
<1>1. /\ Base /\ latest' = latest /\ latest \in Nat /\ latest <= latest
      /\ opening \in [Processes -> Accessors \cup {NoOne}]
      /\ cache \in [Processes -> Cache]
      /\ snapshots' = snapshots
  BY DEF IInv, Base, TypeOK, GroupTypeOK, Versions, Destroy, latest
<1>2. ASSUME NEW q \in gone
      PROVE  PhaseOK(q)' /\ ColumnsOK(q)'
  <2>1. realm'[q] = Closed /\ stage'[q] = "Ready"
    BY DEF Destroy
  <2> QED
    BY <2>1 DEF PhaseOK, ColumnsOK, At, Moving, Unopened, Still, Closed
<1>3. ASSUME NEW q \in Accessors \ gone
      PROVE  PhaseOK(q)' /\ ColumnsOK(q)'
  <2>1. realm'[q] = realm[q] /\ stage'[q] = stage[q] /\ bound'[q] = bound[q]
    BY DEF Destroy
  <2>2. opening[Process[q]] = q => opening'[Process[q]] = q
    BY <1>1 DEF Destroy, Processes
  <2> QED
    BY <1>1, <2>1, <2>2, OtherRealm DEF IInv
<1>4. ASSUME NEW o \in Processes
      PROVE  CacheOK(o)'
  <2>1. CASE cache'[o] = cache[o] /\ (\A a \in gone : At(a, {"clear"}) => Process[a] # o)
    <3>1. \A q \in Accessors : Process[q] = o /\ At(q, {"clear"}) => At(q, {"clear"})'
      BY <2>1 DEF Destroy, At
    <3> QED
      BY <1>1, <2>1, <3>1, SameCache DEF IInv
  <2>2. CASE cache'[o] = NoCache
    BY <1>1, <2>2 DEF CacheOK, NoCache
  <2>3. o # p => cache'[o] = cache[o]
    BY <1>1 DEF Destroy
  <2>4. cache'[p] = cache[p] \/ cache'[p] = NoCache
    BY <1>1 DEF Destroy
  <2>5. gone = {a \in Accessors : Process[a] = p} => cache'[p] = NoCache
    BY <1>1 DEF Destroy
  <2> QED
    BY <2>1, <2>2, <2>3, <2>4, <2>5
<1> QED
  BY <1>2, <1>3, <1>4 DEF IInv, Base

(* Each step keeps the invariant.                                          *)
LEMMA IInvStep == IInv /\ [Next]_vars => IInv'
<1> SUFFICES ASSUME IInv, [Next]_vars PROVE IInv'
  OBVIOUS
<1> USE GroupAssumption
<1>a. /\ Base /\ Base'
      /\ realm \in [Accessors -> Realm]
      /\ stage \in [Accessors -> Stages] /\ bound \in [Accessors -> Versions]
      /\ opening \in [Processes -> Accessors \cup {NoOne}]
      /\ cache \in [Processes -> Cache]
      /\ latest \in Versions /\ latest \in 1 .. latest
      /\ \A p \in Processes : CacheOK(p)
  BY BaseStep DEF IInv, Base, TypeOK, GroupTypeOK, Versions
<1>b. ASSUME NEW r \in Accessors
      PROVE  /\ PhaseOK(r) /\ ColumnsOK(r) /\ Process[r] \in Processes /\ r # NoOne
             /\ realm[r] \in Realm /\ bound[r] \in 1 .. latest
  BY <1>a DEF IInv, Processes, OneWriter, Versions
<1>c. ASSUME NEW v \in 1 .. latest
      PROVE  snapshots[v] = [version |-> snapshots[v].version,
                             schema |-> snapshots[v].schema]
  <2>1. v \in Versions /\ v <= latest
    BY <1>a DEF Versions
  <2> QED
    BY <1>a, <2>1, SnapshotType DEF Base, TypeOK
<1>1. ASSUME NEW r \in Accessors, NEW t \in Targets, Construct(r, t)
      PROVE  IInv'
  <2>1. /\ At(r, {"closed"}) /\ stage[r] = "Ready" /\ opening[Process[r]] = NoOne
        /\ UNCHANGED << snapshots, stage, bound, cache >>
        /\ opening' = [opening EXCEPT ![Process[r]] = r]
    BY <1>1, <1>b DEF Construct, groupVars, At, PhaseOK
  <2>2. CASE cache[Process[r]].present
    <3>1. realm' = [realm EXCEPT ![r] =
              [Closed EXCEPT !.pc = "constructed", !.target = t,
                             !.columns = cache[Process[r]].schema,
                             !.version = cache[Process[r]].version,
                             !.read = cache[Process[r]].max]]
      BY <1>1, <2>2 DEF Construct
    <3>2. /\ realm'[r].pc = "constructed" /\ realm'[r].dynamic /\ ~realm'[r].news
          /\ realm'[r].then = "open"
          /\ realm'[r].read = cache[Process[r]].max
          /\ realm'[r].columns = cache[Process[r]].schema
          /\ realm'[r].version = cache[Process[r]].version
      BY <1>a, <3>1 DEF Closed
    <3>3. \A q \in Accessors : Process[q] = Process[r] => ~At(q, {"clear"})
      BY <1>b, <2>1 DEF PhaseOK, At, Unopened
    <3>4. LET known == cache[Process[r]]
          IN  /\ known.max \in 1 .. latest /\ snapshots[known.max].schema = known.schema
              /\ Seen(snapshots, known.version, known.max)
      <4> DEFINE known == cache[Process[r]]
      <4>1. CacheOK(Process[r]) /\ known \in Cache /\ latest \in Nat
        BY <1>a, <1>b DEF Versions
      <4>2. /\ known.max \in Nat /\ known.min \in 1 .. known.max /\ known.max <= latest
            /\ \A v \in known.min .. known.max : snapshots[v].schema = known.schema
            /\ \E v \in known.min .. known.max : snapshots[v].version = known.version
        BY <2>2, <3>3, <4>1 DEF CacheOK, Cache
      <4> HIDE DEF known
      <4>3. PICK v \in known.min .. known.max : snapshots[v].version = known.version
        BY <4>2
      <4>4. v \in 1 .. known.max /\ \A u \in v .. known.max : u \in known.min .. known.max
        BY <4>2, <4>3
      <4>5. Seen(snapshots, known.version, known.max)
        BY <4>2, <4>3, <4>4 DEF Seen
      <4> QED
        BY <4>1, <4>2, <4>4, <4>5 DEF known
    <3>5. Fits(r, realm[r].read)'
      BY <2>1, <3>2, <3>4 DEF Fits, latest
    <3>6. PhaseOK(r)'
      BY <1>a, <1>b, <2>1, <3>2 DEF PhaseOK, At, Moving, Unopened
    <3>7. ColumnsOK(r)'
      BY <3>2, <3>5 DEF ColumnsOK, At, Moving, Still
    <3> QED
      BY <1>a, <1>b, <2>1, <3>1, <3>6, <3>7, QuietStep DEF At
  <2>3. CASE ~cache[Process[r]].present
    <3>1. realm' = [realm EXCEPT ![r] = [Closed EXCEPT !.pc = "reading", !.target = t]]
      BY <1>1, <2>3 DEF Construct
    <3>2. /\ realm'[r].pc = "reading" /\ realm'[r].dynamic /\ ~realm'[r].news
          /\ realm'[r].then = "open"
      BY <1>a, <3>1 DEF Closed
    <3>3. PhaseOK(r)'
      BY <1>a, <1>b, <2>1, <3>2 DEF PhaseOK, At, Moving, Unopened
    <3>4. ColumnsOK(r)'
      BY <3>2 DEF ColumnsOK, At, Moving, Still
    <3> QED
      BY <1>a, <1>b, <2>1, <3>1, <3>3, <3>4, QuietStep DEF At
  <2> QED
    BY <2>2, <2>3
<1>2. ASSUME NEW r \in Accessors, ReadFirst(r)
      PROVE  IInv'
  <2>1. /\ At(r, {"reading"}) /\ UNCHANGED << snapshots, opening, cache >>
        /\ stage' = [stage EXCEPT ![r] = "Reading"]
        /\ bound' = [bound EXCEPT ![r] = latest]
    BY <1>2 DEF ReadFirst, BeginRead, At
  <2>2. /\ realm'[r].pc = "read" /\ realm'[r].dynamic = realm[r].dynamic
        /\ realm'[r].then = realm[r].then
        /\ realm'[r].news = realm[r].news /\ realm'[r].read = latest
        /\ realm'[r].columns = snapshots[latest].schema
        /\ realm'[r].version = snapshots[latest].version
        /\ \A q \in Accessors \ {r} : realm'[q] = realm[q]
    BY <1>2, <1>a, <1>b DEF ReadFirst, Realm
  <2>3. PhaseOK(r)'
    BY <1>a, <1>b, <2>1, <2>2 DEF PhaseOK, At, Moving, Unopened
  <2>4. ~realm[r].news /\ realm[r].then = "open" /\ bound'[r] = latest
    BY <1>a, <1>b, <2>1 DEF ColumnsOK, At, Still, Phases
  <2>5. Fits(r, bound[r])'
    <3>1. Seen(snapshots, snapshots[latest].version, latest)
      BY <1>a, SeenHere DEF Versions
    <3> QED
      BY <1>a, <2>1, <2>2, <2>4, <3>1 DEF Fits, latest
  <2>6. ColumnsOK(r)'
    BY <2>1, <2>2, <2>4, <2>5 DEF ColumnsOK, At, Moving, Still
  <2> QED
    BY <1>a, <2>1, <2>2, <2>3, <2>6, QuietStep DEF At
<1>3. ASSUME NEW r \in Accessors, CacheFirst(r)
      PROVE  IInv'
  <2>1. /\ At(r, {"read"}) /\ UNCHANGED << snapshots, opening, bound >>
        /\ CacheSchema(Process[r], realm[r].columns, realm[r].version, realm[r].read)
        /\ stage' = [stage EXCEPT ![r] = "Ready"]
    BY <1>3 DEF CacheFirst, EndRead, At
  <2>2. realm' = [realm EXCEPT ![r] = [realm[r] EXCEPT !.pc = "constructed"]]
    BY <1>3 DEF CacheFirst
  <2>3. /\ realm'[r].pc = "constructed" /\ realm'[r].dynamic = realm[r].dynamic
        /\ realm'[r].news = realm[r].news /\ realm'[r].read = realm[r].read
        /\ realm'[r].columns = realm[r].columns /\ realm'[r].version = realm[r].version
        /\ realm'[r].then = realm[r].then
        /\ \A q \in Accessors \ {r} : realm'[q] = realm[q]
    BY <1>a, <1>b, <2>2 DEF Realm
  <2>4. /\ realm[r].read = bound[r] /\ Fits(r, bound[r]) /\ realm[r].dynamic
        /\ ~realm[r].news /\ realm[r].then = "open"
        /\ realm[r].version = snapshots[bound[r]].version
    BY <1>b, <2>1 DEF ColumnsOK, PhaseOK, At, Unopened, Still, Phases
  <2>5. PhaseOK(r)'
    BY <1>a, <1>b, <2>1, <2>3 DEF PhaseOK, At, Moving, Unopened
  <2>6. ColumnsOK(r)'
    BY <1>a, <1>b, <2>1, <2>3, <2>4 DEF ColumnsOK, At, Moving, Still, Fits, latest
  <2>7. \A p \in Processes : CacheOK(p)'
    <3>1. /\ snapshots[realm[r].read].version = realm[r].version
          /\ snapshots[realm[r].read].schema = realm[r].columns
      BY <2>4 DEF Fits
    <3>2. \A q \in Accessors : At(q, {"clear"}) => At(q, {"clear"})'
      BY <2>1, <2>3 DEF At
    <3> QED
      BY <1>a, <1>b, <2>1, <2>4, <3>1, <3>2, CacheSchemaRight
  <2> QED
    BY <1>a, <2>1, <2>3, <2>5, <2>6, <2>7, QuietStep
<1>4. ASSUME NEW r \in Accessors, NEW s \in Accessors, TakeSchema(r, s)
      PROVE  IInv'
  <2>1. /\ At(r, {"constructed"}) /\ UNCHANGED << snapshots, stage, bound, cache >>
        /\ opening' = [opening EXCEPT ![Process[r]] = NoOne]
    BY <1>4 DEF TakeSchema, groupVars, At
  <2>2. /\ realm'[r].pc = "open" /\ ~realm'[r].dynamic
        /\ realm'[r].news = realm[r].news /\ realm'[r].read = realm[r].read
        /\ realm'[r].columns = realm[r].columns /\ realm'[r].then = realm[r].then
        /\ \A q \in Accessors \ {r} : realm'[q] = realm[q]
    BY <1>a, <1>b, <1>4 DEF TakeSchema, Realm
  <2>3. /\ Fits(r, realm[r].read) /\ stage[r] = "Ready" /\ opening[Process[r]] = r
        /\ ~realm[r].news /\ realm[r].then = "open"
    BY <1>b, <2>1 DEF ColumnsOK, PhaseOK, At, Unopened, Still, Phases
  <2>4. PhaseOK(r)'
    BY <2>1, <2>2, <2>3 DEF PhaseOK, At, Moving, Unopened
  <2>5. ColumnsOK(r)'
    BY <2>1, <2>2, <2>3 DEF ColumnsOK, At, Moving, Still, Fits, latest
  <2> QED
    BY <1>a, <2>1, <2>2, <2>3, <2>4, <2>5, QuietStep DEF At
<1>5. ASSUME NEW r \in Accessors, UpdateSchema(r) \/ ReadGroup(r)
      PROVE  IInv'
  <2>1. /\ At(r, {"constructed", "open"}) /\ UNCHANGED << snapshots, cache, opening >>
        /\ stage' = [stage EXCEPT ![r] = "Reading"]
        /\ bound' = [bound EXCEPT ![r] = latest]
    BY <1>5 DEF UpdateSchema, ReadGroup, BeginRead, At
  <2>2. /\ realm'[r].pc = "begun" /\ realm'[r].dynamic = realm[r].dynamic
        /\ realm'[r].news = realm[r].news /\ realm'[r].read = realm[r].read
        /\ realm'[r].columns = realm[r].columns /\ realm'[r].then = realm[r].then
        /\ realm'[r].version = realm[r].version
        /\ \A q \in Accessors \ {r} : realm'[q] = realm[q]
    BY <1>a, <1>b, <1>5 DEF UpdateSchema, ReadGroup, Realm
  <2>3. Fits(r, realm[r].read) /\ ~realm[r].news /\ realm[r].then = "open"
    BY <1>b, <2>1 DEF ColumnsOK, At, Still, Phases
  <2>4. PhaseOK(r)'
    BY <1>a, <1>b, <2>1, <2>2 DEF PhaseOK, At, Moving, Unopened
  <2>5. ColumnsOK(r)'
    BY <2>1, <2>2, <2>3 DEF ColumnsOK, At, Moving, Still, Fits, latest
  <2> QED
    BY <1>a, <2>1, <2>2, <2>3, <2>4, <2>5, QuietStep DEF At
<1>6. ASSUME NEW r \in Accessors, ReadSchema(r)
      PROVE  IInv'
  <2> DEFINE next == IF realm[r].dynamic THEN "full" ELSE "open"
  <2>1. At(r, {"begun"}) /\ UNCHANGED << snapshots, stage, bound, opening >>
    BY <1>6 DEF ReadSchema, groupVars, At
  <2>2. /\ stage[r] = "Reading" /\ Fits(r, realm[r].read)
        /\ ~realm[r].news /\ realm[r].then = "open"
    BY <1>b, <2>1 DEF ColumnsOK, PhaseOK, At, Still, Phases
  <2>3. ASSUME realm'[r].pc = next, realm'[r].dynamic = realm[r].dynamic,
               realm'[r].news = realm[r].news, realm'[r].then = realm[r].then,
               realm'[r].read = bound[r], realm'[r].columns = snapshots[bound[r]].schema,
               realm[r].dynamic => Seen(snapshots, realm'[r].version, bound[r])
        PROVE  PhaseOK(r)' /\ ColumnsOK(r)'
    <3>1. PhaseOK(r)'
      BY <1>b, <2>1, <2>2, <2>3 DEF PhaseOK, At, Moving, Unopened
    <3>2. Fits(r, bound[r])'
      BY <1>b, <2>1, <2>3 DEF Fits, latest
    <3>3. ColumnsOK(r)'
      BY <2>1, <2>2, <2>3, <3>2 DEF ColumnsOK, At, Moving, Still
    <3> QED
      BY <3>1, <3>3
  <2>4. CASE realm[r].read = bound[r]
    <3>1. cache' = cache /\ realm' = [realm EXCEPT ![r] = [realm[r] EXCEPT !.pc = next]]
      BY <1>6, <2>4 DEF ReadSchema
    <3>2. /\ realm'[r].pc = next /\ realm'[r].dynamic = realm[r].dynamic
          /\ realm'[r].news = realm[r].news /\ realm'[r].then = realm[r].then
          /\ realm'[r].read = realm[r].read /\ realm'[r].columns = realm[r].columns
          /\ realm'[r].version = realm[r].version
      BY <1>a, <1>b, <3>1 DEF Realm
    <3>3. PhaseOK(r)' /\ ColumnsOK(r)'
      BY <2>2, <2>3, <2>4, <3>2 DEF Fits
    <3> QED
      BY <1>a, <2>1, <3>1, <3>3, QuietStep DEF At
  <2>5. CASE realm[r].read # bound[r]
    <3>1. /\ CacheSchema(Process[r], snapshots[bound[r]].schema,
                         snapshots[bound[r]].version, bound[r])
          /\ realm' = [realm EXCEPT ![r] =
                [realm[r] EXCEPT !.pc = next, !.read = bound[r],
                                 !.columns = snapshots[bound[r]].schema,
                                 !.version = snapshots[bound[r]].version]]
      BY <1>6, <2>5 DEF ReadSchema
    <3>2. /\ realm'[r].pc = next /\ realm'[r].dynamic = realm[r].dynamic
          /\ realm'[r].news = realm[r].news /\ realm'[r].then = realm[r].then
          /\ realm'[r].read = bound[r] /\ realm'[r].columns = snapshots[bound[r]].schema
          /\ realm'[r].version = snapshots[bound[r]].version
      BY <1>a, <1>b, <3>1 DEF Realm
    <3>6. Seen(snapshots, snapshots[bound[r]].version, bound[r])
      BY <1>b, SeenHere
    <3>3. PhaseOK(r)' /\ ColumnsOK(r)'
      BY <2>3, <3>2, <3>6
    <3>4. \A q \in Accessors : At(q, {"clear"}) => At(q, {"clear"})'
      BY <2>1, <3>1 DEF At
    <3>5. \A p \in Processes : CacheOK(p)'
      BY <1>a, <1>b, <1>c, <2>1, <3>1, <3>4, CacheSchemaRight
    <3> QED
      BY <1>a, <2>1, <3>1, <3>3, <3>5, QuietStep
  <2> QED
    BY <2>4, <2>5
<1>7. ASSUME NEW r \in Accessors, OpenAsIs(r)
      PROVE  IInv'
  <2>1. /\ At(r, {"full"}) /\ UNCHANGED << snapshots, bound, cache >>
        /\ stage' = [stage EXCEPT ![r] = "Ready"]
        /\ opening' = [opening EXCEPT ![Process[r]] = NoOne]
    BY <1>7 DEF OpenAsIs, EndRead, At
  <2>2. /\ realm'[r].pc = "open" /\ ~realm'[r].dynamic
        /\ realm'[r].news = realm[r].news /\ realm'[r].read = realm[r].read
        /\ realm'[r].columns = realm[r].columns /\ realm'[r].then = realm[r].then
        /\ \A q \in Accessors \ {r} : realm'[q] = realm[q]
    BY <1>a, <1>b, <1>7 DEF OpenAsIs, Realm
  <2>3. /\ Fits(r, realm[r].read) /\ opening[Process[r]] = r
        /\ ~realm[r].news /\ realm[r].then = "open"
    BY <1>b, <2>1 DEF ColumnsOK, PhaseOK, At, Unopened, Still, Phases
  <2>4. PhaseOK(r)' /\ stage'[r] = "Ready"
    BY <1>a, <2>1, <2>2, <2>3 DEF PhaseOK, At, Moving, Unopened
  <2>5. ColumnsOK(r)'
    BY <2>1, <2>2, <2>3, <2>4 DEF ColumnsOK, At, Moving, Still, Fits, latest
  <2> QED
    BY <1>a, <2>1, <2>2, <2>3, <2>4, <2>5, QuietStep DEF At
<1>8. ASSUME NEW r \in Accessors, Promote(r)
      PROVE  IInv'
  <2> DEFINE moved == Moved(r, latest, "applying")
  <2>1. /\ At(r, {"full"}) /\ UNCHANGED << snapshots, opening, cache >>
        /\ stage' = [stage EXCEPT ![r] = "Writing"]
        /\ bound' = [bound EXCEPT ![r] = latest]
        /\ realm' = [realm EXCEPT ![r] =
              [moved EXCEPT !.pc = IF moved.news THEN "promoted" ELSE "moved"]]
    BY <1>8 DEF Promote, PromoteToWrite, At
  <2>2. /\ Fits(r, bound[r]) /\ realm[r].read = bound[r] /\ ~realm[r].news
        /\ realm[r].dynamic /\ opening[Process[r]] = r
    BY <1>b, <2>1 DEF ColumnsOK, PhaseOK, At, Unopened, Still, Phases
  <2>3. moved \in Realm /\ bound[r] <= latest /\ latest <= latest /\ latest \in Nat
    <3>1. latest \in Nat /\ bound[r] <= latest
      BY <1>a, <1>b DEF Versions
    <3>2. snapshots[latest].version \in Nat /\ snapshots[latest].schema \in Schemas
      <4>1. latest \in Versions /\ latest <= latest /\ GroupTypeOK
        BY <1>a, <3>1 DEF Base, TypeOK
      <4> QED
        BY <4>1, SnapshotType
    <3>3. moved \in Realm
      BY <1>b, <3>2 DEF Moved, Realm, Phases
    <3> QED
      BY <3>1, <3>3
  <2>4. /\ moved.then = "applying" /\ moved.dynamic
        /\ moved.columns = snapshots[latest].schema
        /\ moved.news => moved.version = snapshots[latest].version
        /\ Seen(snapshots, moved.version, latest) /\ moved.read = bound[r]
        /\ ~moved.news =>
              /\ \A v \in bound[r] .. latest : snapshots[v].schema = moved.columns
              /\ moved.columns = realm[r].columns /\ moved.version = realm[r].version
        /\ moved.target = realm[r].target
    BY <1>a, <2>2, <2>3, MovedFacts
  <2> HIDE DEF moved
  <2>5. /\ realm'[r].pc = (IF moved.news THEN "promoted" ELSE "moved")
        /\ realm'[r].then = "applying" /\ realm'[r].dynamic
        /\ realm'[r].columns = snapshots[latest].schema
        /\ realm'[r].version = moved.version /\ realm'[r].read = bound[r]
        /\ realm'[r].news = moved.news /\ realm'[r].target = realm[r].target
    BY <1>a, <2>1, <2>3, <2>4 DEF Realm
  <2>6. stage'[r] = "Writing" /\ bound'[r] = latest
    BY <1>a, <2>1
  <2>7. PhaseOK(r)'
    BY <2>1, <2>2, <2>5, <2>6 DEF PhaseOK, At, Moving, Unopened
  <2>8. ColumnsOK(r)'
    <3>1. Fits(r, bound[r])'
      BY <1>a, <2>1, <2>4, <2>5, <2>6 DEF Fits, latest
    <3>2. bound[r] \in 1 .. bound'[r]
      BY <1>b, <2>6
    <3>3. ~moved.news => /\ ~Needless(r)'
                         /\ ~InvalidVersion(realm'[r].version, realm'[r].target)
      BY <1>8, <2>4, <2>5 DEF Promote, Needless
    <3> QED
      BY <2>1, <2>4, <2>5, <2>6, <3>1, <3>2, <3>3 DEF ColumnsOK, At, Moving, Still
  <2> QED
    BY <1>a, <2>1, <2>7, <2>8, QuietStep DEF At
<1>9. ASSUME NEW r \in Accessors, LookAgain(r)
      PROVE  IInv'
  <2>1. At(r, {"promoted"}) /\ UNCHANGED << snapshots, bound, opening, cache >>
    BY <1>9 DEF LookAgain, RollbackAndContinueAsRead, groupVars, At
  <2>2. /\ Fits(r, bound[r]) /\ realm[r].news /\ realm[r].then = "applying"
        /\ realm[r].dynamic /\ opening[Process[r]] = r /\ stage[r] = "Writing"
        /\ realm[r].version = snapshots[bound[r]].version
    BY <1>b, <2>1 DEF ColumnsOK, PhaseOK, At, Unopened
  <2>3. CASE Needless(r)
    <3>1. /\ stage' = [stage EXCEPT ![r] = "Reading"]
          /\ realm' = [realm EXCEPT ![r] = [realm[r] EXCEPT !.pc = "moved",
                                               !.then = "opened", !.dynamic = FALSE]]
      BY <1>9, <2>3 DEF LookAgain, RollbackAndContinueAsRead
    <3>2. /\ realm'[r].pc = "moved" /\ realm'[r].then = "opened" /\ ~realm'[r].dynamic
          /\ realm'[r].news /\ realm'[r].columns = realm[r].columns
          /\ realm'[r].version = realm[r].version
      BY <1>a, <1>b, <2>2, <3>1 DEF Realm
    <3>3. PhaseOK(r)'
      BY <1>a, <2>1, <2>2, <3>1, <3>2 DEF PhaseOK, At, Moving, Unopened
    <3>4. ColumnsOK(r)'
      BY <2>1, <2>2, <3>2 DEF ColumnsOK, At, Moving, Still, Fits, latest
    <3> QED
      BY <1>a, <2>1, <3>1, <3>3, <3>4, QuietStep DEF At
  <2>4. CASE ~Needless(r)
    <3>1. /\ stage' = stage
          /\ realm' = [realm EXCEPT ![r] = [realm[r] EXCEPT !.pc = "moved"]]
      BY <1>9, <2>4 DEF LookAgain, groupVars
    <3>2. /\ realm'[r].pc = "moved" /\ realm'[r].then = "applying" /\ realm'[r].dynamic
          /\ realm'[r].news /\ realm'[r].columns = realm[r].columns
          /\ realm'[r].version = realm[r].version /\ realm'[r].target = realm[r].target
      BY <1>a, <1>b, <2>2, <3>1 DEF Realm
    <3>3. PhaseOK(r)'
      BY <2>1, <2>2, <3>1, <3>2 DEF PhaseOK, At, Moving, Unopened
    <3>4. /\ ~Needless(r)'
          /\ ~InvalidVersion(realm'[r].version, realm'[r].target)
      BY <1>9, <2>4, <3>2 DEF LookAgain, Needless
    <3>5. ColumnsOK(r)'
      BY <2>1, <2>2, <3>2, <3>4 DEF ColumnsOK, At, Moving, Still, Fits, latest
    <3> QED
      BY <1>a, <2>1, <3>1, <3>3, <3>5, QuietStep DEF At
  <2> QED
    BY <2>3, <2>4
<1>10. ASSUME NEW r \in Accessors, CacheNewSchema(r)
      PROVE  IInv'
  <2>1. /\ At(r, {"moved"}) /\ AssertionHolds(r)
        /\ realm' = [realm EXCEPT ![r] =
              [realm[r] EXCEPT !.pc = IF realm[r].then = "opened" THEN "open"
                                                                 ELSE realm[r].then,
                               !.then = "open", !.read = bound[r], !.news = FALSE]]
        /\ UNCHANGED << snapshots, bound >>
    BY <1>10 DEF CacheNewSchema, EndRead, groupVars, At
  <2>2. /\ realm'[r].pc = (IF realm[r].then = "opened" THEN "open" ELSE realm[r].then)
        /\ realm'[r].then = "open" /\ realm'[r].dynamic = realm[r].dynamic
        /\ realm'[r].news = FALSE /\ realm'[r].read = bound[r]
        /\ realm'[r].columns = realm[r].columns /\ realm'[r].version = realm[r].version
        /\ realm'[r].target = realm[r].target
        /\ \A q \in Accessors \ {r} : realm'[q] = realm[q]
    BY <1>a, <1>b, <2>1 DEF Realm
  <2>3. realm[r].then \in {"applying", "clear", "opened", "open"}
    BY <1>b DEF Realm
  <2>4. /\ stage'[r] = IF realm[r].then = "opened" THEN "Ready" ELSE stage[r]
        /\ opening'[Process[r]] = IF realm[r].then = "opened" THEN NoOne
                                                              ELSE opening[Process[r]]
        /\ \A q \in Accessors \ {r} : stage'[q] = stage[q]
        /\ \A p \in Processes : opening'[p] = opening[p] \/ opening[p] \in {NoOne, r}
    <3>1. CASE realm[r].then = "opened"
      <4>1. opening[Process[r]] = r
        BY <1>b, <2>1, <3>1 DEF PhaseOK, Moving, At
      <4>2. /\ opening' = [opening EXCEPT ![Process[r]] = NoOne]
            /\ stage' = [stage EXCEPT ![r] = "Ready"]
        BY <1>10, <3>1 DEF CacheNewSchema, EndRead
      <4> QED
        BY <1>a, <1>b, <3>1, <4>1, <4>2
    <3>2. CASE realm[r].then # "opened"
      BY <1>10, <3>2 DEF CacheNewSchema, groupVars
    <3> QED
      BY <3>1, <3>2
  <2>5. PhaseOK(r)'
    BY <1>b, <2>1, <2>2, <2>3, <2>4 DEF PhaseOK, At, Moving, Unopened
  <2>6. ColumnsOK(r)'
    <3>1. realm[r].then # "clear" => Fits(r, bound[r])'
      BY <1>b, <2>1, <2>2, <2>3 DEF ColumnsOK, PhaseOK, At, Moving, Fits, latest
    <3>2. realm[r].then = "applying" =>
             ~Needless(r)' /\ ~InvalidVersion(realm'[r].version, realm'[r].target)
      BY <1>b, <2>1, <2>2 DEF ColumnsOK, Moving, At, Needless
    <3> QED
      BY <2>1, <2>2, <2>3, <2>4, <3>1, <3>2 DEF ColumnsOK, At, Moving, Still
  <2>7. \A p \in Processes : CacheOK(p)'
    <3>1. \A q \in Accessors : At(q, {"clear"}) => At(q, {"clear"})'
      BY <2>1, <2>2 DEF At
    <3>2. CASE realm[r].news
      <4>1. CacheSchema(Process[r], realm[r].columns, realm[r].version, bound[r])
        BY <1>10, <3>2 DEF CacheNewSchema
      <4>2. realm[r].then # "clear"
        BY <1>b, <2>1, <3>2 DEF ColumnsOK, Moving, At
      <4>3. /\ snapshots[bound[r]].version = realm[r].version
            /\ snapshots[bound[r]].schema = realm[r].columns
        BY <1>b, <2>1, <2>3, <3>2, <4>2 DEF ColumnsOK, Moving, At, Fits
      <4> QED
        BY <1>a, <1>b, <2>1, <3>1, <4>1, <4>3, CacheSchemaRight
    <3>3. CASE ~realm[r].news
      <4>1. AdvanceSchemaCache(Process[r], realm[r].read, bound[r])
        BY <1>10, <3>3 DEF CacheNewSchema
      <4>2. realm[r].read \in 1 .. bound[r]
        BY <1>b, <2>1, <3>3 DEF ColumnsOK
      <4>3. cache[Process[r]].present => realm[r].read <= cache[Process[r]].max
        BY <2>1, <3>3 DEF AssertionHolds
      <4>4. realm[r].then # "clear" =>
               \A v \in realm[r].read .. bound[r] :
                  snapshots[v].schema = snapshots[bound[r]].schema
        BY <1>b, <2>1, <2>3, <3>3 DEF ColumnsOK, Moving, At, Fits
      <4>5. realm[r].then = "clear" => At(r, {"clear"})'
        BY <2>2 DEF At
      <4>6. (\A q \in Accessors : Process[q] = Process[r] => ~At(q, {"clear"}))' =>
               \A v \in realm[r].read .. bound[r] :
                  snapshots[v].schema = snapshots[bound[r]].schema
        BY <4>4, <4>5
      <4> QED
        BY <1>a, <1>b, <2>1, <3>1, <4>1, <4>2, <4>3, <4>6, AdvanceSchemaCacheRight
    <3> QED
      BY <3>2, <3>3
  <2> QED
    BY <1>a, <2>1, <2>2, <2>4, <2>5, <2>6, <2>7, QuietStep
<1>11. ASSUME NEW r \in Accessors, Clear(r)
      PROVE  IInv'
  <2>1. /\ At(r, {"clear"}) /\ UNCHANGED << snapshots, bound >>
        /\ stage' = [stage EXCEPT ![r] = "Ready"]
        /\ opening' = [opening EXCEPT ![Process[r]] = NoOne]
        /\ cache' = [cache EXCEPT ![Process[r]] =
              [cache[Process[r]] EXCEPT !.present = FALSE,
                                        !.version = realm[r].target.version]]
    BY <1>11 DEF Clear, EndRead, At
  <2>2. /\ realm'[r].pc = "open" /\ ~realm'[r].dynamic
        /\ realm'[r].news = realm[r].news /\ realm'[r].read = realm[r].read
        /\ realm'[r].columns = snapshots[bound[r]].schema
        /\ realm'[r].then = realm[r].then
        /\ \A q \in Accessors \ {r} : realm'[q] = realm[q]
    BY <1>a, <1>b, <1>11 DEF Clear, Realm
  <2>3. /\ realm[r].read = bound[r] /\ opening[Process[r]] = r
        /\ ~realm[r].news /\ realm[r].then = "open"
    BY <1>b, <2>1 DEF ColumnsOK, PhaseOK, At, Unopened, Still, Phases
  <2>4. PhaseOK(r)' /\ stage'[r] = "Ready"
    BY <1>a, <2>1, <2>2, <2>3 DEF PhaseOK, At, Moving, Unopened
  <2>5. ColumnsOK(r)'
    BY <1>b, <2>1, <2>2, <2>3, <2>4 DEF ColumnsOK, At, Moving, Still, Fits, latest
  <2>6. ASSUME NEW p \in Processes
        PROVE  CacheOK(p)'
    <3>1. CASE p = Process[r]
      <4>1. cache'[p].present = FALSE /\ cache'[p].max = cache[p].max
        BY <1>a, <2>1, <3>1 DEF Cache
      <4>2. latest' = latest /\ cache[p].max <= latest
        BY <1>a, <2>1 DEF CacheOK, latest
      <4> QED
        BY <4>1, <4>2 DEF CacheOK
    <3>2. CASE p # Process[r]
      <4>1. /\ cache'[p] = cache[p] /\ latest' = latest /\ latest \in Nat
            /\ latest <= latest
        BY <1>a, <2>1, <3>2 DEF latest, Versions
      <4>2. \A q \in Accessors : Process[q] = p /\ At(q, {"clear"}) => At(q, {"clear"})'
        BY <2>2, <3>2 DEF At
      <4> QED
        BY <1>a, <2>1, <4>1, <4>2, SameCache
    <3> QED
      BY <3>1, <3>2
  <2> QED
    BY <1>a, <2>1, <2>2, <2>3, <2>4, <2>5, <2>6, QuietStep
<1>12. ASSUME NEW r \in Accessors, NEW to \in Versions, to <= latest, bound[r] <= to,
              At(r, {"open"}), stage[r] = "Reading",
              realm' = [realm EXCEPT ![r] = Moved(r, to, "open")],
              bound' = [bound EXCEPT ![r] = to],
              \/ stage' = stage
              \/ stage' = [stage EXCEPT ![r] = "Writing"],
              UNCHANGED << snapshots, cache, opening >>
       PROVE  IInv'
  <2> DEFINE moved == Moved(r, to, "open")
  <2>1. /\ Fits(r, bound[r]) /\ realm[r].read = bound[r] /\ ~realm[r].news
        /\ ~realm[r].dynamic
    BY <1>b, <1>12 DEF ColumnsOK, PhaseOK, At, Still, Phases
  <2>2. /\ moved.pc = "moved" /\ moved.then = "open" /\ ~moved.dynamic
        /\ moved.columns = snapshots[to].schema
        /\ moved.news => moved.version = snapshots[to].version /\ moved.read = bound[r]
        /\ moved.read = bound[r]
        /\ ~moved.news => \A v \in bound[r] .. to : snapshots[v].schema = moved.columns
    BY <1>a, <1>12, <2>1, MovedFacts
  <2>3. realm'[r] = moved /\ bound'[r] = to /\ stage'[r] # "Ready"
    BY <1>a, <1>12
  <2> HIDE DEF moved
  <2>4. to \in 1 .. latest /\ bound[r] \in 1 .. to
    BY <1>a, <1>b, <1>12 DEF Versions
  <2>5. PhaseOK(r)'
    BY <2>2, <2>3 DEF PhaseOK, At, Moving, Unopened
  <2>6. ColumnsOK(r)'
    <3>1. Fits(r, bound[r])'
      BY <1>12, <2>2, <2>3, <2>4 DEF Fits, latest
    <3> QED
      BY <1>12, <2>2, <2>3, <2>4, <3>1 DEF ColumnsOK, At, Moving, Still
  <2> QED
    BY <1>a, <1>12, <2>5, <2>6, QuietStep DEF At
<1>13. ASSUME NEW r \in Accessors, BeginTransaction(r)
       PROVE  IInv'
  <2>1. latest <= latest /\ bound[r] <= latest
    BY <1>a, <1>b DEF Versions
  <2> QED
    BY <1>a, <1>12, <1>13, <2>1 DEF BeginTransaction, PromoteToWrite, At
<1>14. ASSUME NEW r \in Accessors, NEW v \in Versions, Advance(r, v)
       PROVE  IInv'
  <2>1. bound[r] <= v
    BY <1>a, <1>14 DEF Advance, Versions
  <2> QED
    BY <1>a, <1>12, <1>14, <2>1 DEF Advance, AdvanceRead, At
<1>15. ASSUME NEW r \in Accessors, CancelTransaction(r) \/ Invalidate(r)
       PROVE  IInv'
  <2>1. /\ At(r, {"open"}) /\ stage[r] # "Ready"
        /\ UNCHANGED << snapshots, bound, cache, opening, realm >>
        /\ \A q \in Accessors \ {r} : stage'[q] = stage[q]
    <3>1. CASE CancelTransaction(r)
      BY <1>a, <3>1 DEF CancelTransaction, RollbackAndContinueAsRead, schemaVars, At
    <3>2. CASE Invalidate(r)
      BY <1>a, <3>2 DEF Invalidate, EndRead, schemaVars, At
    <3> QED
      BY <1>15, <3>1, <3>2
  <2>2. PhaseOK(r)'
    BY <1>b, <2>1 DEF PhaseOK, At, Moving, Unopened
  <2>3. ColumnsOK(r)'
    BY <1>b, <2>1 DEF ColumnsOK, At, Moving, Still, Fits, latest
  <2> QED
    BY <1>a, <2>1, <2>2, <2>3, QuietStep DEF At
<1>16. ASSUME NEW r \in Accessors, Apply(r)
       PROVE  IInv'
  <2> DEFINE target == realm[r].target
             after == Applied(realm[r].columns, target)
  <2>1. /\ At(r, {"applying"}) /\ CommitAndContinueAsRead(r, after)
        /\ cache' = cache /\ opening' = opening
        /\ realm' = [realm EXCEPT ![r] =
              [realm[r] EXCEPT !.pc = "moved", !.then = "clear"]]
    BY <1>16 DEF Apply, At
  <2>2. /\ realm'[r].pc = "moved" /\ realm'[r].then = "clear"
        /\ realm'[r].dynamic = realm[r].dynamic /\ realm'[r].news = realm[r].news
        /\ realm'[r].read = realm[r].read
        /\ \A q \in Accessors \ {r} : realm'[q] = realm[q]
    BY <1>a, <1>b, <2>1 DEF Realm
  <2>3. /\ Fits(r, bound[r]) /\ realm[r].read = bound[r] /\ ~realm[r].news
        /\ realm[r].dynamic /\ opening[Process[r]] = r /\ bound[r] = latest
    BY <1>a, <1>b, <2>1 DEF ColumnsOK, PhaseOK, At, Unopened, Still, Phases, Base, OneWriter
  <2>4. stage'[r] = "Reading" /\ bound'[r] = latest + 1
    BY <1>a, <2>1 DEF CommitAndContinueAsRead
  <2>5. PhaseOK(r)'
    BY <2>1, <2>2, <2>3, <2>4 DEF PhaseOK, At, Moving, Unopened
  <2>6. ColumnsOK(r)'
    <3>1. realm[r].read \in 1 .. bound'[r]
      BY <1>a, <2>3, <2>4
    <3> QED
      BY <2>2, <2>3, <3>1 DEF ColumnsOK, At, Moving, Still
  <2>7. after \in Contents
    <3>1. realm[r].columns \in Schemas /\ target \in Targets
      BY <1>b DEF Realm
    <3> QED
      BY <3>1, AppliedType
  <2> HIDE DEF after, target
  <2> QED
    BY <1>a, <2>1, <2>2, <2>5, <2>6, <2>7, CommitStep DEF At
<1>17. ASSUME NEW r \in Accessors, CommitTransaction(r)
       PROVE  IInv'
  <2> DEFINE c == snapshots[latest]
  <2>1. /\ At(r, {"open"}) /\ CommitAndContinueAsRead(r, c)
        /\ cache' = cache /\ opening' = opening /\ stage[r] = "Writing"
        /\ realm' = [realm EXCEPT ![r] = [realm[r] EXCEPT !.pc = "moved"]]
    BY <1>17 DEF CommitTransaction, CommitAndContinueAsRead, At
  <2>2. /\ realm'[r].pc = "moved" /\ realm'[r].then = realm[r].then
        /\ realm'[r].dynamic = realm[r].dynamic /\ realm'[r].news = realm[r].news
        /\ realm'[r].read = realm[r].read /\ realm'[r].columns = realm[r].columns
        /\ \A q \in Accessors \ {r} : realm'[q] = realm[q]
    BY <1>a, <1>b, <2>1 DEF Realm
  <2>3. /\ Fits(r, latest) /\ realm[r].read = latest /\ ~realm[r].news
        /\ ~realm[r].dynamic /\ realm[r].then = "open"
    BY <1>a, <1>b, <2>1 DEF ColumnsOK, PhaseOK, At, Still, Phases, Base, OneWriter
  <2>4. stage'[r] = "Reading" /\ bound'[r] = latest + 1
    BY <1>a, <2>1 DEF CommitAndContinueAsRead
  <2>5. c \in Contents /\ latest \in Nat
    <3>1. latest \in Nat /\ latest <= latest
      BY <1>a DEF Versions
    <3> QED
      BY <1>a, <3>1, SnapshotType DEF Base, TypeOK
  <2>6. /\ latest' = latest + 1 /\ snapshots'[latest + 1] = c
        /\ \A v \in 1 .. latest : snapshots'[v] = snapshots[v]
    BY <1>a, <2>1, <2>5, Committed DEF CommitAndContinueAsRead, Base, TypeOK
  <2>7. PhaseOK(r)'
    BY <2>2, <2>3, <2>4 DEF PhaseOK, At, Moving, Unopened
  <2>8. ColumnsOK(r)'
    <3>1. /\ realm[r].read \in 1 .. bound'[r] /\ latest + 1 \in 1 .. latest'
          /\ \A v \in realm[r].read .. bound'[r] : v = latest \/ v = latest + 1
      BY <1>a, <2>3, <2>4, <2>5, <2>6
    <3>2. /\ Fits(r, bound[r])'
          /\ \A v \in realm[r].read .. bound'[r] : snapshots'[v].schema = realm[r].columns
      BY <1>a, <2>2, <2>3, <2>4, <2>6, <3>1 DEF Fits
    <3> QED
      BY <2>2, <2>3, <3>1, <3>2 DEF ColumnsOK, At, Moving, Still
  <2> QED
    BY <1>a, <2>1, <2>2, <2>5, <2>7, <2>8, CommitStep DEF At
<1>18. ASSUME NEW p \in Processes, Dies(p)
       PROVE  IInv'
  BY <1>a, <1>18, DestroyStep DEF Dies
<1>19. ASSUME NEW r \in Accessors, OpenFails(r) \/ Uncaught(r) \/ Close(r)
       PROVE  IInv'
  <2>1. CASE Uncaught(r)
    BY <1>b, <1>18, <2>1 DEF Uncaught
  <2>2. CASE OpenFails(r) \/ Close(r)
    <3>1. Destroy(Process[r], {r}) /\ ~At(r, {"clear"})
      BY <2>2 DEF OpenFails, Close, At
    <3> QED
      BY <1>a, <1>b, <3>1, DestroyStep
  <2> QED
    BY <1>19, <2>1, <2>2
<1>20. ASSUME UNCHANGED vars
       PROVE  IInv'
  <2>1. /\ UNCHANGED << snapshots, stage, bound, opening, cache, realm >>
    BY <1>20 DEF vars, groupVars, schemaVars
  <2>2. ASSUME NEW r \in Accessors
        PROVE  PhaseOK(r)' /\ ColumnsOK(r)'
    BY <1>b, <2>1 DEF PhaseOK, ColumnsOK, At, Moving, Unopened, Still, Fits, latest,
                      Needless
  <2>3. \A p \in Processes : CacheOK(p)'
    BY <1>a, <2>1 DEF CacheOK, At, latest
  <2> QED
    BY <1>a, <2>2, <2>3 DEF IInv, Base
<1> QED
  BY <1>1, <1>2, <1>3, <1>4, <1>5, <1>6, <1>7, <1>8, <1>9, <1>10, <1>11, <1>13, <1>14,
     <1>15, <1>16, <1>17, <1>18, <1>19, <1>20 DEF Next, RealmStep

LEMMA IInvInit == Init => IInv
<1> SUFFICES ASSUME Init PROVE IInv
  OBVIOUS
<1>1. Base
  BY BaseInit
<1>2. /\ latest = 1 /\ snapshots[1] = [version |-> NotVersioned, schema |-> {}]
      /\ \A a \in Accessors : realm[a] = Closed /\ stage[a] = "Ready"
      /\ \A p \in Processes : cache[p] = NoCache
  BY DEF Init, GroupInit, latest
<1>4. ASSUME NEW r \in Accessors
      PROVE  PhaseOK(r) /\ ColumnsOK(r)
  <2>1. realm[r] = Closed /\ stage[r] = "Ready"
    BY <1>2
  <2> QED
    BY <2>1 DEF PhaseOK, ColumnsOK, At, Moving, Unopened, Still, Closed
<1>5. \A p \in Processes : CacheOK(p)
  BY <1>2 DEF CacheOK, NoCache
<1> QED
  BY <1>1, <1>4, <1>5 DEF IInv, Base

(* The types, and that whoever writes has the write lock and stands on the *)
(* latest snapshot, through openings, migrations and the end of processes  *)
(* at any time, which free the lock.                                       *)
THEOREM TypesCorrect == Spec => []TypeOK
<1>1. IInv => TypeOK
  BY DEF IInv
<1> QED
  BY <1>1, IInvInit, IInvStep, PTL DEF Spec

THEOREM SchemaOneWriter == Spec => []OneWriter
<1>1. IInv => OneWriter
  BY DEF IInv
<1> QED
  BY <1>1, IInvInit, IInvStep, PTL DEF Spec

(* The coordinator never offers a schema for a snapshot that has another.  *)
THEOREM CacheIsRight == Spec => []CacheRight
<1>1. ASSUME IInv, NEW p \in Processes, cache[p].present, ~Unsettled(p)
      PROVE  /\ \A v \in cache[p].min .. cache[p].max : snapshots[v].schema = cache[p].schema
             /\ \E v \in cache[p].min .. cache[p].max :
                   snapshots[v].version = cache[p].version
  <2>1. ASSUME NEW q \in Accessors, Process[q] = p, At(q, {"clear"})
        PROVE  FALSE
    <3>1. opening[p] = q /\ q # NoOne
      BY <1>1, <2>1, GroupAssumption DEF IInv, PhaseOK, At, Unopened
    <3> QED
      BY <1>1, <2>1, <3>1 DEF Unsettled, At
  <2> QED
    BY <1>1, <2>1 DEF IInv, CacheOK
<1>2. IInv => CacheRight
  BY <1>1 DEF CacheRight
<1> QED
  BY <1>2, IInvInit, IInvStep, PTL DEF Spec

(* A Realm in a transaction has the columns of its own snapshot.           *)
THEOREM ColumnsAreCurrent == Spec => []ColumnsCurrent
<1>1. ASSUME IInv, NEW r \in Accessors, Settled(r), stage[r] # "Ready"
      PROVE  Fits(r, bound[r])
  <2>1. ColumnsOK(r) /\ realm[r] \in Realm
    BY <1>1 DEF IInv, TypeOK
  <2>2. CASE realm[r].pc = "moved" /\ realm[r].then # "clear"
    BY <2>1, <2>2 DEF ColumnsOK, Moving, Realm
  <2>3. CASE realm[r].pc \in {"full", "applying", "open"}
    BY <1>1, <2>1, <2>3 DEF ColumnsOK, At
  <2> QED
    BY <1>1, <2>2, <2>3 DEF Settled
<1>2. IInv => ColumnsCurrent
  BY <1>1, SeenIsVersionSeen DEF ColumnsCurrent, Fits
<1> QED
  BY <1>2, IInvInit, IInvStep, PTL DEF Spec

(* Snapshots stay what they are.                                           *)
LEMMA FileGrows ==
    ASSUME IInv, [Next]_vars
    PROVE  /\ latest \in Nat /\ latest' \in Nat /\ latest <= latest'
           /\ \A v \in 1 .. latest : snapshots'[v] = snapshots[v]
           /\ snapshots' = snapshots \/ \E r \in Accessors : Apply(r) \/ CommitTransaction(r)
<1> DEFINE Grows == /\ latest \in Nat /\ latest' \in Nat /\ latest <= latest'
                    /\ \A v \in 1 .. latest : snapshots'[v] = snapshots[v]
<1>1. GroupTypeOK /\ latest \in Nat /\ realm \in [Accessors -> Realm]
  BY GroupAssumption DEF IInv, TypeOK, GroupTypeOK, Versions
<1>2. ASSUME snapshots' = snapshots
      PROVE  Grows
  BY <1>1, <1>2 DEF latest
<1>3. ASSUME NEW r \in Accessors, NEW c \in Contents, CommitAndContinueAsRead(r, c)
      PROVE  Grows
  <2>1. /\ latest' = latest + 1
        /\ \A v \in 1 .. latest : snapshots'[v] = snapshots[v]
    BY <1>1, <1>3, Committed DEF CommitAndContinueAsRead
  <2> QED
    BY <1>1, <2>1
<1>4. ASSUME NEW r \in Accessors, Apply(r)
      PROVE  Grows
  <2>1. Applied(realm[r].columns, realm[r].target) \in Contents
    BY <1>1, AppliedType DEF Realm
  <2> QED
    BY <1>3, <1>4, <2>1 DEF Apply
<1>5. ASSUME NEW r \in Accessors, CommitTransaction(r)
      PROVE  Grows
  <2>1. latest \in Versions /\ latest <= latest
    BY <1>1 DEF GroupTypeOK
  <2>2. snapshots[latest] \in Contents
    BY <1>1, <2>1, SnapshotIn
  <2> QED
    BY <1>3, <1>5, <2>2 DEF CommitTransaction
<1>6. ASSUME NEW r \in Accessors,
             \/ \E t \in Targets : Construct(r, t)
             \/ ReadFirst(r) \/ CacheFirst(r) \/ ReadSchema(r) \/ OpenAsIs(r)
             \/ (\E s \in Accessors : TakeSchema(r, s)) \/ UpdateSchema(r)
      PROVE  snapshots' = snapshots
  BY <1>6 DEF Construct, ReadFirst, CacheFirst, TakeSchema, UpdateSchema, ReadSchema,
              OpenAsIs, BeginRead, EndRead, groupVars
<1>7. ASSUME NEW r \in Accessors,
             \/ Promote(r) \/ LookAgain(r) \/ CacheNewSchema(r) \/ Clear(r)
             \/ ReadGroup(r) \/ BeginTransaction(r) \/ CancelTransaction(r)
             \/ (\E v \in Versions : Advance(r, v)) \/ Invalidate(r)
      PROVE  snapshots' = snapshots
  BY <1>7 DEF Promote, LookAgain, CacheNewSchema, Clear, ReadGroup, BeginTransaction,
              CancelTransaction, Advance, Invalidate, BeginRead, EndRead, AdvanceRead,
              PromoteToWrite, RollbackAndContinueAsRead, groupVars
<1>8. ASSUME NEW r \in Accessors, OpenFails(r) \/ Uncaught(r) \/ Close(r)
      PROVE  snapshots' = snapshots
  BY <1>8 DEF OpenFails, Uncaught, Close, Dies, Destroy
<1>9. ASSUME NEW p \in Processes, Dies(p)
      PROVE  snapshots' = snapshots
  BY <1>9 DEF Dies, Destroy
<1>10. UNCHANGED vars => snapshots' = snapshots
  BY DEF vars, groupVars
<1>11. snapshots' = snapshots \/ \E r \in Accessors : Apply(r) \/ CommitTransaction(r)
  BY <1>6, <1>7, <1>8, <1>9, <1>10 DEF Next, RealmStep
<1> QED
  BY <1>2, <1>4, <1>5, <1>11

(* A Realm that is about to update the schema holds the write lock, takes  *)
(* a version for that of the file that the present tables have had, and    *)
(* has found it neither newer than its own nor nothing to do.              *)
LEMMA AboutToUpdate ==
    ASSUME IInv, NEW r \in Accessors, realm[r].pc = "applying", OneVersionOfTables
    PROVE  /\ realm[r].version = snapshots[latest].version
           /\ realm[r].columns = snapshots[latest].schema
           /\ ~Needless(r) /\ ~InvalidVersion(realm[r].version, realm[r].target)
<1>1. PhaseOK(r) /\ ColumnsOK(r) /\ OneWriter
  BY DEF IInv
<1>2. stage[r] = "Writing" /\ realm[r].dynamic
  BY <1>1 DEF PhaseOK, At, Unopened
<1>3. /\ Fits(r, bound[r]) /\ ~Needless(r)
      /\ ~InvalidVersion(realm[r].version, realm[r].target)
  BY <1>1 DEF ColumnsOK, At
<1>4. bound[r] = latest
  BY <1>1, <1>2 DEF OneWriter
<1>5. VersionSeen(realm[r].version, latest)
  BY <1>2, <1>3, <1>4, SeenIsVersionSeen DEF Fits
<1>6. realm[r].version = snapshots[latest].version
  BY <1>5 DEF VersionSeen, OneVersionOfTables
<1> QED
  BY <1>3, <1>4, <1>6 DEF Fits

(* No opening, by whatever process with whatever version, lowers the       *)
(* schema version of a file whose tables have had one version only.        *)
THEOREM VersionsRise == Spec => VersionNeverFalls
<1>1. ASSUME IInv, [Next]_vars, latest < latest', OneVersionOfTables
      PROVE  snapshots[latest].version <= snapshots'[latest'].version
  <2>1. /\ GroupTypeOK /\ latest \in Nat /\ latest \in Versions /\ latest <= latest
        /\ realm \in [Accessors -> Realm]
    BY <1>1, GroupAssumption DEF IInv, TypeOK, GroupTypeOK, Versions
  <2>2. snapshots[latest].version \in Nat /\ snapshots[latest] \in Contents
    BY <2>1, SnapshotType
  <2>3. PICK r \in Accessors : Apply(r) \/ CommitTransaction(r)
    BY <1>1, <2>1, FileGrows DEF latest
  <2>4. CASE Apply(r)
    <3>1. realm[r] \in Realm /\ realm[r].target \in Targets /\ realm[r].columns \in Schemas
      BY <2>1 DEF Realm
    <3>2. /\ Applied(realm[r].columns, realm[r].target) \in Contents
          /\ Applied(realm[r].columns, realm[r].target).version = realm[r].target.version
          /\ realm[r].target.version \in Nat
      BY <3>1, AppliedType
    <3>3. snapshots'[latest'].version = realm[r].target.version
      BY <2>1, <2>4, <3>2, Committed DEF Apply
    <3>4. /\ realm[r].version = snapshots[latest].version
          /\ ~InvalidVersion(realm[r].version, realm[r].target)
      BY <1>1, <2>4, AboutToUpdate DEF Apply
    <3> QED
      BY <2>2, <3>2, <3>3, <3>4 DEF InvalidVersion, NotVersioned
  <2>5. CASE CommitTransaction(r)
    <3>1. snapshots'[latest'] = snapshots[latest]
      BY <2>1, <2>2, <2>5, Committed DEF CommitTransaction
    <3> QED
      BY <2>2, <3>1
  <2> QED
    BY <2>3, <2>4, <2>5
<1>2. IInv /\ [Next]_vars =>
         [latest < latest' /\ OneVersionOfTables =>
             snapshots[latest].version <= snapshots'[latest'].version]_vars
  BY <1>1
<1> QED
  BY <1>2, IInvInit, IInvStep, PTL DEF Spec, VersionNeverFalls

(* A process that has waited for the write lock does not do again what     *)
(* another has done meanwhile to these tables.                             *)
THEOREM MigrationHappensOnce == Spec => MigratedOnce
<1>1. ASSUME IInv, NEW r \in Accessors, realm[r].pc = "applying", OneVersionOfTables
      PROVE  ~NothingToDo(snapshots[latest].version, snapshots[latest].schema,
                          realm[r].target)
  BY <1>1, AboutToUpdate DEF Needless
<1>2. IInv /\ [Next]_vars =>
         [\A r \in Accessors :
             Updates(r) /\ OneVersionOfTables =>
                ~NothingToDo(snapshots[latest].version, snapshots[latest].schema,
                             realm[r].target)]_vars
  BY <1>1 DEF Updates
<1> QED
  BY <1>2, IInvInit, IInvStep, PTL DEF Spec, MigratedOnce

-----------------------------------------------------------------------------
(* No table ever goes.                                                     *)
TablesStay ==
    \A u, v \in 1 .. latest : u <= v =>
        TablesOf(snapshots[u].schema) \subseteq TablesOf(snapshots[v].schema)

HasFields(r, v) == realm[r].target.schema \subseteq snapshots[v].schema
HasTables(r, v) ==
    TablesOf(realm[r].target.schema) \subseteq TablesOf(snapshots[v].schema)

(* Where a Realm that is open, or nearly so, has its fields; elsewhere its *)
(* tables, and no field missing from a table that its columns have.        *)
FieldsOK(r) ==
    /\ At(r, {"clear"}) \/ Moving(r, {"clear", "opened", "open"})
          \/ (At(r, {"open"}) /\ stage[r] # "Ready") => HasFields(r, bound[r])
    /\ ~realm[r].dynamic => HasTables(r, latest)
    /\ At(r, {"begun"}) /\ ~realm[r].dynamic => HasTables(r, bound[r])
    /\ At(r, {"begun", "open"}) /\ ~realm[r].dynamic
          => Extra(realm[r].target.schema, realm[r].columns) = {}

FieldsInv == TablesStay /\ \A r \in Accessors : FieldsOK(r)

LEMMA FieldsKept ==
    ASSUME latest \in Nat, latest' \in Nat, latest <= latest', latest # 0, NEW q \in Accessors,
           \A v \in 1 .. latest : snapshots'[v] = snapshots[v],
           bound[q] \in 1 .. latest, FieldsOK(q), TablesStay',
           realm'[q] = realm[q], stage'[q] = stage[q], bound'[q] = bound[q]
    PROVE  FieldsOK(q)'
<1>1. latest \in 1 .. latest /\ latest \in 1 .. latest' /\ latest' \in 1 .. latest'
  OBVIOUS
<1>2. snapshots'[latest] = snapshots[latest] /\ snapshots'[bound[q]] = snapshots[bound[q]]
  BY <1>1
<1>3. TablesOf(snapshots'[latest].schema) \subseteq TablesOf(snapshots'[latest'].schema)
  BY <1>1 DEF TablesStay
<1>4. HasTables(q, latest) => HasTables(q, latest)'
  BY <1>2, <1>3 DEF HasTables
<1> QED
  BY <1>2, <1>4 DEF FieldsOK, HasFields, HasTables, At, Moving

(* A step that leaves the other Realms alone.                              *)
LEMMA FieldsStep ==
    ASSUME IInv, FieldsInv, [Next]_vars, NEW r \in Accessors, TablesStay', FieldsOK(r)',
           \A q \in Accessors \ {r} : /\ realm'[q] = realm[q]
                                      /\ stage'[q] = stage[q] /\ bound'[q] = bound[q]
    PROVE  FieldsInv'
<1> SUFFICES ASSUME NEW q \in Accessors \ {r} PROVE FieldsOK(q)'
  BY DEF FieldsInv
<1>1. bound[q] \in 1 .. latest /\ latest # 0
  BY GroupAssumption DEF IInv, TypeOK, GroupTypeOK, OneWriter, Versions
<1> QED
  BY <1>1, FileGrows, FieldsKept DEF FieldsInv

(* A commit of contents that have the tables of the latest snapshot.       *)
LEMMA TablesStayCommit ==
    ASSUME IInv, TablesStay, NEW r \in Accessors, NEW c \in Contents,
           CommitAndContinueAsRead(r, c),
           TablesOf(snapshots[latest].schema) \subseteq TablesOf(c.schema)
    PROVE  TablesStay'
<1>1. GroupTypeOK /\ latest \in Nat \ {0}
  BY GroupAssumption DEF IInv, TypeOK, GroupTypeOK, Versions
<1>2. /\ latest' = latest + 1 /\ snapshots'[latest + 1] = c
      /\ \A v \in 1 .. latest : snapshots'[v] = snapshots[v]
  BY <1>1, Committed DEF CommitAndContinueAsRead
<1> SUFFICES ASSUME NEW u \in 1 .. latest + 1, NEW v \in 1 .. latest + 1, u <= v
             PROVE  TablesOf(snapshots'[u].schema) \subseteq TablesOf(snapshots'[v].schema)
  BY <1>2 DEF TablesStay
<1>3. CASE v \in 1 .. latest
  <2>1. u \in 1 .. latest
    BY <1>1, <1>3
  <2> QED
    BY <1>2, <1>3, <2>1 DEF TablesStay
<1>4. CASE v = latest + 1 /\ u = latest + 1
  BY <1>4
<1>5. CASE v = latest + 1 /\ u \in 1 .. latest
  <2>1. u <= latest /\ latest \in 1 .. latest
    BY <1>1, <1>5
  <2>2. TablesOf(snapshots[u].schema) \subseteq TablesOf(snapshots[latest].schema)
    BY <1>5, <2>1 DEF TablesStay
  <2> QED
    BY <1>2, <1>5, <2>2
<1> QED
  BY <1>1, <1>3, <1>4, <1>5

(* An update of the schema drops columns of the tables it is about only.   *)
LEMMA AppliedKeepsTables ==
    ASSUME NEW schema \in Schemas, NEW target \in Targets
    PROVE  TablesOf(schema) \subseteq TablesOf(Applied(schema, target).schema)
<1> SUFFICES ASSUME NEW f \in schema
             PROVE  f[1] \in TablesOf(Applied(schema, target).schema)
  BY DEF TablesOf
<1>1. CASE f \in Extra(schema, target.schema)
  <2>1. PICK g \in target.schema : g[1] = f[1]
    BY <1>1 DEF Extra, TablesOf
  <2> QED
    BY <2>1, AppliedType DEF TablesOf
<1>2. CASE f \notin Extra(schema, target.schema)
  BY <1>2 DEF Applied, TablesOf
<1> QED
  BY <1>1, <1>2

(* With its tables there and no field missing from them, a Realm has its   *)
(* fields; with its fields it has its tables, and none is missing.         *)
LEMMA TablesAndColumns ==
    ASSUME NEW target, NEW columns
    PROVE  target \subseteq columns
              <=> /\ TablesOf(target) \subseteq TablesOf(columns)
                  /\ Extra(target, columns) = {}
  BY DEF TablesOf, Extra

LEMMA FieldsInvStep == IInv /\ FieldsInv /\ [Next]_vars /\ IInv' => FieldsInv'
<1> SUFFICES ASSUME IInv, FieldsInv, [Next]_vars, IInv' PROVE FieldsInv'
  OBVIOUS
<1>a. /\ Base /\ GroupTypeOK /\ TablesStay
      /\ realm \in [Accessors -> Realm]
      /\ stage \in [Accessors -> Stages] /\ bound \in [Accessors -> Versions]
      /\ latest \in Versions /\ latest \in Nat /\ latest \in 1 .. latest
  BY GroupAssumption DEF IInv, Base, TypeOK, GroupTypeOK, Versions, FieldsInv
<1>b. ASSUME NEW r \in Accessors
      PROVE  /\ PhaseOK(r) /\ ColumnsOK(r) /\ FieldsOK(r)
             /\ realm[r] \in Realm /\ bound[r] \in 1 .. latest /\ bound[r] \in Nat
  BY <1>a DEF IInv, OneWriter, Versions, FieldsInv
<1>c. snapshots' = snapshots => TablesStay' /\ latest' = latest
  BY <1>a DEF TablesStay, latest
<1>d. ASSUME NEW r \in Accessors, NEW v \in 1 .. latest, HasFields(r, v)
      PROVE  /\ HasTables(r, v) /\ HasTables(r, latest)
             /\ Extra(realm[r].target.schema, snapshots[v].schema) = {}
  <2>1. /\ HasTables(r, v)
        /\ Extra(realm[r].target.schema, snapshots[v].schema) = {}
    BY <1>d DEF HasFields, HasTables, TablesOf, Extra
  <2>2. TablesOf(snapshots[v].schema) \subseteq TablesOf(snapshots[latest].schema)
    BY <1>a DEF TablesStay
  <2> QED
    BY <2>1, <2>2 DEF HasTables
(* A Realm being opened has no fields yet.                                 *)
<1>1. ASSUME NEW r \in Accessors,
             \/ \E t \in Targets : Construct(r, t)
             \/ ReadFirst(r) \/ CacheFirst(r) \/ UpdateSchema(r) \/ Promote(r)
      PROVE  FieldsInv'
  <2>1. snapshots' = snapshots
    BY <1>1 DEF Construct, ReadFirst, CacheFirst, UpdateSchema, Promote, BeginRead,
                EndRead, PromoteToWrite, groupVars
  <2>2. \A q \in Accessors \ {r} : /\ realm'[q] = realm[q]
                                   /\ stage'[q] = stage[q] /\ bound'[q] = bound[q]
    BY <1>a, <1>1 DEF Construct, ReadFirst, CacheFirst, UpdateSchema, Promote, BeginRead,
                      EndRead, PromoteToWrite, groupVars
  <2>3. realm'[r].dynamic /\ ~Moving(r, {"clear", "opened", "open"})'
        /\ ~At(r, {"clear", "open"})'
    <3>1. CASE \E t \in Targets : Construct(r, t)
      <4>1. PICK t \in Targets : Construct(r, t)
        BY <3>1
      <4>2. CASE cache[Process[r]].present
        <5>1. realm' = [realm EXCEPT ![r] =
                  [Closed EXCEPT !.pc = "constructed", !.target = t,
                                 !.columns = cache[Process[r]].schema,
                                 !.version = cache[Process[r]].version,
                                 !.read = cache[Process[r]].max]]
          BY <4>1, <4>2 DEF Construct
        <5>2. realm'[r].dynamic /\ realm'[r].pc = "constructed"
          BY <1>a, <5>1 DEF Closed
        <5> QED
          BY <5>2 DEF Moving, At
      <4>3. CASE ~cache[Process[r]].present
        <5>1. realm' = [realm EXCEPT ![r] = [Closed EXCEPT !.pc = "reading", !.target = t]]
          BY <4>1, <4>3 DEF Construct
        <5>2. realm'[r].dynamic /\ realm'[r].pc = "reading"
          BY <1>a, <5>1 DEF Closed
        <5> QED
          BY <5>2 DEF Moving, At
      <4> QED
        BY <4>2, <4>3
    <3>2. CASE ReadFirst(r) \/ CacheFirst(r) \/ UpdateSchema(r)
      <4>1. realm[r].dynamic
        BY <1>b, <3>2 DEF ReadFirst, CacheFirst, UpdateSchema, PhaseOK, Unopened, At
      <4>2. realm'[r].dynamic /\ realm'[r].pc \in {"read", "constructed", "begun"}
        <5>1. CASE ReadFirst(r)
          <6>1. realm' = [realm EXCEPT ![r] =
                    [realm[r] EXCEPT !.pc = "read", !.read = latest,
                                     !.columns = snapshots[latest].schema,
                                     !.version = snapshots[latest].version]]
            BY <5>1 DEF ReadFirst
          <6> QED
            BY <1>a, <1>b, <4>1, <6>1 DEF Realm
        <5>2. CASE CacheFirst(r)
          <6>1. realm' = [realm EXCEPT ![r] = [realm[r] EXCEPT !.pc = "constructed"]]
            BY <5>2 DEF CacheFirst
          <6> QED
            BY <1>a, <1>b, <4>1, <6>1 DEF Realm
        <5>3. CASE UpdateSchema(r)
          <6>1. realm' = [realm EXCEPT ![r] = [realm[r] EXCEPT !.pc = "begun"]]
            BY <5>3 DEF UpdateSchema
          <6> QED
            BY <1>a, <1>b, <4>1, <6>1 DEF Realm
        <5> QED
          BY <3>2, <5>1, <5>2, <5>3
      <4> QED
        BY <4>2 DEF Moving, At
    <3>3. CASE Promote(r)
      <4> DEFINE moved == Moved(r, latest, "applying")
      <4>1. Fits(r, bound[r]) /\ realm[r].read = bound[r] /\ ~realm[r].news
            /\ realm[r].dynamic
        BY <1>b, <3>3 DEF Promote, ColumnsOK, PhaseOK, At, Still, Phases, Unopened
      <4>2. bound[r] <= latest
        BY <1>b
      <4>3. moved.dynamic /\ moved.then = "applying"
        <5>1. latest <= latest
          BY <1>a
        <5> QED
          BY <1>a, <4>1, <4>2, <5>1, MovedFacts
      <4>4. moved \in Realm
        <5>1. snapshots[latest].version \in Nat /\ snapshots[latest].schema \in Schemas
          <6>1. latest \in Versions /\ latest <= latest
            BY <1>a
          <6> QED
            BY <1>a, <6>1, SnapshotType
        <5> QED
          BY <1>b, <5>1 DEF Moved, Realm, Phases
      <4>5. realm' = [realm EXCEPT ![r] =
                [moved EXCEPT !.pc = IF moved.news THEN "promoted" ELSE "moved"]]
        BY <3>3 DEF Promote
      <4> QED
        <5> HIDE DEF moved
        <5>1. realm'[r].dynamic /\ realm'[r].then = "applying"
              /\ realm'[r].pc \in {"promoted", "moved"}
          BY <1>a, <4>3, <4>4, <4>5 DEF Realm
        <5> QED
          BY <5>1 DEF Moving, At
    <3> QED
      BY <1>1, <3>1, <3>2, <3>3
  <2>4. FieldsOK(r)'
    BY <2>3 DEF FieldsOK, At
  <2> QED
    BY <1>c, <2>1, <2>2, <2>4, FieldsStep
<1>2. ASSUME NEW r \in Accessors, NEW s \in Accessors, TakeSchema(r, s)
      PROVE  FieldsInv'
  <2>1. /\ UNCHANGED << snapshots, stage, bound >> /\ stage[r] = "Ready"
        /\ ~realm[s].dynamic
        /\ ~NeedsMigration(realm[r].columns, realm[s].target.schema)
    BY <1>b, <1>2 DEF TakeSchema, groupVars, Siblings, PhaseOK, At
  <2>2. /\ realm'[r].pc = "open" /\ realm'[r].target = realm[s].target
        /\ realm'[r].columns = realm[r].columns
        /\ \A q \in Accessors \ {r} : realm'[q] = realm[q]
    BY <1>a, <1>b, <1>2 DEF TakeSchema, Realm
  <2>3. HasTables(s, latest)
    BY <1>b, <2>1 DEF FieldsOK
  <2>4. Extra(realm[s].target.schema, realm[r].columns) = {}
    BY <2>1 DEF NeedsMigration, Missing, Extra
  <2>5. FieldsOK(r)'
    BY <1>c, <2>1, <2>2, <2>3, <2>4 DEF FieldsOK, HasTables, At, Moving
  <2> QED
    BY <1>c, <2>1, <2>2, <2>5, FieldsStep
<1>3. ASSUME NEW r \in Accessors, ReadSchema(r)
      PROVE  FieldsInv'
  <2>1. UNCHANGED << snapshots, stage, bound >> /\ stage[r] = "Reading"
    BY <1>b, <1>3 DEF ReadSchema, groupVars, PhaseOK, At
  <2> DEFINE next == IF realm[r].dynamic THEN "full" ELSE "open"
  <2>2. /\ realm'[r].dynamic = realm[r].dynamic /\ realm'[r].target = realm[r].target
        /\ realm'[r].pc = next
        /\ realm'[r].columns = snapshots[bound[r]].schema
        /\ \A q \in Accessors \ {r} : realm'[q] = realm[q]
    <3>1. CASE realm[r].read = bound[r]
      <4>1. realm' = [realm EXCEPT ![r] = [realm[r] EXCEPT !.pc = next]]
        BY <1>3, <3>1 DEF ReadSchema
      <4>2. realm[r].columns = snapshots[bound[r]].schema
        BY <1>b, <1>3, <3>1 DEF ReadSchema, ColumnsOK, At, Fits
      <4> QED
        BY <1>a, <1>b, <4>1, <4>2 DEF Realm
    <3>2. CASE realm[r].read # bound[r]
      <4>1. realm' = [realm EXCEPT ![r] =
                [realm[r] EXCEPT !.pc = next, !.read = bound[r],
                                 !.columns = snapshots[bound[r]].schema,
                                 !.version = snapshots[bound[r]].version]]
        BY <1>3, <3>2 DEF ReadSchema
      <4> QED
        BY <1>a, <1>b, <4>1 DEF Realm
    <3> QED
      BY <3>1, <3>2
  <2>4. ASSUME ~realm[r].dynamic
        PROVE  /\ HasTables(r, latest)
               /\ Extra(realm[r].target.schema, snapshots[bound[r]].schema) = {}
               /\ HasFields(r, bound[r])
    <3>1. At(r, {"begun"})
      BY <1>3 DEF ReadSchema, At
    <3>2. HasTables(r, latest) /\ HasTables(r, bound[r])
          /\ Extra(realm[r].target.schema, realm[r].columns) = {}
      BY <1>b, <2>4, <3>1 DEF FieldsOK, At
    <3>3. Extra(realm[r].target.schema, snapshots[bound[r]].schema) = {}
      <4>1. realm[r].read = bound[r] => realm[r].columns = snapshots[bound[r]].schema
        BY <1>b, <3>1 DEF ColumnsOK, Fits, At
      <4>2. realm[r].read # bound[r]
              => Extra(realm[r].target.schema, snapshots[bound[r]].schema) = {}
        BY <1>3, <2>4 DEF ReadSchema
      <4> QED
        BY <3>2, <4>1, <4>2
    <3> QED
      BY <3>2, <3>3, TablesAndColumns DEF HasTables, HasFields
  <2>5. FieldsOK(r)'
    <3>1. CASE realm[r].dynamic
      BY <2>2, <3>1 DEF FieldsOK, At, Moving
    <3>2. CASE ~realm[r].dynamic
      BY <1>c, <2>1, <2>2, <2>4, <3>2 DEF FieldsOK, HasTables, HasFields, At, Moving
    <3> QED
      BY <3>1, <3>2
  <2> QED
    BY <1>c, <2>1, <2>2, <2>5, FieldsStep
(* A Realm that goes on with its target and its columns, and comes to      *)
(* where they are.                                                         *)
<1>e. ASSUME NEW r \in Accessors, UNCHANGED snapshots, HasFields(r, bound'[r]),
             bound'[r] \in 1 .. latest, realm'[r].target = realm[r].target,
             At(r, {"open"})' => realm'[r].columns = snapshots[bound'[r]].schema,
             ~At(r, {"begun"})',
             \A q \in Accessors \ {r} : /\ realm'[q] = realm[q]
                                        /\ stage'[q] = stage[q] /\ bound'[q] = bound[q]
      PROVE  FieldsInv'
  <2>1. HasTables(r, latest)
        /\ Extra(realm[r].target.schema, snapshots[bound'[r]].schema) = {}
    BY <1>d, <1>e
  <2>2. HasFields(r, bound[r])' /\ HasTables(r, latest)'
    BY <1>c, <1>e, <2>1 DEF HasFields, HasTables
  <2>3. At(r, {"open"})' => Extra(realm'[r].target.schema, realm'[r].columns) = {}
    BY <1>e, <2>1
  <2>4. FieldsOK(r)'
    BY <1>e, <2>2, <2>3 DEF FieldsOK, At
  <2> QED
    BY <1>c, <1>e, <2>4, FieldsStep
<1>4. ASSUME NEW r \in Accessors, OpenAsIs(r)
      PROVE  FieldsInv'
  <2>1. Fits(r, bound[r]) /\ Needless(r)
    BY <1>b, <1>4 DEF OpenAsIs, ColumnsOK, At
  <2>2. HasFields(r, bound[r])
    BY <2>1 DEF Fits, Needless, NothingToDo, Missing, HasFields
  <2>3. /\ UNCHANGED << snapshots, bound >>
        /\ realm'[r].target = realm[r].target /\ realm'[r].columns = realm[r].columns
        /\ realm'[r].pc = "open"
        /\ \A q \in Accessors \ {r} : realm'[q] = realm[q] /\ stage'[q] = stage[q]
    BY <1>a, <1>b, <1>4 DEF OpenAsIs, EndRead, Realm
  <2> QED
    BY <1>b, <1>e, <2>1, <2>2, <2>3 DEF At, Fits
<1>5. ASSUME NEW r \in Accessors, LookAgain(r)
      PROVE  FieldsInv'
  <2>1. /\ UNCHANGED << snapshots, bound >>
        /\ \A q \in Accessors \ {r} : realm'[q] = realm[q] /\ stage'[q] = stage[q]
    BY <1>a, <1>5 DEF LookAgain, RollbackAndContinueAsRead, groupVars
  <2>2. Fits(r, bound[r]) /\ realm[r].then = "applying" /\ realm[r].dynamic
    BY <1>b, <1>5 DEF LookAgain, ColumnsOK, PhaseOK, Unopened, At
  <2>3. CASE Needless(r)
    <3>1. HasFields(r, bound[r])
      BY <2>2, <2>3 DEF Fits, Needless, NothingToDo, Missing, HasFields
    <3>2. realm'[r].target = realm[r].target /\ realm'[r].pc = "moved"
      <4>1. realm' = [realm EXCEPT ![r] = [realm[r] EXCEPT !.pc = "moved",
                                               !.then = "opened", !.dynamic = FALSE]]
        BY <1>5, <2>3 DEF LookAgain
      <4> QED
        BY <1>a, <1>b, <4>1 DEF Realm
    <3> QED
      BY <1>b, <1>e, <2>1, <3>1, <3>2 DEF At
  <2>4. CASE ~Needless(r)
    <3>1. realm'[r].dynamic /\ realm'[r].then = "applying" /\ realm'[r].pc = "moved"
      BY <1>a, <1>b, <1>5, <2>2, <2>4 DEF LookAgain, Realm
    <3>2. FieldsOK(r)'
      BY <3>1 DEF FieldsOK, At, Moving
    <3> QED
      BY <1>c, <2>1, <3>2, FieldsStep
  <2> QED
    BY <2>3, <2>4
<1>6. ASSUME NEW r \in Accessors, Apply(r)
      PROVE  FieldsInv'
  <2> DEFINE after == Applied(realm[r].columns, realm[r].target)
  <2>1. /\ Fits(r, bound[r]) /\ stage[r] = "Writing" /\ realm[r].dynamic
        /\ realm[r].columns \in Schemas /\ realm[r].target \in Targets
    BY <1>b, <1>6 DEF Apply, ColumnsOK, PhaseOK, Unopened, At, Realm
  <2>2. bound[r] = latest
    BY <2>1 DEF IInv, OneWriter
  <2>3. /\ after \in Contents /\ realm[r].target.schema \subseteq after.schema
        /\ TablesOf(snapshots[latest].schema) \subseteq TablesOf(after.schema)
    BY <2>1, <2>2, AppliedType, AppliedKeepsTables DEF Fits
  <2>4. TablesStay'
    BY <1>a, <1>6, <2>3, TablesStayCommit DEF Apply
  <2>5. snapshots'[bound'[r]] = after
    BY <1>a, <1>6, <2>3, Committed DEF Apply, CommitAndContinueAsRead
  <2>6. /\ realm'[r].target = realm[r].target /\ realm'[r].dynamic
        /\ realm'[r].pc = "moved"
        /\ \A q \in Accessors \ {r} : /\ realm'[q] = realm[q]
                                      /\ stage'[q] = stage[q] /\ bound'[q] = bound[q]
    BY <1>a, <1>b, <1>6, <2>1 DEF Apply, CommitAndContinueAsRead, Realm
  <2>7. FieldsOK(r)'
    BY <2>3, <2>5, <2>6 DEF FieldsOK, HasFields, At
  <2> QED
    BY <2>4, <2>6, <2>7, FieldsStep
<1>7. ASSUME NEW r \in Accessors, CacheNewSchema(r)
      PROVE  FieldsInv'
  <2>1. /\ UNCHANGED << snapshots, bound >>
        /\ \A q \in Accessors \ {r} : realm'[q] = realm[q] /\ stage'[q] = stage[q]
    BY <1>a, <1>7 DEF CacheNewSchema, EndRead, groupVars
  <2>2. /\ realm'[r].target = realm[r].target /\ realm'[r].columns = realm[r].columns
        /\ realm'[r].dynamic = realm[r].dynamic /\ realm'[r].then = "open"
        /\ realm'[r].pc = IF realm[r].then = "opened" THEN "open" ELSE realm[r].then
        /\ At(r, {"moved"})
        /\ realm[r].then \in {"applying", "clear", "opened", "open"}
    BY <1>a, <1>b, <1>7 DEF CacheNewSchema, Realm, At
  <2>3. CASE realm[r].then = "applying"
    <3>1. realm'[r].dynamic /\ realm'[r].pc = "applying"
      BY <1>b, <2>2, <2>3 DEF PhaseOK, Moving, At
    <3>2. FieldsOK(r)'
      BY <3>1 DEF FieldsOK, At, Moving
    <3> QED
      BY <1>c, <2>1, <3>2, FieldsStep
  <2>4. CASE realm[r].then # "applying"
    <3>1. HasFields(r, bound[r])
      BY <1>b, <2>2, <2>4 DEF FieldsOK, Moving, At
    <3>2. realm'[r].pc = "open" => realm'[r].columns = snapshots[bound[r]].schema
      BY <1>b, <2>2, <2>4 DEF ColumnsOK, Moving, At, Fits
    <3> QED
      BY <1>b, <1>e, <2>1, <2>2, <2>4, <3>1, <3>2 DEF At
  <2> QED
    BY <2>3, <2>4
<1>8. ASSUME NEW r \in Accessors, Clear(r)
      PROVE  FieldsInv'
  <2>1. /\ UNCHANGED << snapshots, bound >>
        /\ \A q \in Accessors \ {r} : realm'[q] = realm[q] /\ stage'[q] = stage[q]
        /\ realm'[r].target = realm[r].target /\ realm'[r].pc = "open"
        /\ realm'[r].columns = snapshots[bound[r]].schema
    BY <1>a, <1>b, <1>8 DEF Clear, EndRead, Realm
  <2>2. HasFields(r, bound[r])
    BY <1>b, <1>8 DEF Clear, FieldsOK, At
  <2> QED
    BY <1>b, <1>e, <2>1, <2>2 DEF At
<1>9. ASSUME NEW r \in Accessors, ReadGroup(r)
      PROVE  FieldsInv'
  <2>1. /\ UNCHANGED snapshots /\ bound'[r] = latest
        /\ realm'[r] = [realm[r] EXCEPT !.pc = "begun"] /\ At(r, {"open"})
        /\ \A q \in Accessors \ {r} : /\ realm'[q] = realm[q]
                                      /\ stage'[q] = stage[q] /\ bound'[q] = bound[q]
    BY <1>a, <1>9 DEF ReadGroup, BeginRead, At
  <2>2. /\ realm'[r].target = realm[r].target /\ realm'[r].columns = realm[r].columns
        /\ realm'[r].pc = "begun" /\ ~realm[r].dynamic
    BY <1>b, <2>1 DEF Realm, PhaseOK
  <2>3. HasTables(r, latest) /\ Extra(realm[r].target.schema, realm[r].columns) = {}
    BY <1>b, <2>1, <2>2 DEF FieldsOK, At
  <2>4. FieldsOK(r)'
    BY <1>c, <2>1, <2>2, <2>3 DEF FieldsOK, HasTables, At, Moving
  <2> QED
    BY <1>c, <2>1, <2>4, FieldsStep
<1>10. ASSUME NEW r \in Accessors, NEW v \in Versions, v <= latest, bound[r] <= v,
              At(r, {"open"}), ValidAdvance(bound[r], v), UNCHANGED snapshots,
              stage[r] = "Reading", bound'[r] = v,
              realm' = [realm EXCEPT ![r] = Moved(r, v, "open")],
              \A q \in Accessors \ {r} : stage'[q] = stage[q] /\ bound'[q] = bound[q]
       PROVE  FieldsInv'
  <2>1. v \in 1 .. latest /\ v \in bound[r] .. v /\ bound[r] \in bound[r] .. v
    BY <1>a, <1>b, <1>10 DEF Versions
  <2>2. HasFields(r, bound[r])
    BY <1>b, <1>10 DEF FieldsOK, At
  <2>3. HasFields(r, v)
    BY <1>10, <2>1, <2>2 DEF ValidAdvance, HasFields
  <2>4. Fits(r, bound[r]) /\ realm[r].read = bound[r] /\ ~realm[r].news
    BY <1>b, <1>10 DEF ColumnsOK, At, Still, Phases
  <2> DEFINE moved == Moved(r, v, "open")
  <2>5. realm'[r] = moved
    BY <1>a, <1>10
  <2>6. moved.pc = "moved" /\ moved.target = realm[r].target
    <3> HIDE DEF moved
    <3> QED
      BY <1>a, <1>10, <2>4, MovedFacts DEF moved
  <2>7. realm'[r].pc = "moved" /\ realm'[r].target = realm[r].target
    BY <2>5, <2>6
  <2>8. \A q \in Accessors \ {r} : realm'[q] = realm[q]
    BY <1>a, <1>10
  <2> HIDE DEF moved
  <2> QED
    BY <1>e, <1>10, <2>1, <2>3, <2>7, <2>8 DEF At
<1>11. ASSUME NEW r \in Accessors,
              BeginTransaction(r) \/ \E v \in Versions : Advance(r, v)
       PROVE  FieldsInv'
  <2>1. CASE BeginTransaction(r)
    <3>1. bound[r] <= latest /\ latest <= latest
      BY <1>a, <1>b
    <3> QED
      BY <1>a, <1>10, <2>1, <3>1 DEF BeginTransaction, PromoteToWrite, At
  <2>2. ASSUME NEW v \in Versions, Advance(r, v)
        PROVE  FieldsInv'
    <3>1. bound[r] <= v /\ v <= latest
      BY <1>a, <1>b, <2>2 DEF Advance, Versions
    <3> QED
      BY <1>a, <1>10, <2>2, <3>1 DEF Advance, AdvanceRead, At
  <2> QED
    BY <1>11, <2>1, <2>2
<1>12. ASSUME NEW r \in Accessors, CommitTransaction(r)
       PROVE  FieldsInv'
  <2>1. stage[r] = "Writing" /\ HasFields(r, bound[r])
    BY <1>b, <1>12 DEF CommitTransaction, CommitAndContinueAsRead, FieldsOK, At
  <2>2. bound[r] = latest
    BY <2>1 DEF IInv, OneWriter
  <2>3. snapshots[latest] \in Contents
    BY <1>a, SnapshotIn DEF Versions
  <2>4. TablesStay'
    BY <1>a, <1>12, <2>3, TablesStayCommit DEF CommitTransaction
  <2>5. snapshots'[bound'[r]] = snapshots[latest] /\ bound'[r] = latest'
    BY <1>a, <1>12, <2>3, Committed DEF CommitTransaction, CommitAndContinueAsRead
  <2>6. /\ realm'[r].target = realm[r].target /\ realm'[r].pc = "moved"
        /\ \A q \in Accessors \ {r} : /\ realm'[q] = realm[q]
                                      /\ stage'[q] = stage[q] /\ bound'[q] = bound[q]
    BY <1>a, <1>b, <1>12 DEF CommitTransaction, CommitAndContinueAsRead, Realm
  <2>7. HasFields(r, bound[r])' /\ HasTables(r, latest)'
    <3>1. HasFields(r, latest) /\ HasTables(r, latest)
      BY <1>a, <1>d, <2>1, <2>2
    <3>2. snapshots'[latest'] = snapshots[latest] /\ bound'[r] = latest'
      BY <2>5
    <3> QED
      BY <2>6, <3>1, <3>2 DEF HasFields, HasTables
  <2>8. FieldsOK(r)'
    BY <2>6, <2>7 DEF FieldsOK, At
  <2> QED
    BY <2>4, <2>6, <2>8, FieldsStep
<1>13. ASSUME NEW r \in Accessors, CancelTransaction(r) \/ Invalidate(r)
       PROVE  FieldsInv'
  <2>1. /\ UNCHANGED << snapshots, bound, realm >> /\ At(r, {"open"})
        /\ \A q \in Accessors \ {r} : stage'[q] = stage[q]
        /\ stage[r] # "Ready"
    BY <1>a, <1>13 DEF CancelTransaction, Invalidate, RollbackAndContinueAsRead, EndRead,
                       schemaVars, At
  <2>2. HasFields(r, bound[r]) /\ Fits(r, bound[r])
    BY <1>b, <2>1 DEF FieldsOK, ColumnsOK, At
  <2> QED
    BY <1>b, <1>e, <2>1, <2>2 DEF At, Fits
<1>14. ASSUME NEW p \in Processes, NEW gone \in SUBSET Accessors, Destroy(p, gone)
       PROVE  FieldsInv'
  <2>1. snapshots' = snapshots
    BY <1>14 DEF Destroy
  <2>2. ASSUME NEW q \in Accessors
        PROVE  FieldsOK(q)'
    <3>1. CASE q \in gone
      <4>1. realm'[q].pc = "closed" /\ realm'[q].dynamic
        BY <1>14, <3>1 DEF Destroy, Closed
      <4> QED
        BY <4>1 DEF FieldsOK, At, Moving
    <3>2. CASE q \notin gone
      <4>1. realm'[q] = realm[q] /\ stage'[q] = stage[q] /\ bound'[q] = bound[q]
        BY <1>14, <3>2 DEF Destroy
      <4> QED
        BY <1>b, <1>c, <2>1, <4>1 DEF FieldsOK, HasFields, HasTables, At, Moving
    <3> QED
      BY <3>1, <3>2
  <2> QED
    BY <1>c, <2>1, <2>2 DEF FieldsInv
<1>15. ASSUME NEW p \in Processes, Dies(p)
       PROVE  FieldsInv'
  BY <1>14, <1>15 DEF Dies
<1>16. ASSUME NEW r \in Accessors, OpenFails(r) \/ Uncaught(r) \/ Close(r)
       PROVE  FieldsInv'
  BY <1>14, <1>15, <1>16 DEF OpenFails, Uncaught, Close, Processes
<1>17. ASSUME UNCHANGED vars
       PROVE  FieldsInv'
  BY <1>17 DEF vars, groupVars, schemaVars, FieldsInv, TablesStay, FieldsOK, HasFields,
               HasTables, At, Moving, latest
<1> QED
  BY <1>1, <1>2, <1>3, <1>4, <1>5, <1>6, <1>7, <1>8, <1>9, <1>11, <1>12, <1>13, <1>15,
     <1>16, <1>17 DEF Next, RealmStep

(* A program in a transaction finds every column of its classes, with any  *)
(* number of processes, Realms, configurations and snapshots.              *)
THEOREM ProgramsHaveTheirFields == Spec => []HasItsFields
<1>1. Init => FieldsInv
  <2> SUFFICES ASSUME Init PROVE FieldsInv
    OBVIOUS
  <2>1. \A r \in Accessors : realm[r].pc = "closed" /\ realm[r].dynamic
    BY DEF Init, Closed
  <2>2. latest = 1
    BY DEF Init, GroupInit, latest
  <2>3. TablesStay
    BY <2>2 DEF TablesStay
  <2> QED
    BY <2>1, <2>3 DEF FieldsInv, FieldsOK, At, Moving
<1>2. IInv /\ FieldsInv => HasItsFields
  BY DEF FieldsInv, FieldsOK, HasItsFields, HasFields, At
<1> QED
  BY <1>1, <1>2, IInvInit, IInvStep, FieldsInvStep, PTL DEF Spec
=============================================================================
