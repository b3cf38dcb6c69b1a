----------------------- MODULE RealmCoordinator_proofs -----------------------
(***************************************************************************)
(* Proofs about RealmCoordinator.                                          *)
(***************************************************************************)
EXTENDS RealmCoordinator, FiniteSetTheorems, SequenceTheorems,
        WellFoundedInduction, TLAPS

-----------------------------------------------------------------------------
(* What the operations of SharedGroup keep.                                *)

GroupInv == GroupTypeOK /\ OneWriter

LEMMA GroupInitInv ==
    ASSUME NEW reading \in SUBSET Accessors, NEW content \in Contents,
           GroupInit(reading, content)
    PROVE  GroupInv
  BY GroupAssumption
     DEF GroupInit, GroupInv, GroupTypeOK, OneWriter, Stages, Versions, latest

(* What a commit does to the file.                                         *)
LEMMA AppendExtends ==
    ASSUME GroupTypeOK, NEW c \in Contents, latest < MaxVersion,
           snapshots' = Append(snapshots, c)
    PROVE  /\ snapshots' \in Seq(Contents)
           /\ latest' = latest + 1 /\ latest' \in Versions
           /\ snapshots'[latest'] = c
           /\ \A v \in 1 .. latest : snapshots'[v] = snapshots[v]
<1>1. snapshots \in Seq(Contents) /\ latest \in 1 .. MaxVersion
  BY DEF GroupTypeOK, Versions
<1>2. snapshots' \in Seq(Contents) /\ latest' = latest + 1
  BY <1>1 DEF latest
<1>3. snapshots'[latest + 1] = c /\ \A v \in 1 .. latest : snapshots'[v] = snapshots[v]
  BY <1>1 DEF latest
<1>4. latest' \in Versions
  BY <1>1, <1>2, GroupAssumption DEF Versions
<1>5. snapshots'[latest'] = c
  BY <1>2, <1>3
<1> QED
  BY <1>2, <1>3, <1>4, <1>5

LEMMA SnapshotIn ==
    ASSUME GroupTypeOK, NEW v \in Versions, v <= latest
    PROVE  snapshots[v] \in Contents
  BY DEF GroupTypeOK, Versions, latest

(* Each operation keeps the types and that there is one writer.            *)
LEMMA GroupStep ==
    ASSUME GroupInv, NEW a \in Accessors, NEW v \in Versions, v <= latest,
           NEW c \in Contents,
           \/ UNCHANGED groupVars
           \/ BeginRead(a) \/ EndRead(a) \/ AdvanceRead(a, v)
           \/ LockForWrite(a) \/ FinishPromotion(a) \/ PromoteToWrite(a)
           \/ RollbackAndContinueAsRead(a)
           \/ CommitAndContinueAsRead(a, c) \/ WriteAtOnce(a, c)
    PROVE  GroupInv'
<1> USE GroupAssumption DEF GroupInv, GroupTypeOK, OneWriter, Stages
<1>0. latest \in Versions /\ latest \in Nat /\ Versions \subseteq Nat
  BY DEF Versions
<1>a. ASSUME NEW b \in Accessors
      PROVE  bound[b] \in Nat /\ bound[b] <= latest
  BY DEF Versions
<1>1. CASE UNCHANGED groupVars
  BY <1>1 DEF groupVars, latest
<1>2. CASE BeginRead(a)
  BY <1>0, <1>2 DEF BeginRead, latest
<1>3. CASE EndRead(a)
  BY <1>3 DEF EndRead, latest
<1>4. CASE AdvanceRead(a, v)
  BY <1>4 DEF AdvanceRead, latest
<1>5. CASE LockForWrite(a)
  BY <1>5 DEF LockForWrite, latest
<1>6. CASE FinishPromotion(a)
  BY <1>0, <1>6 DEF FinishPromotion, latest
<1>7. CASE PromoteToWrite(a)
  BY <1>0, <1>7 DEF PromoteToWrite, latest
<1>8. CASE RollbackAndContinueAsRead(a)
  BY <1>8 DEF RollbackAndContinueAsRead, latest
<1>9. CASE CommitAndContinueAsRead(a, c)
  <2>1. snapshots' \in Seq(Contents) /\ latest' = latest + 1 /\ latest' \in Versions
    BY <1>9, AppendExtends DEF CommitAndContinueAsRead
  <2>2. \A b \in Accessors \ {a} : stage[b] # "Writing"
    BY <1>9 DEF CommitAndContinueAsRead
  <2>3. bound' \in [Accessors -> Versions] /\ \A b \in Accessors : bound'[b] <= latest'
    <3>1. bound' = [bound EXCEPT ![a] = latest']
      BY <1>9, <2>1 DEF CommitAndContinueAsRead
    <3>2. ASSUME NEW b \in Accessors
          PROVE  bound[b] <= latest'
      BY <1>0, <1>a, <2>1
    <3> QED
      BY <1>0, <2>1, <3>1, <3>2
  <2>4. GroupTypeOK'
    BY <1>9, <2>1, <2>3 DEF CommitAndContinueAsRead
  <2>5. OneWriter'
    BY <1>9, <2>2, <2>3 DEF CommitAndContinueAsRead
  <2> QED
    BY <2>4, <2>5
<1>10. CASE WriteAtOnce(a, c)
  <2>1. snapshots' \in Seq(Contents) /\ latest' = latest + 1 /\ latest' \in Versions
    BY <1>10, AppendExtends DEF WriteAtOnce
  <2>2. \A b \in Accessors : stage[b] # "Writing"
    BY <1>10 DEF WriteAtOnce
  <2>3. bound' \in [Accessors -> Versions] /\ \A b \in Accessors : bound'[b] <= latest'
    <3>1. bound' = [bound EXCEPT ![a] = latest']
      BY <1>10, <2>1 DEF WriteAtOnce
    <3>2. ASSUME NEW b \in Accessors
          PROVE  bound[b] <= latest'
      BY <1>0, <1>a, <2>1
    <3> QED
      BY <1>0, <2>1, <3>1, <3>2
  <2>4. GroupTypeOK'
    BY <1>10, <2>1, <2>3 DEF WriteAtOnce
  <2>5. OneWriter'
    BY <1>10, <2>2, <2>3 DEF WriteAtOnce
  <2> QED
    BY <2>4, <2>5
<1> QED
  BY <1>1, <1>2, <1>3, <1>4, <1>5, <1>6, <1>7, <1>8, <1>9, <1>10

(* Each operation leaves the other accessors where they are and loses no   *)
(* snapshot; moved forwards only, no accessor goes back.                   *)
LEMMA GroupFrame ==
    ASSUME GroupInv, NEW a \in Accessors, NEW v \in Versions, v <= latest,
           NEW c \in Contents,
           \/ UNCHANGED groupVars
           \/ BeginRead(a) \/ EndRead(a) \/ AdvanceRead(a, v)
           \/ LockForWrite(a) \/ FinishPromotion(a) \/ PromoteToWrite(a)
           \/ RollbackAndContinueAsRead(a)
           \/ CommitAndContinueAsRead(a, c) \/ WriteAtOnce(a, c)
    PROVE  /\ latest \in Nat /\ latest' \in Nat /\ latest <= latest'
           /\ \A b \in Accessors \ {a} : stage'[b] = stage[b] /\ bound'[b] = bound[b]
           /\ \A b \in Accessors : bound[b] \in Nat /\ bound[b] <= latest
           /\ ~AdvanceRead(a, v) \/ bound[a] <= v
                 => \A b \in Accessors : bound[b] <= bound'[b]
<1> USE DEF GroupInv, GroupTypeOK, OneWriter
<1>1. latest \in Nat /\ Versions \subseteq Nat
  BY DEF Versions
<1>2. \A b \in Accessors : bound[b] \in Nat /\ bound[b] <= latest
  BY <1>1
<1>3. CASE CommitAndContinueAsRead(a, c) \/ WriteAtOnce(a, c)
  <2>1. latest' = latest + 1 /\ bound' = [bound EXCEPT ![a] = latest + 1]
    BY <1>3, AppendExtends DEF CommitAndContinueAsRead, WriteAtOnce
  <2>2. \A b \in Accessors \ {a} : stage'[b] = stage[b]
    BY <1>3 DEF CommitAndContinueAsRead, WriteAtOnce
  <2> QED
    BY <1>1, <1>2, <2>1, <2>2
<1>4. CASE UNCHANGED groupVars \/ EndRead(a) \/ LockForWrite(a)
             \/ RollbackAndContinueAsRead(a)
  BY <1>1, <1>2, <1>4
     DEF groupVars, EndRead, LockForWrite, RollbackAndContinueAsRead, latest
<1>5. CASE BeginRead(a) \/ FinishPromotion(a) \/ PromoteToWrite(a)
  BY <1>1, <1>2, <1>5 DEF BeginRead, FinishPromotion, PromoteToWrite, latest
<1>6. CASE AdvanceRead(a, v)
  BY <1>1, <1>2, <1>6 DEF AdvanceRead, latest
<1> QED
  BY <1>3, <1>4, <1>5, <1>6
-----------------------------------------------------------------------------

-----------------------------------------------------------------------------
(* The callbacks.                                                          *)

Less == {p \in Nat \X Nat : p[1] < p[2]}

(* A non-empty set of naturals has a least element.                        *)
LEMMA LeastNatural ==
    ASSUME NEW T \in SUBSET Nat, T # {}
    PROVE  \E x \in T : \A y \in T : ~(y < x)
<1>1. IsWellFoundedOn(Less, Nat)
  BY NatLessThanWellFounded DEF OpToRel, Less
<1>2. \E x \in T : \A y \in T : ~(<< y, x >> \in Less)
  BY <1>1, WFMin, Zenon
<1> QED
  BY <1>2 DEF Less

(* The callback to be called next is one that is due.                      *)
LEMMA FirstIsDue ==
    ASSUME CallbacksTypeOK, Due # {}
    PROVE  FirstOf(Due) \in Due
<1>1. Due \in SUBSET Nat
  BY DEF Due, CallbacksTypeOK
<1>2. PICK i \in Due : \A j \in Due : ~(j < i)
  BY <1>1, LeastNatural
<1>3. \A j \in Due : i <= j
  BY <1>1, <1>2
<1> QED
  BY <1>3 DEF FirstOf

LEMMA IndexIn ==
    ASSUME CallbacksTypeOK, NEW token, Present(token)
    PROVE  IndexOf(token) \in 1 .. Len(callbacks)
  BY DEF Present, IndexOf, CallbacksTypeOK

(* A sequence without one of its elements.                                 *)
LEMMA RemoveAtType ==
    ASSUME NEW S, NEW s \in Seq(S), NEW i \in 1 .. Len(s)
    PROVE  RemoveAt(s, i) \in Seq(S) /\ Len(RemoveAt(s, i)) = Len(s) - 1
<1>1. /\ SubSeq(s, 1, i - 1) \in Seq(S)
      /\ Len(SubSeq(s, 1, i - 1)) = i - 1
  BY SubSeqProperties
<1>2. /\ SubSeq(s, i + 1, Len(s)) \in Seq(S)
      /\ Len(SubSeq(s, i + 1, Len(s))) = Len(s) - i
  BY SubSeqProperties
<1>3. /\ RemoveAt(s, i) \in Seq(S)
      /\ Len(RemoveAt(s, i)) = Len(SubSeq(s, 1, i - 1)) + Len(SubSeq(s, i + 1, Len(s)))
  BY <1>1, <1>2, ConcatProperties DEF RemoveAt
<1>4. Len(s) \in Nat /\ i \in Int
  OBVIOUS
<1>5. Len(RemoveAt(s, i)) = (i - 1) + (Len(s) - i)
  BY <1>1, <1>2, <1>3, Zenon
<1>6. (i - 1) + (Len(s) - i) = Len(s) - 1
  BY <1>4
<1> QED
  BY <1>3, <1>5, <1>6, Zenon

(* A function that gives an element for each place of a sequence.          *)
LEMMA SameLength ==
    ASSUME NEW S, NEW s \in Seq(S), NEW t \in [1 .. Len(s) -> S]
    PROVE  t \in Seq(S) /\ Len(t) = Len(s)
  OBVIOUS

(* Every callback has had a token of its own, or more have.                *)
CallbacksInv == CallbacksTypeOK /\ Len(callbacks) < nextToken

LEMMA NoCallbacksType ==
    ASSUME NoCallbacks
    PROVE  CallbacksInv
<1>1. callbacks \in Seq(Callback) /\ Len(callbacks) = 0
  BY DEF NoCallbacks
<1>2. /\ haveCallbacks = FALSE /\ callbackIndex = 0 /\ nextToken = 1
      /\ callbackCount = MaxTokens + 1 /\ miscounted = FALSE
  BY DEF NoCallbacks, Huge, NPos
<1>3. /\ callbackIndex \in 0 .. MaxTokens + 1
      /\ callbackCount \in 0 .. MaxTokens + 1
      /\ nextToken \in 1 .. MaxTokens + 1
  BY <1>2, CallbacksAssumption
<1>4. CallbacksTypeOK
  BY <1>1, <1>2, <1>3 DEF CallbacksTypeOK, Huge
<1>5. Len(callbacks) < nextToken
  BY <1>1, <1>2
<1> QED
  BY <1>4, <1>5 DEF CallbacksInv

LEMMA StartType ==
    ASSUME StartCallbacks
    PROVE  CallbacksInv'
<1>1. callbacks' \in Seq(Callback) /\ Len(callbacks') = 0
  BY DEF StartCallbacks
<1>2. /\ haveCallbacks' = FALSE /\ callbackIndex' = 0 /\ nextToken' = 1
      /\ callbackCount' = MaxTokens + 1 /\ miscounted' = FALSE
  BY DEF StartCallbacks, Huge, NPos
<1>3. /\ callbackIndex' \in 0 .. MaxTokens + 1
      /\ callbackCount' \in 0 .. MaxTokens + 1
      /\ nextToken' \in 1 .. MaxTokens + 1
  BY <1>2, CallbacksAssumption
<1>4. CallbacksTypeOK'
  BY <1>1, <1>2, <1>3 DEF CallbacksTypeOK, Huge
<1>5. Len(callbacks') < nextToken'
  BY <1>1, <1>2
<1> QED
  BY <1>4, <1>5 DEF CallbacksInv

LEMMA PushType ==
    ASSUME CallbacksInv, PushCallback
    PROVE  CallbacksInv' /\ Len(callbacks') = Len(callbacks) + 1
<1> USE CallbacksAssumption DEF CallbacksInv, CallbacksTypeOK
<1>1. (callbackIndex = NPos) \in BOOLEAN
  OBVIOUS
<1>2. NewCallback(callbackIndex = NPos) \in Callback
  BY <1>1 DEF PushCallback, NewCallback, Callback, Tokens, ChangeSets, Versions
<1>3. /\ callbacks' \in Seq(Callback) /\ Len(callbacks') = Len(callbacks) + 1
      /\ nextToken' = nextToken + 1 /\ nextToken <= MaxTokens
  BY <1>2, AppendProperties DEF PushCallback
<1> QED
  BY <1>3 DEF PushCallback

LEMMA RemoveType ==
    ASSUME CallbacksInv, NEW token, NEW calling \in BOOLEAN, RemoveCallback(token, calling)
    PROVE  /\ CallbacksInv' /\ Len(callbacks') = Len(callbacks) - 1
           /\ miscounted => miscounted'
           /\ calling /\ callbackCount \in 0 .. MaxTokens /\ ~miscounted' =>
                IndexOf(token) <= callbackCount /\ callbackCount' = callbackCount - 1
<1> USE CallbacksAssumption DEF CallbacksInv, CallbacksTypeOK, Huge
<1> DEFINE gone == IndexOf(token)
<1>1. gone \in 1 .. Len(callbacks)
  BY IndexIn DEF RemoveCallback
<1>2. callbacks' \in Seq(Callback) /\ Len(callbacks') = Len(callbacks) - 1
  BY <1>1, RemoveAtType DEF RemoveCallback
<1>3. callbackIndex' \in 0 .. Huge
  BY <1>1 DEF RemoveCallback
<1>4. callbackCount' \in 0 .. Huge
  BY DEF RemoveCallback
<1>5. haveCallbacks' \in BOOLEAN /\ nextToken' = nextToken
  BY DEF RemoveCallback
<1>6. /\ miscounted' \in BOOLEAN /\ (miscounted => miscounted')
      /\ ~miscounted' /\ calling /\ callbackCount # Huge => ~(gone > callbackCount)
  <2> DEFINE outside == calling /\ callbackCount # Huge /\ gone > callbackCount
  <2>1. miscounted' = (miscounted \/ outside) /\ outside \in BOOLEAN
    BY DEF RemoveCallback
  <2>2. miscounted \in BOOLEAN
    OBVIOUS
  <2>3. outside <=> (calling /\ callbackCount # Huge /\ gone > callbackCount)
    OBVIOUS
  <2> HIDE DEF outside
  <2>4. miscounted' \in BOOLEAN /\ (miscounted => miscounted') /\ (~miscounted' => ~outside)
    BY <2>1, <2>2
  <2> QED
    BY <2>3, <2>4
<1>7. calling /\ callbackCount \in 0 .. MaxTokens /\ ~miscounted' =>
        gone <= callbackCount /\ callbackCount' = callbackCount - 1
  BY <1>1, <1>6 DEF RemoveCallback
<1> QED
  BY <1>2, <1>3, <1>4, <1>5, <1>6, <1>7

(* The other operations change callbacks in place.                         *)
LEMMA InPlaceType ==
    ASSUME CallbacksInv,
           callbacks' \in [1 .. Len(callbacks) -> Callback],
           haveCallbacks' \in BOOLEAN,
           callbackIndex' \in 0 .. Huge, callbackCount' \in 0 .. Huge,
           UNCHANGED << nextToken, miscounted >>
    PROVE  CallbacksInv' /\ Len(callbacks') = Len(callbacks)
<1>1. callbacks' \in Seq(Callback) /\ Len(callbacks') = Len(callbacks)
  BY SameLength DEF CallbacksInv, CallbacksTypeOK
<1> QED
  BY <1>1 DEF CallbacksInv, CallbacksTypeOK

LEMMA CallbacksDomain ==
    ASSUME CallbacksInv
    PROVE  /\ DOMAIN callbacks = 1 .. Len(callbacks)
           /\ Len(callbacks) \in 0 .. MaxTokens
<1>1. Len(callbacks) \in Nat /\ DOMAIN callbacks = 1 .. Len(callbacks)
  BY DEF CallbacksInv, CallbacksTypeOK
<1> QED
  BY <1>1, CallbacksAssumption DEF CallbacksInv, CallbacksTypeOK

LEMMA CallbackFields ==
    ASSUME CallbacksInv, NEW i \in DOMAIN callbacks
    PROVE  /\ callbacks[i] \in Callback
           /\ callbacks[i].accumulated \in ChangeSets
           /\ callbacks[i].toDeliver \in ChangeSets
<1>1. callbacks[i] \in Callback
  BY DEF CallbacksInv, CallbacksTypeOK
<1> QED
  BY <1>1 DEF Callback

LEMMA NoteType ==
    ASSUME CallbacksInv, UNCHANGED callbackVars \/ NoteCallbacks
    PROVE  CallbacksInv' /\ Len(callbacks') = Len(callbacks)
  BY DEF CallbacksInv, CallbacksTypeOK, callbackVars, NoteCallbacks

LEMMA SuppressType ==
    ASSUME CallbacksInv, NEW token, NEW version \in Versions,
           SuppressNextNotification(token, version)
    PROVE  CallbacksInv' /\ Len(callbacks') = Len(callbacks)
<1> DEFINE i == IndexOf(token)
           asked == IF callbacks[i].initialDelivered THEN callbacks[i].asked \cup {version}
                                                     ELSE callbacks[i].asked
<1>1. i \in DOMAIN callbacks
  BY IndexIn DEF SuppressNextNotification, CallbacksInv, CallbacksTypeOK
<1>2. [callbacks[i] EXCEPT !.skipNext = TRUE, !.asked = asked] \in Callback
  BY <1>1, CallbackFields DEF Callback
<1>3. callbacks' = [callbacks EXCEPT ![i] =
                       [callbacks[i] EXCEPT !.skipNext = TRUE, !.asked = asked]]
  BY <1>1 DEF SuppressNextNotification
<1>4. callbacks' \in [1 .. Len(callbacks) -> Callback]
  BY <1>1, <1>2, <1>3, CallbacksDomain, CallbackFields
<1> QED
  BY <1>4, InPlaceType DEF SuppressNextNotification, CallbacksInv, CallbacksTypeOK

LEMMA AddType ==
    ASSUME CallbacksInv, NEW changes \in ChangeSets, AddChanges(changes)
    PROVE  CallbacksInv' /\ Len(callbacks') = Len(callbacks)
<1>1. ASSUME NEW i \in DOMAIN callbacks
      PROVE  callbacks'[i] \in Callback
  BY CallbackFields DEF AddChanges, Callback, ChangeSets
<1>2. callbacks' \in [1 .. Len(callbacks) -> Callback]
  BY <1>1, CallbacksDomain DEF AddChanges
<1> QED
  BY <1>2, InPlaceType DEF AddChanges, CallbacksInv, CallbacksTypeOK

LEMMA PackageType ==
    ASSUME CallbacksInv, PackageCallbacks \/ PackageAndDiscard
    PROVE  /\ CallbacksInv' /\ Len(callbacks') = Len(callbacks)
           /\ PackageCallbacks => callbackCount' = Len(callbacks')
<1>1. ASSUME NEW i \in DOMAIN callbacks
      PROVE  callbacks'[i] \in Callback
  <2>1. CASE PackageCallbacks
    BY <2>1, CallbackFields DEF PackageCallbacks, Callback, ChangeSets
  <2>2. CASE PackageAndDiscard
    BY <2>2, CallbackFields DEF PackageAndDiscard, Callback, ChangeSets
  <2> QED
    BY <2>1, <2>2
<1>2. callbacks' \in [1 .. Len(callbacks) -> Callback]
  BY <1>1, CallbacksDomain DEF PackageCallbacks, PackageAndDiscard
<1>3. Len(callbacks) \in 0 .. Huge
  BY CallbacksAssumption DEF CallbacksInv, CallbacksTypeOK, Huge
<1> QED
  BY <1>2, <1>3, InPlaceType
     DEF PackageCallbacks, PackageAndDiscard, CallbacksInv, CallbacksTypeOK

LEMMA CallType ==
    ASSUME CallbacksInv, NEW version \in Versions \cup {0}, CallCallback(version)
    PROVE  CallbacksInv' /\ Len(callbacks') = Len(callbacks) /\ UNCHANGED callbackCount
<1> DEFINE i == FirstOf(Due)
<1>1. i \in DOMAIN callbacks /\ i \in 1 .. Len(callbacks)
  <2>1. i \in Due
    BY FirstIsDue DEF CallCallback, CallbacksInv
  <2>2. Due \subseteq 1 .. Len(callbacks)
    BY DEF Due, CallbacksInv, CallbacksTypeOK
  <2> QED
    BY <2>1, <2>2, CallbacksDomain
<1> DEFINE c1 == [callbacks[i] EXCEPT !.toDeliver = {},
                                      !.told = @ \cup callbacks[i].toDeliver]
           c2 == [callbacks[i] EXCEPT !.toDeliver = {}, !.initialDelivered = TRUE,
                                      !.base = version, !.discarded = {},
                                      !.skipped = {v \in @ : v > version}]
<1>a. callbacks' = [callbacks EXCEPT ![i] = IF callbacks[i].initialDelivered THEN c1 ELSE c2]
  BY DEF CallCallback
<1>2. \E c \in Callback : callbacks' = [callbacks EXCEPT ![i] = c]
  <2>1. c1 \in Callback
    BY <1>1, CallbackFields DEF Callback, ChangeSets
  <2>2. c2 \in Callback
    BY <1>1, CallbackFields DEF Callback, ChangeSets
  <2>3. (IF callbacks[i].initialDelivered THEN c1 ELSE c2) \in Callback
    BY <2>1, <2>2
  <2> HIDE DEF c1, c2
  <2> QED
    BY <1>a, <2>3, Zenon
<1>3. callbacks' \in [1 .. Len(callbacks) -> Callback]
  BY <1>1, <1>2, CallbacksDomain, CallbackFields
<1>4. callbackIndex' \in 0 .. Huge
  BY <1>1, CallbacksAssumption DEF CallCallback, CallbacksInv, CallbacksTypeOK, Huge
<1> QED
  BY <1>3, <1>4, InPlaceType DEF CallCallback, CallbacksInv, CallbacksTypeOK

LEMMA StopType ==
    ASSUME CallbacksInv, StopCalling
    PROVE  CallbacksInv' /\ Len(callbacks') = Len(callbacks)
  BY CallbacksAssumption DEF StopCalling, CallbacksInv, CallbacksTypeOK, Huge, NPos

-----------------------------------------------------------------------------
(* The invariant.                                                          *)

ThreadsOK ==
    /\ skipVersion \in Versions \cup {0}
    /\ wake \in BOOLEAN /\ signal \in BOOLEAN
    /\ worker \in WorkerThread
    /\ main \in MainThread
    /\ other \in {"idle", "committed", "dead"}

NotifierOK == notifier \in Notifier /\ results \in Results

InRound == worker.pc \in {"advance", "run", "handover"}

Telling == main.pc \in {"delivering", "calling", "called"}

(* The worker reads while its main list has a notifier; a round goes       *)
(* forwards, and the next version to stop at is beyond it.                 *)
WorkerInv ==
    /\ stage[Worker] = IF notifier.place = "main" THEN "Reading" ELSE "Ready"
    /\ InRound =>
         /\ notifier.place = "main"
         /\ worker.version <= latest /\ bound[Worker] <= worker.version
         /\ worker.skip # 0 => bound[Worker] <= worker.skip
         /\ skipVersion # 0 => worker.version < skipVersion
    /\ worker.skip # 0 => InRound /\ worker.skip <= worker.version
    /\ skipVersion # 0 => /\ notifier.place = "main"
                          /\ bound[Worker] < skipVersion /\ skipVersion <= latest

(* A view is handed over for the version of the notifier or not at all.    *)
NotifierInv ==
    /\ notifier.alive => notifier.place # "none"
    /\ notifier.version <= latest
    /\ notifier.handover \in {0, notifier.version}

(* What the main thread does step by step has a notifier, a loop over the  *)
(* callbacks stays within them unless the count is wrong, and a refresh    *)
(* goes forwards.                                                          *)
MainInv ==
    /\ main.pc # "idle" => notifier.alive
    /\ Telling /\ ~miscounted => callbackCount <= Len(callbacks)
    /\ (main.pc = "delivering" /\ notifier.toDeliver # 0) => notifier.toDeliver = bound[Main]
    /\ (main.pc = "packaging" /\ main.op = "refresh") => bound[Main] <= main.target

IInv ==
    /\ GroupInv /\ ThreadsOK /\ NotifierOK /\ CallbacksInv
    /\ WorkerInv /\ NotifierInv /\ MainInv

(* At most accessor a is somewhere else, and nobody goes back.             *)
Moved(a) ==
    /\ GroupInv'
    /\ latest \in Nat /\ latest' \in Nat /\ latest <= latest'
    /\ \A b \in Accessors \ {a} : stage'[b] = stage[b] /\ bound'[b] = bound[b]
    /\ \A b \in Accessors : bound[b] <= bound'[b]

LEMMA Threads ==
    /\ Main # Other /\ Main # Worker /\ Other # Worker
    /\ Main \in Accessors /\ Other \in Accessors /\ Worker \in Accessors
<1>1. ASSUME NEW x, NEW y
      PROVE  Cardinality({x, y}) <= 2
  <2>1. IsFiniteSet({x}) /\ Cardinality({x}) = 1
    BY FS_Singleton
  <2>2. Cardinality({x} \cup {y}) = IF y \in {x} THEN 1 ELSE 2
    BY <2>1, FS_AddElement
  <2>3. {x, y} = {x} \cup {y}
    OBVIOUS
  <2> QED
    BY <2>2, <2>3
<1>2. Accessors # {Main, Other} /\ Accessors # {Main, Worker}
  BY <1>1, CoordinatorAssumption
<1> QED
  BY <1>2, CoordinatorAssumption

LEMMA PlainMove ==
    ASSUME GroupInv, NEW a \in Accessors,
           \/ UNCHANGED groupVars
           \/ BeginRead(a) \/ EndRead(a) \/ LockForWrite(a) \/ FinishPromotion(a)
           \/ PromoteToWrite(a) \/ RollbackAndContinueAsRead(a)
    PROVE  Moved(a)
<1>1. latest \in Versions /\ latest <= latest /\ TRUE \in Contents
  BY GroupAssumption, ResultsAssumption DEF GroupInv, GroupTypeOK, Versions
<1>2. GroupInv'
  BY <1>1, GroupStep
<1>3. ~AdvanceRead(a, latest) \/ bound[a] <= latest
  BY DEF GroupInv, OneWriter
<1> QED
  BY <1>1, <1>2, <1>3, GroupFrame DEF Moved

LEMMA AdvanceMove ==
    ASSUME GroupInv, NEW a \in Accessors, NEW v \in Versions, v <= latest,
           bound[a] <= v, AdvanceRead(a, v)
    PROVE  Moved(a)
<1>1. TRUE \in Contents
  BY ResultsAssumption
<1>2. GroupInv'
  BY <1>1, GroupStep
<1> QED
  BY <1>1, <1>2, GroupFrame DEF Moved

LEMMA CommitMove ==
    ASSUME GroupInv, NEW a \in Accessors, NEW touches \in BOOLEAN,
           CommitAndContinueAsRead(a, touches) \/ WriteAtOnce(a, touches)
    PROVE  Moved(a) /\ latest' = latest + 1 /\ latest' \in Versions
<1>1. latest \in Versions /\ latest <= latest /\ touches \in Contents
  BY GroupAssumption, ResultsAssumption DEF GroupInv, GroupTypeOK, Versions
<1>2. GroupInv'
  BY <1>1, GroupStep
<1>3. ~AdvanceRead(a, latest) \/ bound[a] <= latest
  BY DEF GroupInv, OneWriter
<1>4. latest' = latest + 1 /\ latest' \in Versions
  BY <1>1, AppendExtends DEF CommitAndContinueAsRead, WriteAtOnce, GroupInv
<1> QED
  BY <1>1, <1>2, <1>3, <1>4, GroupFrame DEF Moved

(* The snapshots the accessors stand on and the versions of the threads.   *)
LEMMA Numbers ==
    ASSUME IInv
    PROVE  /\ latest \in Versions /\ Versions \subseteq Nat /\ 1 \in Versions /\ 0 \notin Versions
           /\ \A a \in Accessors : bound[a] \in Versions /\ bound[a] <= latest
           /\ worker.version \in Versions /\ worker.skip \in Versions \cup {0}
           /\ notifier.version \in Versions
           /\ main.target \in Versions \cup {0} /\ main.package \in Versions \cup {0}
           /\ callbackCount \in Nat /\ Len(callbacks) \in 0 .. MaxTokens
  BY GroupAssumption, CallbacksDomain
     DEF IInv, GroupInv, GroupTypeOK, OneWriter, ThreadsOK, WorkerThread, MainThread,
         NotifierOK, Notifier, Versions, CallbacksInv, CallbacksTypeOK

(* What another accessor does leaves the worker's part alone, and so on.   *)
LEMMA WorkerKept ==
    ASSUME IInv, NEW a \in {Main, Other}, Moved(a),
           UNCHANGED << worker, skipVersion >>, notifier'.place = notifier.place
    PROVE  WorkerInv'
<1>1. stage'[Worker] = stage[Worker] /\ bound'[Worker] = bound[Worker]
  BY Threads DEF Moved
<1>2. worker.version \in Nat /\ skipVersion \in Nat /\ latest \in Nat /\ latest' \in Nat
      /\ latest <= latest'
  BY Numbers DEF Moved, IInv, ThreadsOK
<1> QED
  BY <1>1, <1>2 DEF IInv, WorkerInv, InRound

LEMMA NotifierKept ==
    ASSUME IInv, NEW a \in Accessors, Moved(a),
           notifier'.alive = notifier.alive \/ ~notifier'.alive,
           notifier'.place = notifier.place,
           notifier'.version = notifier.version,
           notifier'.handover \in {0, notifier.handover}
    PROVE  NotifierInv'
  BY Numbers DEF Moved, IInv, NotifierInv

LEMMA MainKept ==
    ASSUME IInv, NEW a \in {Other, Worker}, Moved(a),
           UNCHANGED << main, callbackCount, miscounted >>, Len(callbacks') = Len(callbacks),
           notifier'.alive = notifier.alive, notifier'.toDeliver = notifier.toDeliver
    PROVE  MainInv'
<1>1. bound'[Main] = bound[Main]
  BY Threads DEF Moved
<1> QED
  BY <1>1 DEF IInv, MainInv, Telling

(* The calls that leave the results, the callbacks and the worker alone.   *)
LEMMA CallStep ==
    ASSUME IInv, NEW a \in {Main, Other}, Moved(a),
           UNCHANGED << resultsVars, worker, skipVersion >>, ThreadsOK', MainInv'
    PROVE  IInv'
<1>1. a \in Accessors
  BY Threads
<1>2. WorkerInv' /\ NotifierInv'
  BY <1>1, WorkerKept, NotifierKept DEF resultsVars
<1>3. CallbacksInv'
  BY NoteType DEF IInv, resultsVars, callbackVars
<1>4. NotifierOK' /\ GroupInv'
  BY DEF IInv, NotifierOK, resultsVars, Moved
<1> QED
  BY <1>2, <1>3, <1>4 DEF IInv

-----------------------------------------------------------------------------
(* The notifier.                                                           *)

LEMMA ChangedType ==
    ASSUME NEW from \in Versions \cup {0}, NEW to \in Versions
    PROVE  ChangedBetween(from, to) \in ChangeSets
  BY GroupAssumption DEF ChangedBetween, ChangeSets, Versions

LEMMA NewNotifierType ==
    /\ NoNotifier \in Notifier /\ NoNotifier.place = "none" /\ ~NoNotifier.alive
    /\ NoNotifier.version = 1 /\ NoNotifier.handover = 0 /\ NoNotifier.toDeliver = 0
    /\ NewResults \in Results
    /\ \A v \in Versions : NewNotifier(v) \in Notifier
<1>1. 1 \in Versions
  BY GroupAssumption DEF Versions
<1>2. ASSUME NEW v \in Versions
      PROVE  NewNotifier(v) \in Notifier
  BY DEF NewNotifier, Notifier, Views, ChangeSets
<1>3. NewResults \in Results
  BY DEF NewResults, Results
<1>4. NoNotifier \in Notifier
  BY <1>1 DEF NoNotifier, NewNotifier, Notifier, Views, ChangeSets
<1>5. /\ NoNotifier.place = "none" /\ ~NoNotifier.alive
      /\ NoNotifier.version = 1 /\ NoNotifier.handover = 0 /\ NoNotifier.toDeliver = 0
  BY DEF NoNotifier, NewNotifier
<1> QED
  BY <1>2, <1>3, <1>4, <1>5

(* What a step of the worker on its notifier leaves as it was.             *)
SamePlace(m, n) ==
    m.place = n.place /\ m.alive = n.alive /\ m.toDeliver = n.toDeliver

LEMMA RunType ==
    ASSUME NotifierOK, NEW base \in Versions, NEW version \in Versions,
           NEW tracked, Run(base, version, tracked)
    PROVE  /\ notifier' \in Notifier /\ SamePlace(notifier', notifier)
           /\ notifier'.version = notifier.version
           /\ notifier'.handover = notifier.handover
<1>1. CalculateChanges(base, version, tracked) \in ChangeSets
  <2>1. ChangedBetween(base, version) \in ChangeSets /\ {WrongBase} \in ChangeSets
    BY ChangedType DEF ChangeSets
  <2>2. notifier.changes \in ChangeSets
    BY DEF NotifierOK, Notifier
  <2> QED
    BY <2>1, <2>2 DEF CalculateChanges
<1>2. CASE NeedToRun(version)
  <2>1. notifier' = [notifier EXCEPT !.tv = version, !.previousRows = version,
                       !.changes = CalculateChanges(base, version, tracked)]
    BY <1>2 DEF Run
  <2> QED
    BY <1>1, <2>1 DEF NotifierOK, Notifier, Views, SamePlace
<1>3. CASE ~NeedToRun(version)
  <2> DEFINE stale == notifier.stale \/ ChangedBetween(notifier.previousRows, version) # {}
  <2>1. notifier' = [notifier EXCEPT !.stale = stale]
    BY <1>3 DEF Run
  <2>2. stale \in BOOLEAN
    OBVIOUS
  <2> HIDE DEF stale
  <2> QED
    BY <2>1, <2>2 DEF NotifierOK, Notifier, SamePlace
<1> QED
  BY <1>2, <1>3

LEMMA HandedOverType ==
    ASSUME NotifierOK, NEW version \in Versions, NEW saw
    PROVE  LET n == HandedOver(version, saw) IN
           /\ n \in Notifier /\ SamePlace(n, notifier)
           /\ n.version = version /\ n.handover \in {0, version}
<1> DEFINE n == HandedOver(version, saw)
           stale == notifier.stale \/ (notifier.hasRun /\ saw \cup {haveCallbacks} = BOOLEAN)
           handover == IF notifier.tv # 0 \/ notifier.handover # 0 THEN version ELSE 0
<1>1. n = [notifier EXCEPT !.version = version, !.handover = handover, !.tv = 0,
                           !.changes = {}, !.stale = stale, !.hasRun = TRUE]
  BY DEF HandedOver
<1>2. stale \in BOOLEAN /\ handover \in {0, version}
  OBVIOUS
<1> HIDE DEF n, stale, handover
<1>3. n \in Notifier /\ SamePlace(n, notifier) /\ n.version = version /\ n.handover = handover
  BY <1>1, <1>2 DEF NotifierOK, Notifier, Views, ChangeSets, SamePlace
<1> QED
  BY <1>2, <1>3 DEF n

-----------------------------------------------------------------------------
(* The steps of the worker.                                                *)

LEMMA CleanUpStep ==
    ASSUME IInv, NEW n \in Notifier, SamePlace(n, notifier),
           n.version \in Versions, n.version <= latest, n.handover \in {0, n.version},
           CleanUp(n), UNCHANGED << callbackCount, miscounted, main >>, Len(callbacks') = Len(callbacks),
           worker'.pc = "signal", worker'.skip = 0
    PROVE  /\ Moved(Worker) /\ notifier' \in Notifier /\ skipVersion' \in Versions \cup {0}
           /\ WorkerInv' /\ NotifierInv' /\ MainInv'
<1> USE DEF SamePlace
<1>1. Moved(Worker)
  BY PlainMove, Threads DEF CleanUp, IInv
<1>2. notifier' \in Notifier /\ skipVersion' \in Versions \cup {0}
  BY NewNotifierType DEF CleanUp, IInv, ThreadsOK
<1>3. notifier' = n \/ (~notifier.alive /\ notifier' = NoNotifier)
  BY DEF CleanUp
<1>4. NotifierInv'
  BY <1>1, <1>3, NewNotifierType, Numbers DEF NotifierInv, IInv, Moved
<1>5. MainInv'
  <2>1. bound'[Main] = bound[Main]
    BY <1>1, Threads DEF Moved
  <2> QED
    BY <1>3, <2>1, NewNotifierType DEF MainInv, IInv, Telling
<1>6. WorkerInv'
  <2>1. ~InRound'
    BY DEF InRound
  <2>2. CASE n.alive \/ n.place # "main"
    <3>1. stage'[Worker] = stage[Worker] /\ bound'[Worker] = bound[Worker]
          /\ skipVersion' = skipVersion /\ latest' = latest
      BY <2>2 DEF CleanUp, groupVars, latest
    <3>2. notifier'.place = "main" <=> notifier.place = "main"
      BY <2>2, NewNotifierType DEF CleanUp, IInv, NotifierInv
    <3> QED
      BY <2>1, <3>1, <3>2 DEF WorkerInv, IInv
  <2>3. CASE ~(n.alive \/ n.place # "main")
    <3>1. stage'[Worker] = "Ready" /\ skipVersion' = 0 /\ notifier'.place = "none"
      BY <2>3, Threads, NewNotifierType DEF CleanUp, EndRead, IInv, GroupInv, GroupTypeOK
    <3> QED
      BY <2>1, <3>1 DEF WorkerInv
  <2> QED
    BY <2>2, <2>3
<1> QED
  BY <1>1, <1>2, <1>4, <1>5, <1>6

LEMMA NothingToRunStep ==
    ASSUME IInv, NothingToRun
    PROVE  IInv' /\ Moved(Worker)
<1> USE DEF NothingToRun
<1>1. Len(callbacks') = Len(callbacks) /\ UNCHANGED callbackVars /\ UNCHANGED << callbackCount, miscounted >>
  BY DEF callbackVars
<1>2. worker'.pc = "signal" /\ worker'.skip = 0 /\ worker' \in WorkerThread
  BY DEF IInv, ThreadsOK, WorkerThread, WorkerInv, InRound
<1>3. /\ notifier \in Notifier /\ SamePlace(notifier, notifier)
      /\ notifier.version \in Versions /\ notifier.version <= latest
      /\ notifier.handover \in {0, notifier.version}
  BY Numbers DEF IInv, NotifierOK, NotifierInv, SamePlace
<1>4. /\ Moved(Worker) /\ notifier' \in Notifier /\ skipVersion' \in Versions \cup {0}
      /\ WorkerInv' /\ NotifierInv' /\ MainInv'
  BY <1>1, <1>2, <1>3, CleanUpStep
<1>5. CallbacksInv'
  BY <1>1, NoteType DEF IInv
<1> QED
  BY <1>2, <1>4, <1>5 DEF IInv, ThreadsOK, NotifierOK, Moved

LEMMA StartRoundStep ==
    ASSUME IInv, StartRound
    PROVE  IInv' /\ Moved(Worker)
<1> USE DEF StartRound
<1>1. Moved(Worker)
  BY PlainMove, Threads DEF IInv
<1>2. /\ worker' \in WorkerThread /\ notifier' \in Notifier
      /\ notifier'.alive = notifier.alive /\ notifier'.place = "main"
      /\ notifier'.version = notifier.version /\ notifier'.handover = notifier.handover
      /\ notifier'.toDeliver = notifier.toDeliver
  BY Numbers DEF IInv, ThreadsOK, WorkerThread, NotifierOK, Notifier
<1>3. NotifierInv'
  BY <1>1, <1>2, Numbers DEF IInv, NotifierInv, Moved
<1>4. MainInv' /\ CallbacksInv'
  BY <1>1, <1>2, MainKept, NoteType DEF IInv, callbackVars
<1>5. WorkerInv'
  <2>1. /\ worker'.pc = "advance" /\ worker'.version = latest /\ worker'.skip = skipVersion
        /\ skipVersion' = 0 /\ latest' = latest
    BY DEF IInv, ThreadsOK, WorkerThread, BeginRead, groupVars, latest
  <2>2. stage'[Worker] = "Reading" /\ bound'[Worker] <= latest'
    <3>1. stage[Worker] \in {"Ready", "Reading"}
      BY DEF IInv, WorkerInv
    <3> QED
      BY <2>1, <3>1, Threads, Numbers
         DEF BeginRead, groupVars, IInv, GroupInv, GroupTypeOK
  <2>3. skipVersion # 0 => /\ bound'[Worker] <= skipVersion /\ skipVersion <= latest
    BY Numbers, Threads DEF IInv, WorkerInv, BeginRead, groupVars, ThreadsOK
  <2> QED
    BY <1>2, <2>1, <2>2, <2>3, Numbers DEF WorkerInv, InRound
<1> QED
  BY <1>1, <1>2, <1>3, <1>4, <1>5 DEF IInv, ThreadsOK, NotifierOK, Moved

LEMMA AdvanceStep ==
    ASSUME IInv, Advance
    PROVE  IInv' /\ Moved(Worker)
<1> DEFINE goal == IF worker.skip # 0 THEN worker.skip ELSE worker.version
<1>1. worker.pc = "advance" /\ AdvanceRead(Worker, goal)
  BY DEF Advance
<1>2. goal \in Versions /\ goal <= latest /\ bound[Worker] <= goal /\ goal <= worker.version
  BY <1>1, Numbers, Threads DEF IInv, WorkerInv, InRound
<1>3. Moved(Worker)
  BY <1>1, <1>2, Threads, AdvanceMove DEF IInv
<1>4. /\ worker'.pc = "run" /\ worker'.version = worker.version /\ worker'.skip = worker.skip
      /\ worker' \in WorkerThread
  <2>1. (notifier.hasRun /\ haveCallbacks) \in BOOLEAN /\ {haveCallbacks} \in SUBSET BOOLEAN
        /\ bound[Worker] \in Versions
    BY Numbers, Threads DEF IInv, CallbacksInv, CallbacksTypeOK
  <2>2. worker \in WorkerThread
    BY DEF IInv, ThreadsOK
  <2> QED
    BY <2>1, <2>2 DEF Advance, WorkerThread
<1>5. UNCHANGED << resultsVars, skipVersion, wake, signal, main, other >>
  BY DEF Advance
<1>6. NotifierInv' /\ MainInv' /\ CallbacksInv'
  BY <1>3, <1>5, Threads, NotifierKept, MainKept, NoteType
     DEF IInv, resultsVars, callbackVars
<1>7. WorkerInv'
  <2>1. stage'[Worker] = stage[Worker] /\ bound'[Worker] = goal /\ latest' = latest
    BY <1>1, Threads DEF AdvanceRead, IInv, GroupInv, GroupTypeOK, latest
  <2>2. skipVersion # 0 => goal < skipVersion
    BY <1>1, <1>2, Numbers DEF IInv, WorkerInv, InRound, ThreadsOK
  <2>3. notifier' = notifier /\ skipVersion' = skipVersion
    BY <1>5 DEF resultsVars
  <2>4. /\ notifier.place = "main" /\ stage[Worker] = "Reading"
        /\ worker.version <= latest
        /\ worker.skip # 0 => worker.skip <= worker.version /\ goal = worker.skip
        /\ skipVersion # 0 => worker.version < skipVersion /\ skipVersion <= latest
    BY <1>1 DEF IInv, WorkerInv, InRound
  <2> HIDE DEF goal
  <2> QED
    BY <1>2, <1>4, <2>1, <2>2, <2>3, <2>4, Numbers DEF WorkerInv, InRound
<1> QED
  BY <1>3, <1>4, <1>5, <1>6, <1>7 DEF IInv, ThreadsOK, NotifierOK, Moved, resultsVars

LEMMA RunNotifierStep ==
    ASSUME IInv, RunNotifier
    PROVE  IInv' /\ Moved(Worker)
<1>1. Moved(Worker)
  BY PlainMove, Threads DEF IInv, RunNotifier
<1>2. worker.base \in Versions /\ bound[Worker] \in Versions
  BY Numbers, Threads DEF IInv, ThreadsOK, WorkerThread
<1>3. /\ notifier' \in Notifier /\ SamePlace(notifier', notifier)
      /\ notifier'.version = notifier.version /\ notifier'.handover = notifier.handover
  BY <1>2, RunType DEF RunNotifier, IInv
<1>4. /\ worker'.pc = "handover" /\ worker'.version = worker.version
      /\ worker'.skip = worker.skip /\ worker' \in WorkerThread
  <2>1. haveCallbacks \in BOOLEAN /\ worker \in WorkerThread
    BY DEF IInv, CallbacksInv, CallbacksTypeOK, ThreadsOK
  <2> QED
    BY <2>1 DEF RunNotifier, WorkerThread
<1>5. NotifierInv' /\ MainInv' /\ CallbacksInv'
  BY <1>1, <1>3, Threads, NotifierKept, MainKept, NoteType
     DEF IInv, RunNotifier, callbackVars, SamePlace
<1>6. WorkerInv'
  <2>1. worker.pc = "run" /\ UNCHANGED groupVars /\ UNCHANGED skipVersion
    BY DEF RunNotifier
  <2>2. notifier'.place = notifier.place
    BY <1>3 DEF SamePlace
  <2> QED
    BY <1>4, <2>1, <2>2 DEF IInv, WorkerInv, InRound, groupVars, latest
<1> QED
  BY <1>1, <1>3, <1>4, <1>5, <1>6 DEF RunNotifier, IInv, ThreadsOK, NotifierOK, Moved

LEMMA HandOverStep ==
    ASSUME IInv, HandOver
    PROVE  IInv' /\ Moved(Worker)
<1> USE DEF HandOver
<1> DEFINE n == HandedOver(bound[Worker], worker.saw)
<1>1. /\ n \in Notifier /\ SamePlace(n, notifier)
      /\ n.version = bound[Worker] /\ n.handover \in {0, bound[Worker]}
      /\ bound[Worker] \in Versions /\ bound[Worker] <= latest
  BY HandedOverType, Numbers, Threads DEF IInv
<1>2. CallbacksInv' /\ Len(callbacks') = Len(callbacks) /\ UNCHANGED << callbackCount, miscounted >>
  <2>1. notifier.changes \in ChangeSets
    BY DEF IInv, NotifierOK, Notifier
  <2> QED
    BY <2>1, AddType DEF IInv, AddChanges
<1> HIDE DEF n
<1>3. CASE worker.skip # 0
  <2>1. notifier' = n /\ UNCHANGED << groupVars, skipVersion >>
    BY <1>3 DEF n
  <2>2. Moved(Worker)
    BY <2>1, PlainMove, Threads DEF IInv
  <2>3. /\ worker'.pc = "advance" /\ worker'.version = worker.version
        /\ worker'.skip = 0 /\ worker' \in WorkerThread
    BY <1>3 DEF IInv, ThreadsOK, WorkerThread
  <2>4. MainInv'
    BY <1>1, <1>2, <2>1, <2>2, Threads, MainKept DEF SamePlace
  <2>5. NotifierInv'
    BY <1>1, <2>1, <2>2 DEF IInv, NotifierInv, SamePlace, groupVars, latest
  <2>6. WorkerInv'
    BY <1>1, <2>1, <2>3 DEF IInv, WorkerInv, InRound, SamePlace, groupVars, latest
  <2> QED
    BY <1>1, <1>2, <2>1, <2>2, <2>3, <2>4, <2>5, <2>6
       DEF IInv, ThreadsOK, NotifierOK, Moved
<1>4. CASE worker.skip = 0
  <2>1. CleanUp(n) /\ worker' = [IdleWorker EXCEPT !.pc = "signal"]
    BY <1>4 DEF n
  <2>2. worker'.pc = "signal" /\ worker'.skip = 0 /\ worker' \in WorkerThread
    BY <2>1, Numbers DEF IdleWorker, WorkerThread
  <2>3. /\ Moved(Worker) /\ notifier' \in Notifier /\ skipVersion' \in Versions \cup {0}
        /\ WorkerInv' /\ NotifierInv' /\ MainInv'
    BY <1>1, <1>2, <2>1, <2>2, CleanUpStep
  <2> QED
    BY <1>2, <2>2, <2>3 DEF IInv, ThreadsOK, NotifierOK, Moved
<1> QED
  BY <1>3, <1>4

LEMMA NotifyRealmsStep ==
    ASSUME IInv, NotifyRealms
    PROVE  IInv' /\ Moved(Worker)
<1>1. Moved(Worker)
  BY PlainMove, Threads DEF IInv, NotifyRealms
<1>2. NotifierInv' /\ MainInv' /\ CallbacksInv'
  BY <1>1, Threads, NotifierKept, MainKept, NoteType
     DEF IInv, NotifyRealms, resultsVars, callbackVars
<1>3. /\ worker'.pc = "idle" /\ worker'.skip = worker.skip /\ worker' \in WorkerThread
  BY DEF IInv, ThreadsOK, WorkerThread, NotifyRealms
<1>4. WorkerInv'
  BY <1>3 DEF IInv, WorkerInv, InRound, NotifyRealms, resultsVars, groupVars, latest
<1> QED
  BY <1>1, <1>2, <1>3, <1>4
     DEF IInv, ThreadsOK, NotifierOK, Moved, NotifyRealms, resultsVars

-----------------------------------------------------------------------------
(* The calls of the main thread on its Realm and the steps of the other    *)
(* writer.                                                                 *)

(* What the fields of main may be set to.                                  *)
LEMMA MainFields ==
    ASSUME IInv
    PROVE  /\ HasChanged(Main) \in BOOLEAN /\ main.jumped \in BOOLEAN
           /\ main \in MainThread /\ main.nested \in BOOLEAN
           /\ \A jumped \in BOOLEAN : [main EXCEPT !.jumped = jumped] \in MainThread
           /\ [IdleMain EXCEPT !.jumped = main.jumped] \in MainThread
  BY DEF IInv, ThreadsOK, MainThread, IdleMain, HasChanged

LEMMA ReadAgainStep ==
    ASSUME IInv, ReadAgain
    PROVE  IInv' /\ Moved(Main)
<1> DEFINE jumped == main.jumped \/ HasChanged(Main) \/ InCallback
<1>1. Moved(Main)
  BY PlainMove, Threads DEF IInv, ReadAgain
<1>2. main' = [main EXCEPT !.jumped = jumped] /\ jumped \in BOOLEAN
  BY DEF ReadAgain
<1> HIDE DEF jumped
<1>3. ThreadsOK'
  BY <1>2, MainFields DEF IInv, ThreadsOK, ReadAgain
<1>4. MainInv'
  <2>1. main'.pc \in {"idle", "called"} /\ main'.pc = main.pc
    BY <1>2, MainFields DEF ReadAgain, Free, InCallback, MainThread
  <2> QED
    BY <2>1 DEF IInv, MainInv, Telling, ReadAgain, resultsVars, callbackVars
<1> QED
  BY <1>1, <1>3, <1>4, CallStep DEF ReadAgain

LEMMA StartPackagingType ==
    ASSUME IInv, NEW op \in {"write", "refresh", "ready", "process"},
           NEW target \in Versions \cup {0}, StartPackaging(op, target)
    PROVE  /\ main' \in MainThread /\ wake' \in BOOLEAN
           /\ main'.pc = "packaging" /\ main'.op = op /\ main'.target = target
  BY DEF IInv, ThreadsOK, MainThread, StartPackaging

LEMMA BeginTransactionStep ==
    ASSUME IInv, BeginTransaction
    PROVE  IInv' /\ Moved(Main)
<1> USE DEF BeginTransaction
<1>1. Moved(Main)
  BY PlainMove, Threads DEF IInv
<1>2. main.pc = "idle" /\ latest \in Versions
  BY Numbers DEF Free
<1>3. ThreadsOK' /\ MainInv'
  <2>1. CASE Registered
    <3>1. /\ main' \in MainThread /\ wake' \in BOOLEAN
          /\ main'.pc = "packaging" /\ main'.op = "write"
      BY <1>2, <2>1, StartPackagingType
    <3> QED
      BY <2>1, <3>1 DEF IInv, ThreadsOK, MainInv, Telling, Registered, resultsVars
  <2>2. CASE ~Registered
    BY <1>2, <2>2 DEF IInv, ThreadsOK, MainInv, Telling
  <2> QED
    BY <2>1, <2>2
<1> QED
  BY <1>1, <1>3, CallStep

LEMMA BeginInCallbackStep ==
    ASSUME IInv, BeginInCallback
    PROVE  IInv' /\ Moved(Main)
<1> DEFINE jumped == main.jumped \/ HasChanged(Main)
<1>1. Moved(Main)
  BY PlainMove, Threads DEF IInv, BeginInCallback
<1>2. main' = [main EXCEPT !.nested = TRUE, !.jumped = jumped] /\ jumped \in BOOLEAN
  BY DEF BeginInCallback
<1> HIDE DEF jumped
<1>3. main' \in MainThread /\ main'.pc = "called"
  BY <1>2, MainFields DEF MainThread, BeginInCallback, InCallback
<1>4. ThreadsOK' /\ MainInv'
  BY <1>3 DEF IInv, ThreadsOK, MainInv, Telling, BeginInCallback, InCallback,
              resultsVars, callbackVars
<1> QED
  BY <1>1, <1>4, CallStep DEF BeginInCallback

LEMMA CommitStep ==
    ASSUME IInv, CommitTransaction
    PROVE  IInv' /\ Moved(Main)
<1> USE DEF CommitTransaction
<1>1. Moved(Main) /\ latest' = latest + 1 /\ latest' \in Versions
  BY CommitMove, Threads DEF IInv
<1>2. main' \in MainThread /\ main'.pc = main.pc /\ main.pc \in {"idle", "called"}
  <2> DEFINE jumped == main.jumped \/ main.nested
  <2>1. main' = [main EXCEPT !.halfway = "no", !.nested = FALSE, !.jumped = jumped]
        /\ jumped \in BOOLEAN
    OBVIOUS
  <2> HIDE DEF jumped
  <2> QED
    BY <2>1, MainFields DEF MainThread, MayEnd
<1>3. ThreadsOK'
  BY <1>1, <1>2 DEF IInv, ThreadsOK
<1>4. /\ UNCHANGED resultsVars /\ MainInv'
  BY <1>2 DEF IInv, MainInv, Telling, resultsVars, callbackVars
<1>5. CallbacksInv' /\ NotifierInv' /\ NotifierOK'
  BY <1>1, <1>4, Threads, NoteType, NotifierKept DEF IInv, NotifierOK, resultsVars, callbackVars
<1>6. WorkerInv'
  <2>1. /\ stage'[Worker] = stage[Worker] /\ bound'[Worker] = bound[Worker]
        /\ worker' = worker /\ notifier' = notifier
    BY <1>1, Threads DEF Moved, resultsVars
  <2>2. /\ latest \in Nat /\ bound[Worker] \in Nat /\ bound[Worker] <= latest
        /\ worker.version \in Nat
    BY Numbers, Threads
  <2>3. skipVersion' = latest + 1 \/ skipVersion' = skipVersion
    BY <1>1
  <2>4. skipVersion' # skipVersion => notifier.place = "main"
    OBVIOUS
  <2>5. skipVersion \in Nat
    BY Numbers DEF IInv, ThreadsOK
  <2> QED
    BY <1>1, <2>1, <2>2, <2>3, <2>4, <2>5 DEF IInv, WorkerInv, InRound
<1> QED
  BY <1>1, <1>3, <1>4, <1>5, <1>6 DEF IInv, Moved

LEMMA CancelStep ==
    ASSUME IInv, CancelTransaction
    PROVE  IInv' /\ Moved(Main)
<1>1. Moved(Main)
  BY PlainMove, Threads DEF IInv, CancelTransaction
<1>2. main' \in MainThread /\ main'.pc = main.pc /\ main.pc \in {"idle", "called"}
  BY MainFields DEF MainThread, MayEnd, CancelTransaction
<1>3. ThreadsOK' /\ MainInv'
  BY <1>2 DEF IInv, ThreadsOK, MainInv, Telling, CancelTransaction, resultsVars, callbackVars
<1> QED
  BY <1>1, <1>3, CallStep DEF CancelTransaction

LEMMA InvalidateStep ==
    ASSUME IInv, Invalidate
    PROVE  IInv' /\ Moved(Main)
<1>1. Moved(Main)
  BY PlainMove, Threads DEF IInv, Invalidate
<1>2. ThreadsOK' /\ MainInv'
  BY DEF IInv, ThreadsOK, MainInv, Telling, Invalidate, Free
<1> QED
  BY <1>1, <1>2, CallStep DEF Invalidate

(* To the latest snapshot: of the callers, only those that read.           *)
LEMMA ToLatest ==
    ASSUME IInv, AdvanceRead(Main, latest)
    PROVE  Moved(Main)
<1>1. latest \in Versions /\ latest <= latest /\ bound[Main] <= latest
  BY Numbers, Threads DEF Versions
<1> QED
  BY <1>1, AdvanceMove, Threads DEF IInv

LEMMA RefreshStep ==
    ASSUME IInv, Refresh
    PROVE  IInv' /\ Moved(Main)
<1> USE DEF Refresh
<1>1. main.pc = "idle" /\ latest \in Versions /\ bound[Main] <= latest
  BY Numbers, Threads DEF Free
<1>2. CASE Registered
  <2>1. Moved(Main)
    BY <1>2, PlainMove, Threads DEF IInv
  <2>2. /\ main' \in MainThread /\ wake' \in BOOLEAN
        /\ main'.pc = "packaging" /\ main'.op = "refresh" /\ main'.target = latest
    BY <1>1, <1>2, StartPackagingType
  <2>3. ThreadsOK' /\ MainInv'
    BY <1>1, <1>2, <2>2
       DEF IInv, ThreadsOK, MainInv, Telling, Registered, resultsVars, groupVars
  <2> QED
    BY <2>1, <2>3, CallStep
<1>3. CASE ~Registered
  <2>1. Moved(Main)
    BY <1>3, ToLatest
  <2>2. ThreadsOK' /\ MainInv'
    BY <1>1, <1>3 DEF IInv, ThreadsOK, MainInv, Telling
  <2> QED
    BY <2>1, <2>2, CallStep
<1> QED
  BY <1>2, <1>3

LEMMA RefreshUnreadStep ==
    ASSUME IInv, RefreshUnread
    PROVE  IInv' /\ Moved(Main)
<1> USE DEF RefreshUnread
<1> DEFINE jumped == main.jumped \/ HasChanged(Main)
<1>1. Moved(Main)
  BY PlainMove, Threads DEF IInv
<1>2. /\ main.pc = "idle" /\ jumped \in BOOLEAN
      /\ IF Registered
         THEN main' = [main EXCEPT !.pc = "packaging", !.op = "process", !.target = 0,
                                   !.jumped = jumped]
         ELSE main' = [main EXCEPT !.jumped = jumped]
  BY DEF Free
<1> HIDE DEF jumped
<1>3. main' \in MainThread
  <2>1. CASE Registered
    <3>1. main' = [main EXCEPT !.pc = "packaging", !.op = "process", !.target = 0,
                               !.jumped = jumped]
      BY <1>2, <2>1
    <3>2. jumped \in BOOLEAN /\ main \in MainThread
      BY <1>2, MainFields
    <3> QED
      BY <3>1, <3>2 DEF MainThread
  <2>2. CASE ~Registered
    BY <1>2, <2>2, MainFields
  <2> QED
    BY <2>1, <2>2
<1>4. main'.pc # "idle" => Registered /\ main'.pc = "packaging" /\ main'.op = "process"
  BY <1>2, MainFields DEF MainThread
<1>5. ThreadsOK' /\ MainInv'
  BY <1>3, <1>4 DEF IInv, ThreadsOK, MainInv, Telling, Registered, resultsVars
<1> QED
  BY <1>1, <1>5, CallStep

LEMMA NotifyStep ==
    ASSUME IInv, Notify
    PROVE  IInv' /\ Moved(Main)
<1> USE DEF Notify
<1>1. main.pc = "idle" /\ 0 \in Versions \cup {0}
  BY DEF Free
<1>2. CASE Registered
  <2>1. Moved(Main)
    BY <1>2, PlainMove, Threads DEF IInv
  <2> DEFINE op == IF HasChanged(Main) /\ stage[Main] = "Reading" THEN "ready" ELSE "process"
  <2>2. op \in {"ready", "process"} /\ StartPackaging(op, 0)
    BY <1>2
  <2> HIDE DEF op
  <2>3. /\ main' \in MainThread /\ wake' \in BOOLEAN
        /\ main'.pc = "packaging" /\ main'.op = op
    BY <1>1, <2>2, StartPackagingType
  <2>4. ThreadsOK' /\ MainInv'
    BY <1>2, <2>2, <2>3 DEF IInv, ThreadsOK, MainInv, Telling, Registered, resultsVars
  <2> QED
    BY <2>1, <2>4, CallStep
<1>3. CASE ~Registered
  <2>1. Moved(Main)
    BY <1>3, ToLatest, PlainMove, Threads DEF IInv
  <2>2. ThreadsOK' /\ MainInv'
    BY <1>1, <1>3 DEF IInv, ThreadsOK, MainInv, Telling
  <2> QED
    BY <2>1, <2>2, CallStep
<1> QED
  BY <1>2, <1>3

LEMMA ReturnStep ==
    ASSUME IInv, ReturnFromCallback
    PROVE  IInv' /\ Moved(Main)
<1>1. Moved(Main)
  BY PlainMove, Threads DEF IInv, ReturnFromCallback
<1>2. main' \in MainThread /\ main'.pc = "calling" /\ main.pc = "called"
  BY MainFields DEF MainThread, InCallback, ReturnFromCallback
<1>3. ThreadsOK' /\ MainInv'
  BY <1>2 DEF IInv, ThreadsOK, MainInv, Telling, ReturnFromCallback, resultsVars, callbackVars
<1> QED
  BY <1>1, <1>3, CallStep DEF ReturnFromCallback

LEMMA ReadPastEndStep ==
    ASSUME IInv, ReadPastEnd
    PROVE  IInv' /\ Moved(Main)
<1>1. Moved(Main)
  BY PlainMove, Threads DEF IInv, ReadPastEnd
<1>2. main' \in MainThread /\ main'.pc = "undefined" /\ main.pc = "calling"
  BY MainFields DEF MainThread, ReadPastEnd
<1>3. ThreadsOK' /\ MainInv'
  BY <1>2 DEF IInv, ThreadsOK, MainInv, Telling, ReadPastEnd, resultsVars, callbackVars
<1> QED
  BY <1>1, <1>3, CallStep DEF ReadPastEnd

LEMMA OtherStep ==
    ASSUME IInv, OtherCommits \/ OtherNotifies \/ OtherDies
    PROVE  IInv' /\ Moved(Other)
<1>1. Moved(Other)
  <2>1. CASE OtherCommits
    BY <2>1, CommitMove, Threads DEF IInv, OtherCommits
  <2>2. CASE OtherNotifies \/ OtherDies
    BY <2>2, PlainMove, Threads DEF IInv, OtherNotifies, OtherDies
  <2> QED
    BY <2>1, <2>2
<1>2. /\ UNCHANGED << resultsVars, worker, skipVersion, main, signal >>
      /\ wake' \in BOOLEAN /\ other' \in {"idle", "committed", "dead"}
  BY DEF IInv, ThreadsOK, OtherCommits, OtherNotifies, OtherDies
<1>3. ThreadsOK'
  BY <1>2 DEF IInv, ThreadsOK
<1>4. MainInv'
  BY <1>1, <1>2, MainKept DEF resultsVars, callbackVars
<1> QED
  BY <1>1, <1>2, <1>3, <1>4, CallStep

-----------------------------------------------------------------------------
(* The results and their callbacks on the main thread.                     *)

(* The steps that leave the group, the worker and its place alone.         *)
LEMMA StillStep ==
    ASSUME IInv, UNCHANGED << groupVars, worker, skipVersion >>,
           NotifierOK', NotifierInv', CallbacksInv', ThreadsOK', MainInv',
           notifier'.place = notifier.place
    PROVE  IInv' /\ Moved(Main)
<1>1. Moved(Main)
  BY PlainMove, Threads DEF IInv
<1> QED
  BY <1>1, WorkerKept DEF IInv, Moved

LEMMA RegisterStep ==
    ASSUME IInv, RegisterNotifier
    PROVE  IInv' /\ Moved(Main)
<1> USE DEF RegisterNotifier
<1>1. /\ notifier' = NewNotifier(bound[Main]) /\ notifier' \in Notifier
      /\ bound[Main] \in Versions /\ bound[Main] <= latest
      /\ notifier'.place = "new" /\ notifier'.version = bound[Main]
      /\ notifier'.handover = 0
  BY Numbers, Threads, NewNotifierType DEF PrepareAsync, NewNotifier
<1>2. results' \in Results
  BY NewNotifierType DEF NewResults, Results
<1>3. main.pc = "idle"
  BY DEF IInv, NotifierInv, MainInv
<1>4. Moved(Main)
  BY PlainMove, Threads DEF IInv
<1>5. CallbacksInv'
  BY StartType DEF PrepareAsync
<1>6. NotifierInv' /\ MainInv' /\ ThreadsOK'
  BY <1>1, <1>3 DEF NotifierInv, MainInv, Telling, IInv, ThreadsOK, groupVars, latest
<1>7. WorkerInv'
  BY <1>1 DEF IInv, WorkerInv, InRound, groupVars, latest
<1> QED
  BY <1>1, <1>2, <1>4, <1>5, <1>6, <1>7 DEF IInv, NotifierOK, Moved

LEMMA UseStep ==
    ASSUME IInv, UseResults
    PROVE  IInv' /\ Moved(Main)
<1> USE DEF UseResults
<1>1. NotifierOK' /\ NotifierInv' /\ ThreadsOK'
  BY DEF Evaluate, IInv, NotifierOK, Results, NotifierInv, ThreadsOK, groupVars, latest
<1>2. CallbacksInv'
  BY NoteType DEF IInv
<1>3. MainInv'
  BY DEF IInv, MainInv, Telling, groupVars, callbackVars
<1> QED
  BY <1>1, <1>2, <1>3, StillStep

LEMMA DestroyStep ==
    ASSUME IInv, DestroyResults
    PROVE  IInv' /\ Moved(Main)
<1> USE DEF DestroyResults
<1>1. NotifierOK' /\ NotifierInv' /\ ThreadsOK' /\ notifier'.place = notifier.place
  BY NewNotifierType
     DEF IInv, NotifierOK, Notifier, NotifierInv, ThreadsOK, groupVars, latest
<1>2. CallbacksInv'
  BY StartType
<1>3. MainInv'
  BY DEF MainInv, Telling, Free
<1> QED
  BY <1>1, <1>2, <1>3, StillStep

(* With the notifier as it is and no call of callbacks to begin or end.    *)
LEMMA CallbackStep ==
    ASSUME IInv, UNCHANGED << groupVars, notifier, results, skipVersion, signal, worker, other >>,
           CallbacksInv', main' \in MainThread, wake' \in BOOLEAN, main'.pc = main.pc,
           main.pc \in {"idle", "called"},
           main.pc = "called" /\ ~miscounted' => callbackCount' <= Len(callbacks')
    PROVE  IInv' /\ Moved(Main)
<1>1. NotifierOK' /\ NotifierInv' /\ ThreadsOK'
  BY DEF IInv, NotifierOK, NotifierInv, ThreadsOK, groupVars, latest
<1>2. MainInv'
  BY DEF IInv, MainInv, Telling
<1> QED
  BY <1>1, <1>2, StillStep

LEMMA AddCallbackStep ==
    ASSUME IInv, AddCallback
    PROVE  IInv' /\ Moved(Main)
<1>1. CallbacksInv' /\ Len(callbacks') = Len(callbacks) + 1 /\ callbackCount' = callbackCount
      /\ miscounted' = miscounted
  BY PushType DEF AddCallback, PushCallback, IInv
<1>2. /\ main' \in MainThread /\ wake' \in BOOLEAN /\ main'.pc = main.pc
      /\ main.pc \in {"idle", "called"}
  <2>1. main' = [main EXCEPT !.halfway = "adding"] \/ main' = main
    BY DEF AddCallback
  <2>2. main' \in MainThread /\ main'.pc = main.pc
    BY <2>1, MainFields DEF MainThread
  <2> QED
    BY <2>2 DEF AddCallback, Free, InCallback, IInv, ThreadsOK
<1>3. main.pc = "called" /\ ~miscounted' => callbackCount' <= Len(callbacks')
  BY <1>1, Numbers DEF IInv, MainInv, Telling
<1> QED
  BY <1>1, <1>2, <1>3, CallbackStep DEF AddCallback

LEMMA FinishAddStep ==
    ASSUME IInv, FinishAddCallback
    PROVE  IInv' /\ Moved(Main)
<1> USE DEF FinishAddCallback
<1>1. CallbacksInv' /\ Len(callbacks') = Len(callbacks) /\ callbackCount' = callbackCount
      /\ miscounted' = miscounted
  BY NoteType DEF NoteCallbacks, IInv
<1>2. main' \in MainThread /\ main'.pc = main.pc
  BY MainFields DEF MainThread
<1>3. NotifierOK' /\ NotifierInv' /\ ThreadsOK'
  BY <1>2 DEF IInv, NotifierOK, NotifierInv, ThreadsOK, groupVars, latest
<1>4. MainInv'
  <2>1. main'.op = main.op /\ main'.target = main.target
    BY MainFields DEF MainThread
  <2> QED
    BY <1>1, <1>2, <2>1 DEF IInv, MainInv, Telling, groupVars
<1> QED
  BY <1>1, <1>3, <1>4, StillStep

LEMMA RemoveStep ==
    ASSUME IInv, NEW token \in Tokens, RemoveCallbackOf(token)
    PROVE  IInv' /\ Moved(Main)
<1> USE DEF RemoveCallbackOf
<1>1. /\ CallbacksInv' /\ Len(callbacks') = Len(callbacks) - 1
      /\ miscounted => miscounted'
      /\ main.pc = "called" /\ callbackCount \in 0 .. MaxTokens /\ ~miscounted' =>
           IndexOf(token) <= callbackCount /\ callbackCount' = callbackCount - 1
  <2>1. InCallback \in BOOLEAN /\ (main.pc = "called" => InCallback)
    BY DEF InCallback, Free
  <2> QED
    BY <2>1, RemoveType DEF IInv
<1>2. /\ main' \in MainThread /\ wake' \in BOOLEAN /\ main'.pc = main.pc
      /\ main.pc \in {"idle", "called"}
  BY MainFields DEF Free, InCallback, IInv, ThreadsOK
<1>3. ASSUME main.pc = "called", ~miscounted'
      PROVE  callbackCount' <= Len(callbacks')
  <2>1. callbackCount <= Len(callbacks)
    BY <1>1, <1>3 DEF IInv, MainInv, Telling
  <2>2. callbackCount \in 0 .. MaxTokens
    BY <2>1, Numbers, CallbacksAssumption
  <2> QED
    BY <1>1, <1>3, <2>1, <2>2, Numbers
<1> QED
  BY <1>1, <1>2, <1>3, CallbackStep

LEMMA SuppressStep ==
    ASSUME IInv, NEW token \in Tokens, SuppressNext(token)
    PROVE  IInv' /\ Moved(Main)
<1> USE DEF SuppressNext
<1>1. latest + 1 \in Versions
  BY Numbers, GroupAssumption DEF Versions
<1>2. CallbacksInv' /\ Len(callbacks') = Len(callbacks) /\ callbackCount' = callbackCount
      /\ miscounted' = miscounted
  BY <1>1, SuppressType DEF IInv, SuppressNextNotification
<1>3. /\ main' \in MainThread /\ wake' \in BOOLEAN /\ main'.pc = main.pc
      /\ main.pc \in {"idle", "called"}
  BY MainFields DEF MainThread, MayEnd, IInv, ThreadsOK
<1>4. main.pc = "called" /\ ~miscounted' => callbackCount' <= Len(callbacks')
  BY <1>2 DEF IInv, MainInv, Telling
<1> QED
  BY <1>2, <1>3, <1>4, CallbackStep

LEMMA CallNextStep ==
    ASSUME IInv, CallNext
    PROVE  IInv' /\ Moved(Main)
<1> USE DEF CallNext
<1>1. main.package \in Versions \cup {0} /\ main' \in MainThread /\ main'.pc = "called"
  BY MainFields, Numbers DEF MainThread
<1>2. CallbacksInv' /\ Len(callbacks') = Len(callbacks) /\ UNCHANGED << callbackCount, miscounted >>
  BY <1>1, CallType DEF IInv, CallCallback
<1>3. NotifierOK' /\ NotifierInv' /\ ThreadsOK'
  BY <1>1 DEF IInv, NotifierOK, NotifierInv, ThreadsOK, groupVars, latest
<1>4. MainInv'
  BY <1>1, <1>2 DEF IInv, MainInv, Telling
<1> QED
  BY <1>2, <1>3, <1>4, StillStep

LEMMA FinishCallingStep ==
    ASSUME IInv, FinishCalling
    PROVE  IInv' /\ Moved(Main)
<1> USE DEF FinishCalling
<1>1. main' \in MainThread /\ main'.pc = "idle"
  BY MainFields DEF Return, IdleMain
<1>2. CallbacksInv'
  BY StopType DEF IInv
<1>3. NotifierOK' /\ NotifierInv' /\ ThreadsOK' /\ MainInv'
  BY <1>1 DEF IInv, NotifierOK, NotifierInv, ThreadsOK, groupVars, latest, MainInv, Telling
<1> QED
  BY <1>2, <1>3, StillStep

LEMMA DeliverStep ==
    ASSUME IInv, DeliverView
    PROVE  IInv' /\ Moved(Main)
<1> USE DEF DeliverView
<1>1. main' \in MainThread /\ main'.pc = "calling"
  BY MainFields DEF MainThread
<1>2. /\ notifier' \in Notifier /\ notifier'.place = notifier.place
      /\ notifier'.alive = notifier.alive /\ notifier'.version = notifier.version
      /\ notifier'.handover = notifier.handover
  BY DEF Deliver, IInv, NotifierOK, Notifier, Views
<1>3. results' \in Results
  <2>1. CASE notifier.toDeliver = 0
    BY <2>1 DEF Deliver, IInv, NotifierOK
  <2>2. CASE notifier.toDeliver # 0 /\ results.mode = "TableView"
    BY <2>2 DEF Deliver, IInv, NotifierOK, Results
  <2>3. CASE notifier.toDeliver # 0 /\ results.mode # "TableView"
    BY <2>3 DEF Deliver, IInv, NotifierOK, Results
  <2> QED
    BY <2>1, <2>2, <2>3
<1>4. CallbacksInv'
  BY NoteType DEF IInv
<1>5. NotifierInv' /\ ThreadsOK' /\ MainInv'
  BY <1>1, <1>2 DEF IInv, NotifierInv, ThreadsOK, MainInv, Telling, groupVars, latest,
                    callbackVars
<1> QED
  BY <1>2, <1>3, <1>4, <1>5, StillStep DEF NotifierOK

-----------------------------------------------------------------------------
(* Packaging.                                                              *)

LEMMA PackagedType ==
    ASSUME IInv, PackageNotifier \/ (notifier' = Packaged /\ PackageAndDiscard)
    PROVE  /\ notifier' \in Notifier /\ notifier'.place = notifier.place
           /\ notifier'.alive = notifier.alive /\ notifier'.version = notifier.version
           /\ notifier'.handover \in {0, notifier.handover}
           /\ CallbacksInv'
           /\ PackageNotifier /\ notifier.hasRun =>
                /\ callbackCount' = Len(callbacks')
                /\ notifier'.toDeliver \in {0, notifier.version}
<1>1. CASE PackageNotifier /\ ~notifier.hasRun
  BY <1>1, NoteType DEF PackageNotifier, IInv, NotifierOK
<1>2. CASE ~(PackageNotifier /\ ~notifier.hasRun)
  <2>1. notifier' = Packaged /\ (PackageCallbacks \/ PackageAndDiscard)
    BY <1>2 DEF PackageNotifier
  <2>2. /\ notifier' \in Notifier /\ notifier'.place = notifier.place
        /\ notifier'.alive = notifier.alive /\ notifier'.version = notifier.version
        /\ notifier'.handover = 0 /\ notifier'.toDeliver = notifier.handover
    BY <2>1 DEF Packaged, IInv, NotifierOK, Notifier, Views
  <2>3. CallbacksInv' /\ (PackageCallbacks => callbackCount' = Len(callbacks'))
    BY <2>1, PackageType DEF IInv
  <2>4. PackageNotifier /\ notifier.hasRun => PackageCallbacks
    BY DEF PackageNotifier
  <2> QED
    BY <2>2, <2>3, <2>4 DEF IInv, NotifierInv
<1> QED
  BY <1>1, <1>2

LEMMA CarryType ==
    ASSUME IInv, NEW pc \in {"delivering", "calling"}, Carry(pc) \/ Return
    PROVE  /\ main' \in MainThread /\ main'.pc \in {"idle", pc}
           /\ main'.pc = pc => Carry(pc) /\ PackageVersion # 0
<1>1. CASE Return
  BY <1>1, MainFields DEF Return, IdleMain, MainThread
<1>2. CASE Carry(pc) /\ PackageVersion # 0
  <2> DEFINE jumped == main.jumped /\ PackageVersion < bound[Main]
  <2>1. main' = [IdleMain EXCEPT !.package = PackageVersion, !.pc = pc, !.jumped = jumped]
    BY <1>2 DEF Carry
  <2>2. jumped \in BOOLEAN
    OBVIOUS
  <2>3. PackageVersion \in Versions
    BY <1>2, Numbers DEF PackageVersion
  <2> HIDE DEF jumped
  <2>4. main'.pc = pc
    BY <2>1 DEF IdleMain
  <2> QED
    BY <1>2, <2>1, <2>2, <2>3, <2>4 DEF IdleMain, MainThread
<1>3. CASE Carry(pc) /\ PackageVersion = 0
  <2>1. Return
    BY <1>3 DEF Carry
  <2> QED
    BY <2>1, <1>1
<1> QED
  BY <1>1, <1>2, <1>3

(* What all of the packaging has in common: a view is only carried on for  *)
(* delivery with the accessor on its snapshot.                             *)
LEMMA PackageStep ==
    ASSUME IInv, Moved(Main), main.pc = "packaging", NEW pc \in {"delivering", "calling"},
           \/ PackageNotifier /\ Carry(pc)
           \/ notifier' = Packaged /\ PackageAndDiscard /\ Return
           \/ UNCHANGED << notifier, callbackVars >> /\ Return,
           pc = "delivering" /\ PackageNotifier /\ Carry(pc) /\ PackageVersion # 0
                => bound'[Main] = notifier.version,
           UNCHANGED << results, skipVersion, wake, signal, worker, other >>
    PROVE  IInv'
<1>1. /\ main' \in MainThread /\ main'.pc \in {"idle", pc}
      /\ main'.pc = pc => Carry(pc) /\ PackageVersion # 0
  BY CarryType
<1>2. /\ notifier' \in Notifier /\ notifier'.place = notifier.place
      /\ notifier'.alive = notifier.alive /\ notifier'.version = notifier.version
      /\ notifier'.handover \in {0, notifier.handover}
      /\ CallbacksInv'
  <2>1. CASE UNCHANGED << notifier, callbackVars >>
    BY <2>1, NoteType DEF IInv, NotifierOK
  <2>2. CASE PackageNotifier \/ (notifier' = Packaged /\ PackageAndDiscard)
    BY <2>2, PackagedType
  <2> QED
    BY <2>1, <2>2
<1>3. WorkerInv' /\ NotifierInv'
  BY <1>2, Threads, WorkerKept, NotifierKept
<1>4. ThreadsOK' /\ NotifierOK'
  BY <1>1, <1>2 DEF IInv, ThreadsOK, NotifierOK
<1>5. MainInv'
  <2>1. CASE main'.pc = "idle"
    BY <2>1 DEF MainInv, Telling
  <2>2. CASE main'.pc = pc
    <3>1. PackageVersion # 0 /\ notifier.hasRun /\ Carry(pc)
      BY <1>1, <2>2 DEF PackageVersion
    <3>2. ~Return
      BY <2>2 DEF Return, IdleMain
    <3>3. PackageNotifier
      BY <3>2
    <3>4. callbackCount' = Len(callbacks') /\ notifier'.toDeliver \in {0, notifier.version}
      BY <3>1, <3>3, PackagedType
    <3>5. Len(callbacks') \in Nat /\ notifier'.alive
      BY <1>2 DEF CallbacksInv, CallbacksTypeOK, IInv, MainInv
    <3>6. pc = "delivering" => bound'[Main] = notifier.version
      BY <3>1, <3>3
    <3> QED
      BY <2>2, <3>4, <3>5, <3>6 DEF MainInv, Telling
  <2> QED
    BY <1>1, <2>1, <2>2
<1> QED
  BY <1>2, <1>3, <1>4, <1>5 DEF IInv, Moved

(* The version a package carries the accessor to.                          *)
LEMMA PackageGoal ==
    ASSUME IInv
    PROVE  LET goal == OrElse(PackageVersion, latest) IN
           /\ goal \in Versions /\ goal <= latest
           /\ PackageVersion # 0 => goal = notifier.version
           /\ goal = latest \/ (notifier.hasRun /\ goal = notifier.version
                                  /\ notifier.version >= main.target)
  BY Numbers DEF OrElse, PackageVersion, IInv, NotifierInv, Versions

LEMMA PackageForWriteStep ==
    ASSUME IInv, PackageForWrite
    PROVE  IInv' /\ Moved(Main)
<1>1. Moved(Main)
  BY PlainMove, Threads DEF IInv, PackageForWrite
<1> QED
  BY <1>1, PackageStep DEF PackageForWrite, Packaging

LEMMA PackageForRefreshStep ==
    ASSUME IInv, PackageForRefresh
    PROVE  IInv' /\ Moved(Main)
<1> DEFINE goal == OrElse(PackageVersion, latest)
<1>1. /\ goal \in Versions /\ goal <= latest
      /\ PackageVersion # 0 => goal = notifier.version
      /\ goal = latest \/ (goal = notifier.version /\ notifier.version >= main.target)
  BY PackageGoal
<1>2. main.pc = "packaging" /\ AdvanceRead(Main, goal) /\ bound[Main] <= main.target
  BY DEF PackageForRefresh, Packaging, IInv, MainInv
<1> HIDE DEF goal
<1>3. bound[Main] <= goal
  BY <1>1, <1>2, Numbers, Threads
<1>4. Moved(Main)
  BY <1>1, <1>2, <1>3, AdvanceMove, Threads DEF IInv
<1>5. bound'[Main] = goal
  BY <1>2, Threads DEF AdvanceRead, IInv, GroupInv, GroupTypeOK
<1> QED
  BY <1>1, <1>2, <1>4, <1>5, PackageStep DEF PackageForRefresh

LEMMA PackageReadyStep ==
    ASSUME IInv, PackageReady
    PROVE  IInv' /\ Moved(Main)
<1> DEFINE goal == OrElse(PackageVersion, latest)
<1>1. /\ goal \in Versions /\ goal <= latest
      /\ PackageVersion # 0 => goal = notifier.version
      /\ goal = latest \/ (notifier.hasRun /\ goal = notifier.version)
  BY PackageGoal
<1>2. /\ main.pc = "packaging" /\ AdvanceRead(Main, goal)
      /\ ~(notifier.hasRun /\ notifier.version < bound[Main])
  BY DEF PackageReady, Packaging
<1> HIDE DEF goal
<1>3. bound[Main] <= goal
  BY <1>1, <1>2, Numbers, Threads
<1>4. Moved(Main)
  BY <1>1, <1>2, <1>3, AdvanceMove, Threads DEF IInv
<1>5. bound'[Main] = goal
  BY <1>2, Threads DEF AdvanceRead, IInv, GroupInv, GroupTypeOK
<1> QED
  BY <1>1, <1>2, <1>4, <1>5, PackageStep DEF PackageReady

LEMMA DiscardStep ==
    ASSUME IInv, DiscardPackage
    PROVE  IInv' /\ Moved(Main)
<1>1. Moved(Main)
  BY PlainMove, Threads DEF IInv, DiscardPackage
<1>2. main.pc = "packaging" /\ "calling" \in {"delivering", "calling"}
  BY DEF DiscardPackage, Packaging
<1> QED
  BY <1>1, <1>2, PackageStep DEF DiscardPackage

LEMMA ProcessAvailableStep ==
    ASSUME IInv, ProcessAvailable
    PROVE  IInv' /\ Moved(Main)
<1>1. Moved(Main) /\ UNCHANGED groupVars
  BY PlainMove, Threads DEF IInv, ProcessAvailable
<1>2. /\ main.pc = "packaging"
      /\ UNCHANGED << results, skipVersion, wake, signal, worker, other >>
  BY DEF ProcessAvailable, Packaging
<1>3. CASE notifier.hasRun /\ stage[Main] = "Reading" /\ notifier.version = bound[Main]
  <2>1. PackageNotifier /\ Carry("delivering") /\ bound'[Main] = notifier.version
    BY <1>1, <1>3 DEF ProcessAvailable, groupVars
  <2> QED
    BY <1>1, <1>2, <2>1, PackageStep
<1>4. CASE notifier.hasRun /\ stage[Main] # "Reading"
  <2>1. PackageNotifier /\ Carry("calling")
    BY <1>4 DEF ProcessAvailable
  <2> QED
    BY <1>1, <1>2, <2>1, PackageStep
<1>5. CASE ~(notifier.hasRun /\ (stage[Main] = "Reading" => notifier.version = bound[Main]))
  <2>1. UNCHANGED << notifier, callbackVars >> /\ Return
    BY <1>5 DEF ProcessAvailable
  <2> QED
    BY <1>1, <1>2, <2>1, PackageStep
<1> QED
  BY <1>3, <1>4, <1>5

-----------------------------------------------------------------------------
(* The theorems.                                                           *)

LEMMA InvInit == Init => IInv
<1> SUFFICES ASSUME Init PROVE IInv
  OBVIOUS
<1> USE DEF Init
<1>1. GroupInv /\ stage[Worker] = "Ready" /\ latest = 1
  <2>1. FALSE \in Contents /\ {Main, Other} \in SUBSET Accessors
    BY ResultsAssumption, Threads
  <2> QED
    BY <2>1, GroupInitInv, Threads DEF GroupInit, latest
<1>2. NotifierOK /\ CallbacksInv
  BY NewNotifierType, NoCallbacksType DEF ResultsInit, NotifierOK
<1>3. ThreadsOK
  <2>1. 1 \in Versions
    BY GroupAssumption DEF Versions
  <2>2. IdleWorker \in WorkerThread /\ IdleMain \in MainThread
    BY <2>1 DEF IdleWorker, WorkerThread, IdleMain, MainThread
  <2> QED
    BY <2>2 DEF ThreadsOK
<1>4. WorkerInv /\ NotifierInv /\ MainInv
  BY <1>1, NewNotifierType
     DEF ResultsInit, WorkerInv, NotifierInv, MainInv, InRound, Telling, IdleWorker, IdleMain
<1> QED
  BY <1>1, <1>2, <1>3, <1>4 DEF IInv

(* Every step keeps the invariant and moves one accessor, forwards.        *)
LEMMA InvStep ==
    ASSUME IInv, [Next]_vars
    PROVE  IInv' /\ \E a \in Accessors : Moved(a)
<1>0. Main \in Accessors /\ Other \in Accessors /\ Worker \in Accessors
  BY Threads
<1>1. CASE WorkerStep
  <2>1. IInv' /\ Moved(Worker)
    BY <1>1, NothingToRunStep, StartRoundStep, AdvanceStep, RunNotifierStep,
       HandOverStep, NotifyRealmsStep DEF WorkerStep
  <2> QED
    BY <1>0, <2>1
<1>2. CASE ProgramStep
  <2>1. IInv' /\ Moved(Main)
    BY <1>2, ReadAgainStep, RegisterStep, UseStep, DestroyStep, AddCallbackStep,
       RemoveStep, BeginTransactionStep, BeginInCallbackStep, SuppressStep,
       InvalidateStep, RefreshStep, RefreshUnreadStep DEF ProgramStep
  <2> QED
    BY <1>0, <2>1
<1>3. CASE MainRuns
  <2>1. IInv' /\ Moved(Main)
    BY <1>3, FinishAddStep, PackageForWriteStep, PackageForRefreshStep, PackageReadyStep,
       DiscardStep, ProcessAvailableStep, DeliverStep, CallNextStep, ReturnStep,
       FinishCallingStep, ReadPastEndStep DEF MainRuns
  <2> QED
    BY <1>0, <2>1
<1>4. CASE EndTransaction \/ Notify
  <2>1. IInv' /\ Moved(Main)
    BY <1>4, CommitStep, CancelStep, NotifyStep DEF EndTransaction
  <2> QED
    BY <1>0, <2>1
<1>5. CASE OtherCommits \/ OtherNotifies \/ OtherDies
  BY <1>0, <1>5, OtherStep
<1>6. CASE UNCHANGED vars
  <2>1. IInv' /\ Moved(Main)
    <3>1. /\ UNCHANGED << groupVars, worker, skipVersion >>
          /\ NotifierOK' /\ NotifierInv' /\ ThreadsOK' /\ MainInv'
          /\ notifier'.place = notifier.place /\ UNCHANGED callbackVars
      BY <1>6 DEF vars, resultsVars, callbackVars, groupVars, IInv, NotifierOK, NotifierInv,
                  ThreadsOK, MainInv, Telling, latest
    <3>2. CallbacksInv'
      BY <3>1, NoteType DEF IInv
    <3> QED
      BY <3>1, <3>2, StillStep
  <2> QED
    BY <1>0, <2>1
<1> QED
  BY <1>1, <1>2, <1>3, <1>4, <1>5, <1>6 DEF Next

LEMMA Invariant == Spec => []IInv
<1>1. IInv /\ [Next]_vars => IInv'
  BY InvStep
<1> QED
  BY InvInit, <1>1, PTL DEF Spec

(* What the threads, the notifier and its callbacks hold has its type,     *)
(* however the worker's rounds and the main thread's calls interleave.     *)
THEOREM ThreadsTypeCorrect == Spec => []TypeOK
<1>1. IInv => TypeOK
  BY DEF IInv, TypeOK, ThreadsOK, NotifierOK, ResultsTypeOK, CallbacksInv, GroupInv
<1> QED
  BY Invariant, <1>1, PTL

(* The assertions of the notification pipeline: the loop over the          *)
(* callbacks stays within them, a view is imported into its own snapshot,  *)
(* and the version to stop at is ahead of the worker's reader.             *)
THEOREM PipelineAssertionsHold == Spec => []AssertionsHold
<1>1. IInv => AssertionsHold
  BY DEF IInv, MainInv, WorkerInv, Telling, AssertionsHold, CountFits, ViewFitsSnapshot,
         SkipIsAhead
<1> QED
  BY Invariant, <1>1, PTL

(* Whatever a call of the main thread finds packaged, and wherever the     *)
(* worker stops on the way, no reader is moved to an earlier snapshot.     *)
THEOREM ReadersGoForward == Spec => NoReaderGoesBack
<1>1. IInv /\ [Next]_vars => [\A a \in Accessors : bound[a] <= bound'[a]]_vars
  <2> SUFFICES ASSUME IInv, [Next]_vars
               PROVE  \A a \in Accessors : bound[a] <= bound'[a]
    OBVIOUS
  <2> QED
    BY InvStep DEF Moved
<1> QED
  BY Invariant, <1>1, PTL DEF Spec, NoReaderGoesBack

-----------------------------------------------------------------------------
(* No change lost, none told twice.                                        *)

(* ToldExactly without the tuple: what is told, waits, was skipped or      *)
(* discarded makes up the changes, in separate sets.                       *)
Exactly(c, changes) ==
    /\ c.told \cup c.toDeliver \cup c.accumulated \cup c.skipped \cup c.discarded
         = changes
    /\ c.told \cap c.toDeliver = {} /\ c.told \cap c.accumulated = {}
    /\ c.told \cap c.skipped = {} /\ c.told \cap c.discarded = {}
    /\ c.toDeliver \cap c.accumulated = {} /\ c.toDeliver \cap c.skipped = {}
    /\ c.toDeliver \cap c.discarded = {} /\ c.accumulated \cap c.skipped = {}
    /\ c.accumulated \cap c.discarded = {} /\ c.skipped \cap c.discarded = {}

LEMMA ExactlyTold ==
    ASSUME NEW c
    PROVE  ToldExactly(c) <=> Exactly(c, ChangedBetween(c.base, notifier.version))
<1> DEFINE parts == << c.told, c.toDeliver, c.accumulated, c.skipped, c.discarded >>
<1>1. /\ parts[1] = c.told /\ parts[2] = c.toDeliver /\ parts[3] = c.accumulated
      /\ parts[4] = c.skipped /\ parts[5] = c.discarded
  OBVIOUS
<1>2. ToldExactly(c) <=> /\ UNION {parts[i] : i \in 1 .. 5} = ChangedBetween(c.base, notifier.version)
                         /\ \A i, j \in 1 .. 5 : i # j => parts[i] \cap parts[j] = {}
  BY DEF ToldExactly
<1> HIDE DEF parts
<1>3. 1 .. 5 = {1, 2, 3, 4, 5}
  OBVIOUS
<1>4. UNION {parts[i] : i \in {1, 2, 3, 4, 5}}
        = parts[1] \cup parts[2] \cup parts[3] \cup parts[4] \cup parts[5]
  OBVIOUS
<1>5. (\A i, j \in {1, 2, 3, 4, 5} : i # j => parts[i] \cap parts[j] = {})
        <=> /\ parts[1] \cap parts[2] = {} /\ parts[1] \cap parts[3] = {}
            /\ parts[1] \cap parts[4] = {} /\ parts[1] \cap parts[5] = {}
            /\ parts[2] \cap parts[3] = {} /\ parts[2] \cap parts[4] = {}
            /\ parts[2] \cap parts[5] = {} /\ parts[3] \cap parts[4] = {}
            /\ parts[3] \cap parts[5] = {} /\ parts[4] \cap parts[5] = {}
  OBVIOUS
<1> QED
  BY <1>1, <1>2, <1>3, <1>4, <1>5 DEF Exactly

(* The callbacks the loop has yet to come to, and those it will come to.   *)
Waits(i) == Telling /\ callbackIndex < i
Counted(i) == Telling /\ i <= callbackCount

(* What a callback holds, by whether it waits and is counted.  After a     *)
(* package for a snapshot, one that has not been called yet is prepared    *)
(* for its history to start there.                                         *)
DeliveryOK(c, waits, counted) ==
    /\ c.initialDelivered => notifier.hasRun /\ c.base \in 1 .. notifier.version
    /\ ~c.initialDelivered => c.told = {}
    /\ ~notifier.hasRun => c.accumulated = {} /\ c.skipped = {}
    /\ (waits /\ counted) \/ c.toDeliver = {}
    /\ Telling /\ ~counted => ~c.initialDelivered
    /\ Telling /\ ~waits => c.initialDelivered

HistoryOK(c, counted) ==
    /\ c.initialDelivered => Exactly(c, ChangedBetween(c.base, notifier.version))
    /\ c.accumulated \subseteq 1 .. notifier.version
    /\ c.skipped \subseteq 1 .. notifier.version
    /\ counted => \A v \in c.accumulated : v > main.package
    /\ counted /\ ~c.initialDelivered =>
         /\ c.accumulated \cup {v \in c.skipped : v > main.package}
              = ChangedBetween(main.package, notifier.version)
         /\ c.accumulated \cap c.skipped = {}

(* With a wrong count only that the notifier has run.                      *)
CallbackInv(c, waits, counted) ==
    /\ c.initialDelivered => notifier.hasRun
    /\ ~miscounted => /\ DeliveryOK(c, waits, counted)
                      /\ ~notifier.stale => HistoryOK(c, counted)

EachInv == \A i \in 1 .. Len(callbacks) : CallbackInv(callbacks[i], Waits(i), Counted(i))

(* The loop over the callbacks and m_have_callbacks.                       *)
LoopInv ==
    /\ Telling => /\ notifier.hasRun /\ main.package \in 1 .. notifier.version
                  /\ miscounted \/ callbackIndex <= callbackCount
    /\ callbackIndex <= Len(callbacks)
    /\ main.pc \notin {"calling", "called", "undefined"} => callbackIndex = 0
    /\ main.halfway # "no" => main.pc \in {"idle", "called"}
    /\ ~haveCallbacks => Len(callbacks) = 0 \/ main.halfway = "adding"
    /\ ~notifier.alive => Len(callbacks) = 0

(* A round goes from the notifier's version to that of the reader, and its *)
(* rows are those of the notifier's version, but for a stale value.        *)
RoundInv ==
    /\ notifier.place # "main" => ~notifier.hasRun
    /\ notifier.hasRun =>
         IF worker.pc \in {"run", "handover"}
         THEN worker.base = notifier.version /\ worker.base <= bound[Worker]
         ELSE bound[Worker] = notifier.version
    /\ worker.pc # "handover" \/ ~notifier.hasRun => notifier.changes = {}
    /\ notifier.previousRows <= IF worker.pc = "handover" THEN bound[Worker]
                                ELSE IF notifier.hasRun THEN notifier.version ELSE 0
    /\ worker.pc = "run" => \/ worker.saw = {TRUE} /\ worker.tracked = notifier.hasRun
                            \/ worker.saw = {FALSE}
    /\ worker.pc = "handover" => worker.saw # {}

RowsInv ==
    ~notifier.stale =>
      /\ worker.pc = "handover" => ChangedBetween(notifier.previousRows, bound[Worker]) = {}
      /\ worker.pc # "handover" /\ notifier.hasRun =>
           ChangedBetween(notifier.previousRows, notifier.version) = {}
      /\ worker.pc = "handover" /\ notifier.hasRun /\ FALSE \notin worker.saw =>
           notifier.changes = ChangedBetween(notifier.version, bound[Worker])

(* Where the Realm stands while it delivers, and before.                   *)
StandInv ==
    /\ Telling => main.jumped \/ bound[Main] = main.package \/ stage[Main] = "Ready"
    /\ main.pc = "packaging" /\ main.op = "write" => writer = Main /\ main.target = latest
    /\ main.pc = "packaging" /\ main.op # "write" => stage[Main] # "Writing"
    /\ main.nested => main.pc = "called"

EInv == EachInv /\ LoopInv /\ RoundInv /\ RowsInv /\ StandInv

-----------------------------------------------------------------------------
(* The file between two snapshots stays as it is.                          *)
Grown ==
    /\ latest \in Nat /\ latest' \in Nat /\ latest <= latest'
    /\ \A v \in 1 .. latest : snapshots'[v] = snapshots[v]

LEMMA FileGrows ==
    ASSUME IInv, [Next]_vars
    PROVE  /\ Grown
           /\ \/ UNCHANGED snapshots
              \/ (\E touches \in BOOLEAN : CommitAndContinueAsRead(Main, touches)) /\ CommitTransaction
              \/ (\E touches \in BOOLEAN : WriteAtOnce(Other, touches)) /\ OtherCommits
<1>1. \/ UNCHANGED snapshots
      \/ (\E touches \in BOOLEAN : CommitAndContinueAsRead(Main, touches)) /\ CommitTransaction
      \/ (\E touches \in BOOLEAN : WriteAtOnce(Other, touches)) /\ OtherCommits
  <2> USE DEF groupVars, BeginRead, EndRead, AdvanceRead, LockForWrite, FinishPromotion,
              PromoteToWrite, RollbackAndContinueAsRead
  <2>1. CASE WorkerStep
    BY <2>1 DEF WorkerStep, NothingToRun, CleanUp, StartRound, Advance, RunNotifier, HandOver,
                NotifyRealms
  <2>2. CASE ProgramStep
    BY <2>2 DEF ProgramStep, ReadAgain, RegisterNotifier, UseResults, DestroyResults, AddCallback,
                RemoveCallbackOf, BeginTransaction, BeginInCallback, SuppressNext, Invalidate,
                Refresh, RefreshUnread
  <2>3. CASE MainRuns
    BY <2>3 DEF MainRuns, FinishAddCallback, PackageForWrite, PackageForRefresh, PackageReady,
                DiscardPackage, ProcessAvailable, DeliverView, CallNext, ReturnFromCallback,
                FinishCalling, ReadPastEnd
  <2>4. CASE EndTransaction \/ Notify
    BY <2>4 DEF EndTransaction, Notify, CommitTransaction, CancelTransaction
  <2>5. CASE OtherCommits \/ OtherNotifies \/ OtherDies
    BY <2>5 DEF OtherCommits, OtherNotifies, OtherDies
  <2>6. CASE UNCHANGED vars
    BY <2>6 DEF vars
  <2> QED
    BY <2>1, <2>2, <2>3, <2>4, <2>5, <2>6 DEF Next
<1>2. latest \in Nat
  BY Numbers
<1>3. CASE UNCHANGED snapshots
  BY <1>2, <1>3 DEF Grown, latest
<1>4. ASSUME NEW touches \in BOOLEAN,
             CommitAndContinueAsRead(Main, touches) \/ WriteAtOnce(Other, touches)
      PROVE  Grown
  <2>1. touches \in Contents /\ latest < MaxVersion /\ snapshots' = Append(snapshots, touches)
    BY <1>4, ResultsAssumption DEF CommitAndContinueAsRead, WriteAtOnce
  <2>2. latest' = latest + 1 /\ \A v \in 1 .. latest : snapshots'[v] = snapshots[v]
    BY <2>1, AppendExtends DEF IInv, GroupInv
  <2> QED
    BY <1>2, <2>2 DEF Grown
<1> QED
  BY <1>1, <1>3, <1>4

(* So what changed between two snapshots of the file remains.              *)
LEMMA ChangesStay ==
    ASSUME Grown, NEW from \in Nat, NEW to \in Nat, to <= latest
    PROVE  {v \in from + 1 .. to : snapshots'[v]} = ChangedBetween(from, to)
  BY DEF Grown, ChangedBetween

-----------------------------------------------------------------------------
(* The steps that leave a part of the invariant alone.                     *)

(* What the invariant says of a callback says the same of another.         *)
Alike(c, d) ==
    /\ c.initialDelivered = d.initialDelivered /\ c.base = d.base
    /\ c.told = d.told /\ c.toDeliver = d.toDeliver /\ c.accumulated = d.accumulated
    /\ c.skipped = d.skipped /\ c.discarded = d.discarded

LEMMA OneKept ==
    ASSUME IInv, EInv, Grown,
           notifier'.version = notifier.version, notifier'.hasRun = notifier.hasRun,
           notifier.stale => notifier'.stale,
           Telling' <=> Telling, Telling => main'.package = main.package,
           NEW i \in 1 .. Len(callbacks), NEW j, Alike(callbacks'[j], callbacks[i]),
           miscounted => miscounted',
           ~miscounted' => (Waits(j)' <=> Waits(i)) /\ (Counted(j)' <=> Counted(i))
    PROVE  CallbackInv(callbacks[j], Waits(j), Counted(j))'
<1>1. CallbackInv(callbacks[i], Waits(i), Counted(i))
  BY DEF EInv, EachInv
<1>2. /\ callbacks'[j].initialDelivered => notifier'.hasRun
      /\ ~miscounted' => DeliveryOK(callbacks[j], Waits(j), Counted(j))'
  BY <1>1 DEF CallbackInv, DeliveryOK, Alike
<1>3. ASSUME ~notifier'.stale, ~miscounted'
      PROVE  HistoryOK(callbacks[j], Counted(j))'
  <2>1. HistoryOK(callbacks[i], Counted(i)) /\ notifier.version \in Nat /\ notifier.version <= latest
    BY <1>1, <1>3, Numbers DEF CallbackInv, IInv, NotifierInv
  <2>2. callbacks[i].initialDelivered =>
          ChangedBetween(callbacks[j].base, notifier.version)'
             = ChangedBetween(callbacks[i].base, notifier.version)
    <3>1. SUFFICES ASSUME callbacks[i].initialDelivered
                   PROVE  {v \in callbacks[i].base + 1 .. notifier.version : snapshots'[v]}
                             = ChangedBetween(callbacks[i].base, notifier.version)
      BY DEF ChangedBetween, Alike
    <3>2. callbacks[i].base \in Nat
      BY <3>1, <1>1, <1>3, <2>1 DEF CallbackInv, DeliveryOK
    <3> QED
      BY <2>1, <3>2, ChangesStay
  <2>3. Counted(i) => ChangedBetween(main.package, notifier.version)'
                        = ChangedBetween(main.package, notifier.version)
    <3>1. SUFFICES ASSUME Counted(i)
                   PROVE  {v \in main.package + 1 .. notifier.version : snapshots'[v]}
                             = ChangedBetween(main.package, notifier.version)
      BY DEF ChangedBetween, Counted
    <3>2. main.package \in Nat
      BY <3>1, <2>1 DEF EInv, LoopInv, Counted
    <3> QED
      BY <2>1, <3>2, ChangesStay
  <2> QED
    BY <1>3, <2>1, <2>2, <2>3 DEF HistoryOK, Alike, Exactly, Counted
<1> QED
  BY <1>2, <1>3 DEF CallbackInv

LEMMA EachKept ==
    ASSUME IInv, EInv, Grown,
           notifier'.version = notifier.version, notifier'.hasRun = notifier.hasRun,
           notifier.stale => notifier'.stale,
           Telling' <=> Telling, Telling => main'.package = main.package,
           UNCHANGED << callbackIndex, callbackCount, miscounted >>, Len(callbacks') = Len(callbacks),
           \A i \in 1 .. Len(callbacks) : Alike(callbacks'[i], callbacks[i])
    PROVE  EachInv'
<1> SUFFICES ASSUME NEW i \in 1 .. Len(callbacks)
             PROVE  CallbackInv(callbacks[i], Waits(i), Counted(i))'
  BY DEF EachInv
<1>1. Alike(callbacks'[i], callbacks[i])
  OBVIOUS
<1>2. (Waits(i)' <=> Waits(i)) /\ (Counted(i)' <=> Counted(i))
  BY DEF Waits, Counted
<1> QED
  BY <1>1, <1>2, OneKept

(* Without callbacks there is nothing to say of any.                       *)
LEMMA NoneKept ==
    ASSUME Len(callbacks') = 0
    PROVE  EachInv'
  BY DEF EachInv

(* The worker's part.                                                      *)
LEMMA RoundKept ==
    ASSUME IInv, EInv, Grown,
           notifier'.version = notifier.version, notifier'.hasRun = notifier.hasRun,
           notifier'.changes = notifier.changes, notifier'.place = notifier.place,
           notifier'.previousRows = notifier.previousRows, notifier'.stale = notifier.stale,
           worker'.pc = worker.pc, worker'.base = worker.base, worker'.saw = worker.saw,
           worker'.tracked = worker.tracked, bound'[Worker] = bound[Worker]
    PROVE  RoundInv' /\ RowsInv'
<1>1. RoundInv'
  BY DEF EInv, RoundInv
<1>2. /\ notifier.version \in Nat /\ notifier.version <= latest
      /\ bound[Worker] \in Nat /\ bound[Worker] <= latest
      /\ notifier.previousRows \in Nat
  BY Numbers, Threads DEF IInv, NotifierInv, NotifierOK, Notifier, Views
<1>3. /\ ChangedBetween(notifier.previousRows, bound[Worker])'
           = ChangedBetween(notifier.previousRows, bound[Worker])
      /\ ChangedBetween(notifier.previousRows, notifier.version)'
           = ChangedBetween(notifier.previousRows, notifier.version)
      /\ ChangedBetween(notifier.version, bound[Worker])'
           = ChangedBetween(notifier.version, bound[Worker])
  <2>1. /\ {v \in notifier.previousRows + 1 .. bound[Worker] : snapshots'[v]}
             = ChangedBetween(notifier.previousRows, bound[Worker])
        /\ {v \in notifier.previousRows + 1 .. notifier.version : snapshots'[v]}
             = ChangedBetween(notifier.previousRows, notifier.version)
        /\ {v \in notifier.version + 1 .. bound[Worker] : snapshots'[v]}
             = ChangedBetween(notifier.version, bound[Worker])
    BY <1>2, ChangesStay
  <2> QED
    BY <2>1 DEF ChangedBetween
<1>4. RowsInv'
  BY <1>3 DEF EInv, RowsInv
<1> QED
  BY <1>1, <1>4

(* The steps that leave results, callbacks and worker alone.               *)
LEMMA QuietStep ==
    ASSUME IInv, EInv, Grown, UNCHANGED << notifier, callbackVars, worker >>,
           bound'[Worker] = bound[Worker],
           Telling' <=> Telling, Telling => main'.package = main.package,
           main'.pc \notin {"calling", "called", "undefined"} => callbackIndex = 0,
           main'.halfway # "no" => main'.pc \in {"idle", "called"},
           main.halfway = "adding" => main'.halfway = "adding",
           StandInv'
    PROVE  EInv'
<1>1. EachInv'
  BY EachKept DEF callbackVars, Alike
<1>2. RoundInv' /\ RowsInv'
  BY RoundKept
<1>3. LoopInv'
  BY DEF EInv, LoopInv, callbackVars
<1> QED
  BY <1>1, <1>2, <1>3 DEF EInv

(* What a call outside of callbacks finds.                                 *)
LEMMA NotTelling ==
    ASSUME EInv, main.pc = "idle" \/ main.pc = "packaging"
    PROVE  ~Telling /\ callbackIndex = 0
  BY DEF EInv, LoopInv, Telling

LEMMA ReadAgainExact ==
    ASSUME IInv, EInv, Grown, ReadAgain
    PROVE  EInv'
<1> DEFINE jumped == main.jumped \/ HasChanged(Main) \/ InCallback
<1>1. Moved(Main)
  BY ReadAgainStep
<1>2. main' = [main EXCEPT !.jumped = jumped] /\ jumped \in BOOLEAN
  BY MainFields DEF ReadAgain
<1> HIDE DEF jumped
<1>3. /\ main'.pc = main.pc /\ main'.package = main.package /\ main'.halfway = main.halfway
      /\ main'.op = main.op /\ main'.nested = main.nested /\ main'.jumped = jumped
      /\ main.pc = "idle" \/ (main.pc = "called" /\ jumped)
  BY <1>2, MainFields DEF ReadAgain, Free, InCallback, MainThread, jumped
<1>4. StandInv'
  BY <1>3 DEF StandInv, EInv, Telling
<1>5. bound'[Worker] = bound[Worker]
  BY <1>1, Threads DEF Moved
<1> QED
  BY <1>3, <1>4, <1>5, QuietStep DEF EInv, LoopInv, Telling, ReadAgain, resultsVars

LEMMA UseExact ==
    ASSUME IInv, EInv, Grown, UseResults
    PROVE  EInv'
<1>1. StandInv' /\ bound'[Worker] = bound[Worker]
  BY DEF UseResults, EInv, StandInv, Telling, groupVars, latest
<1> QED
  BY <1>1, QuietStep DEF EInv, LoopInv, Telling, UseResults

LEMMA BeginTransactionExact ==
    ASSUME IInv, EInv, Grown, BeginTransaction
    PROVE  EInv'
<1> USE DEF BeginTransaction
<1>1. Moved(Main) /\ main.pc = "idle" /\ ~Telling /\ callbackIndex = 0
  BY BeginTransactionStep, NotTelling DEF Free
<1>2. bound'[Worker] = bound[Worker]
  BY <1>1, Threads DEF Moved
<1>3. CASE Registered
  <2>1. latest \in Versions
    BY Numbers
  <2>2. /\ main'.pc = "packaging" /\ main'.op = "write" /\ main'.target = latest
        /\ main'.nested = main.nested /\ main'.halfway = "no"
        /\ writer' = Main /\ latest' = latest
    <3>1. StartPackaging("write", latest) /\ LockForWrite(Main)
      BY <1>3
    <3>2. main'.pc = "packaging" /\ main'.op = "write" /\ main'.target = latest
      BY <3>1, <2>1, StartPackagingType
    <3>3. main'.nested = main.nested /\ main'.halfway = "no"
      BY <3>1, MainFields DEF StartPackaging, MainThread, Free
    <3> QED
      BY <3>1, <3>2, <3>3 DEF LockForWrite, latest
  <2>3. StandInv'
    BY <1>1, <2>2 DEF StandInv, EInv, Telling
  <2> QED
    BY <1>1, <1>2, <2>2, <2>3, QuietStep DEF Telling, Free, resultsVars
<1>4. CASE ~Registered
  <2>1. StandInv'
    BY <1>1, <1>4 DEF StandInv, EInv, Telling
  <2> QED
    BY <1>1, <1>2, <1>4, <2>1, QuietStep DEF EInv, LoopInv, Telling, resultsVars
<1> QED
  BY <1>3, <1>4

LEMMA BeginInCallbackExact ==
    ASSUME IInv, EInv, Grown, BeginInCallback
    PROVE  EInv'
<1> DEFINE jumped == main.jumped \/ HasChanged(Main)
<1>1. Moved(Main)
  BY BeginInCallbackStep
<1>2. main' = [main EXCEPT !.nested = TRUE, !.jumped = jumped] /\ jumped \in BOOLEAN
      /\ main.pc = "called" /\ main.halfway = "no"
  BY MainFields DEF BeginInCallback, InCallback
<1>3. bound'[Worker] = bound[Worker]
  BY <1>1, Threads DEF Moved
<1>4. /\ stage[Main] = "Reading"
      /\ jumped \/ bound'[Main] = bound[Main]
  BY Threads DEF BeginInCallback, PromoteToWrite, HasChanged, IInv, GroupInv, GroupTypeOK
<1>5. main.jumped => jumped
  OBVIOUS
<1> HIDE DEF jumped
<1>6. /\ main'.pc = "called" /\ main'.package = main.package /\ main'.halfway = "no"
      /\ main'.nested /\ main'.jumped = jumped
  BY <1>2, MainFields DEF MainThread
<1>7. StandInv'
  BY <1>2, <1>4, <1>5, <1>6 DEF StandInv, EInv, Telling
<1> QED
  BY <1>2, <1>3, <1>6, <1>7, QuietStep DEF EInv, LoopInv, Telling, BeginInCallback, resultsVars

LEMMA CommitExact ==
    ASSUME IInv, EInv, Grown, CommitTransaction
    PROVE  EInv'
<1> DEFINE jumped == main.jumped \/ main.nested
<1>1. Moved(Main)
  BY CommitStep
<1>2. /\ main' = [main EXCEPT !.halfway = "no", !.nested = FALSE, !.jumped = jumped]
      /\ jumped \in BOOLEAN /\ main.halfway # "adding"
      /\ main.pc = "idle" \/ (main.pc = "called" /\ jumped)
  BY MainFields DEF CommitTransaction, MayEnd
<1>3. bound'[Worker] = bound[Worker]
  BY <1>1, Threads DEF Moved
<1> HIDE DEF jumped
<1>4. /\ main'.pc = main.pc /\ main'.package = main.package /\ main'.halfway = "no"
      /\ ~main'.nested /\ main'.jumped = jumped
  BY <1>2, MainFields DEF MainThread
<1>5. StandInv'
  BY <1>2, <1>4 DEF StandInv, EInv, Telling
<1> QED
  BY <1>2, <1>3, <1>4, <1>5, QuietStep DEF EInv, LoopInv, Telling, CommitTransaction, resultsVars

LEMMA CancelExact ==
    ASSUME IInv, EInv, Grown, CancelTransaction
    PROVE  EInv'
<1>1. Moved(Main)
  BY CancelStep
<1>2. /\ main' = [main EXCEPT !.nested = FALSE]
      /\ main.pc \in {"idle", "called"} /\ main.halfway = "no"
  BY DEF CancelTransaction, MayEnd
<1>3. bound'[Worker] = bound[Worker]
  BY <1>1, Threads DEF Moved
<1>4. /\ main'.pc = main.pc /\ main'.package = main.package /\ main'.halfway = "no"
      /\ ~main'.nested /\ main'.jumped = main.jumped
      /\ stage[Main] = "Writing" /\ bound'[Main] = bound[Main]
  BY <1>2, MainFields DEF MainThread, CancelTransaction, RollbackAndContinueAsRead
<1>5. StandInv'
  BY <1>2, <1>4 DEF StandInv, EInv, Telling
<1> QED
  BY <1>2, <1>3, <1>4, <1>5, QuietStep DEF EInv, LoopInv, Telling, CancelTransaction, resultsVars

LEMMA InvalidateExact ==
    ASSUME IInv, EInv, Grown, Invalidate
    PROVE  EInv'
<1>1. Moved(Main) /\ main.pc = "idle" /\ ~Telling
  BY InvalidateStep, NotTelling DEF Invalidate, Free
<1>2. bound'[Worker] = bound[Worker]
  BY <1>1, Threads DEF Moved
<1>3. StandInv'
  BY <1>1 DEF StandInv, EInv, Telling, Invalidate
<1> QED
  BY <1>1, <1>2, <1>3, QuietStep DEF EInv, LoopInv, Telling, Invalidate, resultsVars

LEMMA RefreshExact ==
    ASSUME IInv, EInv, Grown, Refresh
    PROVE  EInv'
<1> USE DEF Refresh
<1>1. Moved(Main) /\ main.pc = "idle" /\ ~Telling /\ callbackIndex = 0
  BY RefreshStep, NotTelling DEF Free
<1>2. bound'[Worker] = bound[Worker]
  BY <1>1, Threads DEF Moved
<1>3. CASE Registered
  <2>1. StartPackaging("refresh", latest) /\ latest \in Versions /\ UNCHANGED groupVars
    BY <1>3, Numbers
  <2>2. main'.pc = "packaging" /\ main'.op = "refresh"
    BY <2>1, StartPackagingType
  <2>3. main'.nested = main.nested /\ main'.halfway = "no"
    BY <2>1, MainFields DEF StartPackaging, MainThread, Free
  <2>4. StandInv'
    BY <1>1, <2>1, <2>2, <2>3 DEF StandInv, EInv, Telling, groupVars
  <2> QED
    BY <1>1, <1>2, <2>2, <2>3, <2>4, QuietStep DEF Telling, Free, resultsVars
<1>4. CASE ~Registered
  <2>1. StandInv'
    BY <1>1, <1>4 DEF StandInv, EInv, Telling
  <2> QED
    BY <1>1, <1>2, <1>4, <2>1, QuietStep DEF EInv, LoopInv, Telling, resultsVars
<1> QED
  BY <1>3, <1>4

LEMMA RefreshUnreadExact ==
    ASSUME IInv, EInv, Grown, RefreshUnread
    PROVE  EInv'
<1> USE DEF RefreshUnread
<1> DEFINE jumped == main.jumped \/ HasChanged(Main)
<1>1. Moved(Main) /\ main.pc = "idle" /\ ~Telling /\ callbackIndex = 0
  BY RefreshUnreadStep, NotTelling DEF Free
<1>2. bound'[Worker] = bound[Worker]
  BY <1>1, Threads DEF Moved
<1>3. /\ main.halfway = "no" /\ jumped \in BOOLEAN
      /\ IF Registered
         THEN main' = [main EXCEPT !.pc = "packaging", !.op = "process", !.target = 0,
                                   !.jumped = jumped]
         ELSE main' = [main EXCEPT !.jumped = jumped]
  BY MainFields DEF Free
<1> HIDE DEF jumped
<1>4. /\ main'.nested = main.nested /\ main'.halfway = "no"
      /\ main'.pc = "idle" \/ (main'.pc = "packaging" /\ main'.op = "process")
  BY <1>1, <1>3, MainFields DEF MainThread
<1>5. stage'[Main] = "Reading"
  BY Threads DEF BeginRead, IInv, GroupInv, GroupTypeOK
<1>6. StandInv'
  BY <1>1, <1>4, <1>5 DEF StandInv, EInv, Telling
<1> QED
  BY <1>1, <1>2, <1>3, <1>4, <1>6, QuietStep DEF Telling, resultsVars

LEMMA NotifyExact ==
    ASSUME IInv, EInv, Grown, Notify
    PROVE  EInv'
<1> USE DEF Notify
<1>1. Moved(Main) /\ main.pc = "idle" /\ ~Telling /\ callbackIndex = 0
  BY NotifyStep, NotTelling DEF Free
<1>2. bound'[Worker] = bound[Worker]
  BY <1>1, Threads DEF Moved
<1>3. CASE Registered
  <2> DEFINE op == IF HasChanged(Main) /\ stage[Main] = "Reading" THEN "ready" ELSE "process"
  <2>1. op \in {"ready", "process"} /\ StartPackaging(op, 0) /\ UNCHANGED groupVars
        /\ 0 \in Versions \cup {0}
    BY <1>3
  <2> HIDE DEF op
  <2>2. main'.pc = "packaging" /\ main'.op = op
    BY <2>1, StartPackagingType
  <2>3. main'.nested = main.nested /\ main'.halfway = "no"
    BY <2>1, MainFields DEF StartPackaging, MainThread, Free
  <2>4. StandInv'
    BY <1>1, <2>1, <2>2, <2>3 DEF StandInv, EInv, Telling, groupVars, InWrite
  <2> QED
    BY <1>1, <1>2, <2>2, <2>3, <2>4, QuietStep DEF Telling, Free, resultsVars
<1>4. CASE ~Registered
  <2>1. StandInv'
    BY <1>1, <1>4 DEF StandInv, EInv, Telling
  <2> QED
    BY <1>1, <1>2, <1>4, <2>1, QuietStep DEF EInv, LoopInv, Telling, resultsVars
<1> QED
  BY <1>3, <1>4

LEMMA ReturnExact ==
    ASSUME IInv, EInv, Grown, ReturnFromCallback
    PROVE  EInv'
<1> USE DEF ReturnFromCallback
<1>1. /\ main'.pc = "calling" /\ main.pc = "called" /\ main'.halfway = "no"
      /\ main'.package = main.package /\ main'.jumped = main.jumped
      /\ ~main'.nested
  BY MainFields DEF MainThread, InCallback
<1>2. StandInv'
  BY <1>1 DEF StandInv, EInv, Telling, groupVars
<1> QED
  BY <1>1, <1>2, QuietStep DEF Telling, InCallback, resultsVars, groupVars

LEMMA ReadPastEndExact ==
    ASSUME IInv, EInv, Grown, ReadPastEnd
    PROVE  EInv'
<1> USE DEF ReadPastEnd
<1>1. /\ main'.pc = "undefined" /\ main.pc = "calling" /\ main'.halfway = "no"
      /\ ~main'.nested /\ ~Telling' /\ main.halfway = "no"
  BY MainFields DEF MainThread, EInv, LoopInv, StandInv, Telling
<1>2. miscounted
  BY <1>1, Numbers DEF IInv, MainInv, Telling
<1>3. /\ UNCHANGED << notifier, callbackVars, worker, groupVars, callbacks, callbackIndex,
                      callbackCount, haveCallbacks, miscounted >>
  BY DEF resultsVars, callbackVars
<1>4. EachInv'
  BY <1>2, <1>3 DEF EInv, EachInv, CallbackInv
<1>5. LoopInv'
  BY <1>1, <1>3 DEF EInv, LoopInv
<1>6. RoundInv' /\ RowsInv'
  BY <1>3, RoundKept DEF groupVars
<1>7. StandInv'
  BY <1>1 DEF StandInv
<1> QED
  BY <1>4, <1>5, <1>6, <1>7 DEF EInv

(* Nobody else commits while the main thread waits with the write lock.    *)
LEMMA OtherExact ==
    ASSUME IInv, EInv, Grown, OtherCommits \/ OtherNotifies \/ OtherDies
    PROVE  EInv'
<1>1. Moved(Other) /\ UNCHANGED << resultsVars, worker, main >>
  BY OtherStep DEF OtherCommits, OtherNotifies, OtherDies
<1>2. bound'[Worker] = bound[Worker] /\ bound'[Main] = bound[Main] /\ stage'[Main] = stage[Main]
  BY <1>1, Threads DEF Moved
<1>3. \/ UNCHANGED groupVars
      \/ writer = NoOne
  BY DEF OtherCommits, OtherNotifies, OtherDies, WriteAtOnce
<1>4. Main # NoOne
  BY Threads, GroupAssumption
<1>5. StandInv'
  BY <1>1, <1>2, <1>3, <1>4 DEF StandInv, EInv, Telling, groupVars, latest
<1> QED
  BY <1>1, <1>2, <1>5, QuietStep DEF EInv, LoopInv, Telling, resultsVars

-----------------------------------------------------------------------------
(* The worker.                                                             *)

LEMMA StandKept ==
    ASSUME IInv, EInv, Moved(Worker), UNCHANGED main, UNCHANGED << snapshots, writer >>
    PROVE  StandInv'
<1>1. bound'[Main] = bound[Main] /\ stage'[Main] = stage[Main]
  BY Threads DEF Moved
<1> QED
  BY <1>1 DEF StandInv, EInv, Telling, latest

(* The callbacks while the worker changes its notifier.                    *)
LEMMA LoopKept ==
    ASSUME EInv, UNCHANGED << callbackVars, main >>,
           notifier'.version = notifier.version, notifier'.hasRun = notifier.hasRun,
           notifier'.alive = notifier.alive
    PROVE  LoopInv'
  BY DEF EInv, LoopInv, Telling, callbackVars

LEMMA StartRoundExact ==
    ASSUME IInv, EInv, Grown, StartRound
    PROVE  EInv'
<1> USE DEF StartRound
<1>1. Moved(Worker)
  BY StartRoundStep
<1>2. /\ notifier'.version = notifier.version /\ notifier'.hasRun = notifier.hasRun
      /\ notifier'.alive = notifier.alive /\ notifier'.stale = notifier.stale
      /\ notifier'.changes = notifier.changes /\ notifier'.place = "main"
      /\ notifier'.previousRows = notifier.previousRows
  BY DEF IInv, NotifierOK, Notifier
<1>3. LoopInv' /\ EachInv'
  BY <1>2, LoopKept, EachKept DEF callbackVars, Telling, Alike
<1>4. StandInv'
  BY <1>1, StandKept DEF BeginRead, groupVars
<1>5. worker'.pc = "advance" /\ worker.pc = "idle"
  BY DEF IInv, ThreadsOK, WorkerThread
<1>6. notifier.hasRun => bound'[Worker] = bound[Worker]
  BY DEF EInv, RoundInv, IInv, WorkerInv, groupVars
<1>7. RoundInv'
  BY <1>2, <1>5, <1>6 DEF EInv, RoundInv
<1>8. RowsInv'
  <2>1. UNCHANGED snapshots
    BY DEF BeginRead, groupVars
  <2> QED
    BY <1>2, <1>5, <2>1 DEF EInv, RowsInv, ChangedBetween
<1> QED
  BY <1>3, <1>4, <1>7, <1>8 DEF EInv

LEMMA AdvanceExact ==
    ASSUME IInv, EInv, Grown, Advance
    PROVE  EInv'
<1> USE DEF Advance
<1>1. Moved(Worker) /\ UNCHANGED snapshots
  BY AdvanceStep DEF AdvanceRead
<1>2. LoopInv' /\ EachInv'
  BY LoopKept, EachKept DEF resultsVars, callbackVars, Telling, Alike
<1>3. StandInv'
  BY <1>1, StandKept DEF AdvanceRead
<1>4. /\ worker'.pc = "run" /\ worker.pc = "advance" /\ worker'.base = bound[Worker]
      /\ worker'.tracked = (notifier.hasRun /\ haveCallbacks)
      /\ worker'.saw = {haveCallbacks}
  <2> DEFINE tracked == notifier.hasRun /\ haveCallbacks
             saw == {haveCallbacks}
  <2>1. worker' = [worker EXCEPT !.pc = "run", !.base = bound[Worker], !.tracked = tracked,
                                 !.saw = saw]
    OBVIOUS
  <2> HIDE DEF tracked, saw
  <2>2. worker'.pc = "run" /\ worker'.base = bound[Worker] /\ worker'.tracked = tracked
        /\ worker'.saw = saw
    BY <2>1 DEF IInv, ThreadsOK, WorkerThread
  <2> QED
    BY <2>2 DEF tracked, saw
<1>5. haveCallbacks \in BOOLEAN /\ notifier.hasRun \in BOOLEAN
  BY DEF IInv, CallbacksInv, CallbacksTypeOK, NotifierOK, Notifier
<1>6. bound[Worker] <= bound'[Worker]
  BY <1>1, Threads DEF Moved
<1>7. RoundInv'
  BY <1>4, <1>5, <1>6 DEF EInv, RoundInv, resultsVars
<1>8. RowsInv'
  BY <1>1, <1>4 DEF EInv, RowsInv, ChangedBetween, resultsVars
<1> QED
  BY <1>2, <1>3, <1>7, <1>8 DEF EInv

LEMMA NotifyRealmsExact ==
    ASSUME IInv, EInv, Grown, NotifyRealms
    PROVE  EInv'
<1> USE DEF NotifyRealms
<1>1. Moved(Worker) /\ UNCHANGED snapshots
  BY NotifyRealmsStep DEF groupVars
<1>2. LoopInv' /\ EachInv'
  BY LoopKept, EachKept DEF resultsVars, callbackVars, Telling, Alike
<1>3. StandInv'
  BY <1>1, StandKept DEF groupVars
<1>4. worker'.pc = "idle" /\ worker.pc = "signal"
  BY DEF IInv, ThreadsOK, WorkerThread
<1>5. RoundInv' /\ RowsInv'
  BY <1>1, <1>4 DEF EInv, RoundInv, RowsInv, ChangedBetween, resultsVars, groupVars
<1> QED
  BY <1>2, <1>3, <1>5 DEF EInv

(* The notifier is gone, and its callbacks went before.                    *)
LEMMA GoneExact ==
    ASSUME IInv, EInv, ~notifier.alive, notifier' = NoNotifier,
           Len(callbacks') = Len(callbacks), UNCHANGED << main, callbackIndex >>,
           worker'.pc = "signal", StandInv'
    PROVE  EInv'
<1>1. main.pc = "idle" /\ callbackIndex = 0 /\ Len(callbacks') = 0
  BY NotTelling DEF EInv, LoopInv, IInv, MainInv
<1>2. /\ ~notifier'.hasRun /\ notifier'.changes = {} /\ notifier'.previousRows = 0
      /\ ~notifier'.alive
  BY DEF NoNotifier, NewNotifier
<1>3. EachInv'
  BY <1>1, NoneKept
<1>4. LoopInv'
  BY <1>1, <1>2 DEF EInv, LoopInv, Telling
<1>5. RoundInv' /\ RowsInv'
  BY <1>2 DEF RoundInv, RowsInv
<1> QED
  BY <1>3, <1>4, <1>5 DEF EInv

LEMMA NothingToRunExact ==
    ASSUME IInv, EInv, Grown, NothingToRun
    PROVE  EInv'
<1> USE DEF NothingToRun
<1>1. Moved(Worker) /\ UNCHANGED << snapshots, writer >>
  BY NothingToRunStep DEF CleanUp, EndRead, groupVars
<1>2. StandInv'
  BY <1>1, StandKept
<1>3. worker'.pc = "signal" /\ worker.pc = "idle"
  BY DEF IInv, ThreadsOK, WorkerThread
<1>4. CASE notifier.alive \/ notifier.place # "main"
  <2>1. bound'[Worker] = bound[Worker]
    BY <1>4 DEF CleanUp, groupVars
  <2>2. CASE notifier.alive
    <3>1. notifier' = notifier
      BY <2>2 DEF CleanUp
    <3>2. LoopInv' /\ EachInv'
      BY <3>1, LoopKept, EachKept DEF callbackVars, Telling, Alike
    <3>3. RoundInv' /\ RowsInv'
      BY <1>1, <1>3, <2>1, <3>1 DEF EInv, RoundInv, RowsInv, ChangedBetween
    <3> QED
      BY <1>2, <3>2, <3>3 DEF EInv
  <2>3. CASE ~notifier.alive
    <3>1. notifier' = NoNotifier
      BY <1>4, <2>3 DEF CleanUp
    <3> QED
      BY <1>2, <1>3, <2>3, <3>1, GoneExact DEF callbackVars
  <2> QED
    BY <2>2, <2>3
<1>5. CASE ~(notifier.alive \/ notifier.place # "main")
  <2>1. notifier' = NoNotifier
    BY <1>5 DEF CleanUp
  <2> QED
    BY <1>2, <1>3, <1>5, <2>1, GoneExact DEF callbackVars
<1> QED
  BY <1>4, <1>5

(* What changed to one snapshot and from there to the next.                *)
LEMMA ChangesJoin ==
    ASSUME NEW a \in Nat, NEW b \in Nat, NEW c \in Nat, a <= b, b <= c
    PROVE  /\ ChangedBetween(a, c) = ChangedBetween(a, b) \cup ChangedBetween(b, c)
           /\ ChangedBetween(a, b) \cap ChangedBetween(b, c) = {}
           /\ ChangedBetween(a, b) \subseteq a + 1 .. b
           /\ ChangedBetween(b, b) = {}
  BY DEF ChangedBetween

(* A run by values of m_have_callbacks that agree finds what changed since *)
(* the last one, or there is nobody to be told.                            *)
LEMMA RunNotifierExact ==
    ASSUME IInv, EInv, Grown, RunNotifier
    PROVE  EInv'
<1> USE DEF RunNotifier
<1> DEFINE base == worker.base
           version == bound[Worker]
<1>1. /\ Moved(Worker) /\ UNCHANGED groupVars
      /\ base \in Nat /\ version \in Nat /\ notifier.previousRows \in Nat
      /\ notifier.version \in Nat
  BY RunNotifierStep, Numbers, Threads
     DEF IInv, ThreadsOK, WorkerThread, NotifierOK, Notifier, Views
<1>2. /\ notifier'.version = notifier.version /\ notifier'.hasRun = notifier.hasRun
      /\ notifier'.alive = notifier.alive /\ notifier'.place = notifier.place
      /\ notifier.stale => notifier'.stale
      /\ IF NeedToRun(version)
         THEN /\ notifier'.previousRows = version /\ notifier'.stale = notifier.stale
              /\ notifier'.changes = CalculateChanges(base, version, worker.tracked)
         ELSE /\ notifier'.previousRows = notifier.previousRows
              /\ notifier'.changes = notifier.changes
              /\ notifier'.stale =
                   (notifier.stale \/ ChangedBetween(notifier.previousRows, version) # {})
  <2>1. CASE NeedToRun(version)
    BY <2>1 DEF Run, IInv, NotifierOK, Notifier
  <2>2. CASE ~NeedToRun(version)
    <3> DEFINE stale == notifier.stale \/ ChangedBetween(notifier.previousRows, version) # {}
    <3>1. notifier' = [notifier EXCEPT !.stale = stale]
      BY <2>2 DEF Run
    <3>2. notifier.stale => stale
      OBVIOUS
    <3> HIDE DEF stale
    <3>3. notifier'.version = notifier.version /\ notifier'.hasRun = notifier.hasRun
          /\ notifier'.alive = notifier.alive /\ notifier'.place = notifier.place
          /\ notifier'.previousRows = notifier.previousRows
          /\ notifier'.changes = notifier.changes /\ notifier'.stale = stale
      BY <3>1 DEF IInv, NotifierOK, Notifier
    <3> QED
      BY <2>2, <3>2, <3>3 DEF stale
  <2> QED
    BY <2>1, <2>2
<1>3. LoopInv' /\ EachInv'
  BY <1>2, LoopKept, EachKept DEF callbackVars, Telling, Alike
<1>4. StandInv'
  BY <1>1, StandKept DEF groupVars
<1>5. worker'.pc = "handover" /\ worker.pc = "run" /\ worker'.base = worker.base
      /\ worker'.saw = worker.saw \cup {haveCallbacks}
  BY DEF IInv, ThreadsOK, WorkerThread
<1>6. /\ notifier.changes = {}
      /\ notifier.hasRun => base = notifier.version /\ base <= version
      /\ notifier.previousRows <= IF notifier.hasRun THEN base ELSE 0
      /\ \/ worker.saw = {TRUE} /\ worker.tracked = notifier.hasRun
         \/ worker.saw = {FALSE}
  BY <1>5 DEF EInv, RoundInv
<1>7. notifier.previousRows <= version
  BY <1>1, <1>6
<1>8. ~notifier.hasRun => notifier'.changes = {}
  BY <1>2, <1>6 DEF CalculateChanges
<1>9. bound'[Worker] = version
  BY <1>1 DEF groupVars
<1>10. RoundInv'
  BY <1>1, <1>2, <1>5, <1>6, <1>7, <1>8, <1>9 DEF EInv, RoundInv
<1>11. ASSUME ~notifier'.stale
       PROVE  /\ ChangedBetween(notifier'.previousRows, version) = {}
              /\ notifier.hasRun /\ FALSE \notin worker'.saw =>
                    notifier'.changes = ChangedBetween(notifier.version, version)
  <2>1. CASE NeedToRun(version)
    <3>1. ChangedBetween(version, version) = {}
      BY <1>1, ChangesJoin
    <3>2. ASSUME notifier.hasRun, FALSE \notin worker'.saw
          PROVE  notifier'.changes = ChangedBetween(notifier.version, version)
      <4>1. worker.tracked /\ haveCallbacks
        BY <1>5, <1>6, <3>2 DEF IInv, CallbacksInv, CallbacksTypeOK
      <4>2. ChangedBetween(notifier.previousRows, base) = {}
        BY <1>2, <1>5, <1>6, <1>11, <3>2 DEF EInv, RowsInv
      <4> QED
        BY <1>2, <1>6, <2>1, <3>2, <4>1, <4>2 DEF CalculateChanges
    <3> QED
      BY <1>2, <2>1, <3>1, <3>2
  <2>2. CASE ~NeedToRun(version)
    <3>1. ChangedBetween(notifier.previousRows, version) = {} /\ notifier'.changes = {}
      BY <1>2, <1>6, <1>11, <2>2
    <3>2. notifier.hasRun => ChangedBetween(notifier.version, version) = {}
      BY <1>1, <1>6, <3>1, ChangesJoin
    <3> QED
      BY <1>2, <2>2, <3>1, <3>2
  <2> QED
    BY <2>1, <2>2
<1>12. RowsInv'
  <2>1. /\ ChangedBetween(notifier.previousRows, bound[Worker])'
             = ChangedBetween(notifier'.previousRows, version)
        /\ ChangedBetween(notifier.version, bound[Worker])'
             = ChangedBetween(notifier.version, version)
    BY <1>1, <1>2, <1>9 DEF ChangedBetween, groupVars
  <2> QED
    BY <1>2, <1>5, <1>11, <2>1 DEF RowsInv
<1> QED
  BY <1>3, <1>4, <1>10, <1>12 DEF EInv

LEMMA AddedFields ==
    ASSUME CallbacksInv, NEW changes, AddChanges(changes), NEW i \in 1 .. Len(callbacks)
    PROVE  LET c == callbacks[i]
               d == callbacks'[i]
           IN  /\ d.initialDelivered = c.initialDelivered /\ d.base = c.base
               /\ d.told = c.told /\ d.toDeliver = c.toDeliver /\ d.discarded = c.discarded
               /\ \/ d.accumulated = c.accumulated \cup changes /\ d.skipped = c.skipped
                  \/ d.skipped = c.skipped \cup changes /\ d.accumulated = c.accumulated
  BY CallbacksDomain, CallbackFields DEF AddChanges, Callback

(* A hand-over by values of m_have_callbacks that agree adds what changed  *)
(* since the last one to what waits for a callback, or to what it skips.   *)
LEMMA HandedOverExact ==
    ASSUME IInv, EInv, HandOver, notifier' = HandedOver(bound[Worker], worker.saw)
    PROVE  EachInv'
<1> DEFINE version == bound[Worker]
           stale == notifier.stale \/ (notifier.hasRun /\ worker.saw \cup {haveCallbacks} = BOOLEAN)
<1>1. notifier'.version = version /\ notifier'.hasRun /\ notifier'.stale = stale
  <2> DEFINE handover == IF notifier.tv # 0 \/ notifier.handover # 0 THEN version ELSE 0
  <2>1. notifier' = [notifier EXCEPT !.version = version, !.handover = handover, !.tv = 0,
                                     !.changes = {}, !.stale = stale, !.hasRun = TRUE]
    BY DEF HandedOver
  <2> HIDE DEF stale, handover, version
  <2> QED
    BY <2>1 DEF IInv, NotifierOK, Notifier
<1>2. /\ worker.pc = "handover" /\ AddChanges(notifier.changes) /\ UNCHANGED snapshots
      /\ UNCHANGED << main, miscounted >>
      /\ main.halfway # "adding"
  BY DEF HandOver, CleanUp, EndRead, groupVars, AddChanges
<1>3. /\ version \in Nat /\ notifier.version \in Nat
      /\ notifier.hasRun => notifier.version <= version
      /\ ~notifier.hasRun => notifier.changes = {}
  BY <1>2, Numbers, Threads DEF EInv, RoundInv
<1> HIDE DEF version
<1> SUFFICES ASSUME NEW i \in 1 .. Len(callbacks')
             PROVE  CallbackInv(callbacks[i], Waits(i), Counted(i))'
  BY DEF EachInv
<1>4. Len(callbacks') = Len(callbacks)
  BY <1>2, AddType DEF IInv, NotifierOK, Notifier
<1> DEFINE c == callbacks[i]
           d == callbacks'[i]
           changes == notifier.changes
<1>5. /\ d.initialDelivered = c.initialDelivered /\ d.base = c.base
      /\ d.told = c.told /\ d.toDeliver = c.toDeliver /\ d.discarded = c.discarded
      /\ \/ d.accumulated = c.accumulated \cup changes /\ d.skipped = c.skipped
         \/ d.skipped = c.skipped \cup changes /\ d.accumulated = c.accumulated
  BY <1>2, <1>4, AddedFields DEF IInv
<1>6. CallbackInv(c, Waits(i), Counted(i))
  BY <1>4 DEF EInv, EachInv
<1>7. (Waits(i)' <=> Waits(i)) /\ (Counted(i)' <=> Counted(i)) /\ (Telling' <=> Telling)
  BY <1>2 DEF Waits, Counted, Telling, AddChanges
<1>8. /\ d.initialDelivered => notifier'.hasRun
      /\ ~miscounted => DeliveryOK(callbacks[i], Waits(i), Counted(i))'
  BY <1>1, <1>3, <1>5, <1>6, <1>7 DEF CallbackInv, DeliveryOK
<1>9. ASSUME ~stale, ~miscounted
      PROVE  HistoryOK(callbacks[i], Counted(i))'
  <2>1. HistoryOK(c, Counted(i)) /\ ~notifier.stale
    BY <1>6, <1>9 DEF CallbackInv
  <2>2. notifier.hasRun => changes = ChangedBetween(notifier.version, version)
    <3>1. haveCallbacks = TRUE
      BY <1>2, <1>4 DEF EInv, LoopInv, IInv, CallbacksInv, CallbacksTypeOK
    <3>2. notifier.hasRun => FALSE \notin worker.saw
      <4> SUFFICES ASSUME notifier.hasRun, FALSE \in worker.saw
                   PROVE  FALSE
        OBVIOUS
      <4>1. worker.saw \subseteq BOOLEAN
        BY DEF IInv, ThreadsOK, WorkerThread
      <4>2. worker.saw \cup {haveCallbacks} = BOOLEAN
        BY <3>1, <4>1, Zenon
      <4> QED
        BY <1>9, <4>2
    <3> QED
      BY <1>2, <2>1, <3>2 DEF EInv, RowsInv, version
  <2>3. \A from \in 1 .. notifier.version : notifier.hasRun =>
          /\ ChangedBetween(from, version) = ChangedBetween(from, notifier.version) \cup changes
          /\ ChangedBetween(from, notifier.version) \cap changes = {}
    BY <1>3, <2>2, ChangesJoin
  <2>4. /\ \A v \in changes : v \in 1 .. version /\ v > notifier.version
        /\ notifier.hasRun => 1 .. notifier.version \subseteq 1 .. version
    BY <1>3, <2>2 DEF ChangedBetween
  <2>5. \A from, to : {v \in from + 1 .. to : snapshots'[v]} = ChangedBetween(from, to)
    BY <1>2 DEF ChangedBetween
  <2>6. c.initialDelivered => notifier.hasRun /\ c.base \in 1 .. notifier.version
    BY <1>6, <1>9 DEF CallbackInv, DeliveryOK
  <2>7. d.initialDelivered => Exactly(d, ChangedBetween(d.base, version))
    BY <1>5, <2>1, <2>3, <2>6 DEF HistoryOK, Exactly
  <2>8. d.accumulated \subseteq 1 .. version /\ d.skipped \subseteq 1 .. version
    BY <1>3, <1>5, <1>6, <1>9, <2>1, <2>4 DEF HistoryOK, CallbackInv, DeliveryOK
  <2>9. ASSUME Counted(i)
        PROVE  /\ \A v \in d.accumulated : v > main.package
               /\ ~d.initialDelivered =>
                    /\ d.accumulated \cup {v \in d.skipped : v > main.package}
                         = ChangedBetween(main.package, version)
                    /\ d.accumulated \cap d.skipped = {}
    <3>1. notifier.hasRun /\ main.package \in 1 .. notifier.version
      BY <2>9 DEF EInv, LoopInv, Counted
    <3>2. \A v \in changes : v > main.package
      BY <1>3, <2>4, <3>1
    <3>3. \A v \in d.accumulated : v > main.package
      BY <1>5, <2>1, <2>9, <3>2 DEF HistoryOK
    <3>4. ASSUME ~d.initialDelivered
          PROVE  /\ d.accumulated \cup {v \in d.skipped : v > main.package}
                      = ChangedBetween(main.package, version)
                 /\ d.accumulated \cap d.skipped = {}
      <4>1. /\ c.accumulated \cup {v \in c.skipped : v > main.package}
                 = ChangedBetween(main.package, notifier.version)
            /\ c.accumulated \cap c.skipped = {}
            /\ c.accumulated \subseteq 1 .. notifier.version
            /\ c.skipped \subseteq 1 .. notifier.version
        BY <1>5, <2>1, <2>9, <3>4 DEF HistoryOK
      <4>2. ChangedBetween(main.package, version)
              = ChangedBetween(main.package, notifier.version) \cup changes
        BY <2>3, <3>1
      <4>3. {v \in c.skipped \cup changes : v > main.package}
              = {v \in c.skipped : v > main.package} \cup changes
        BY <3>2
      <4>4. changes \cap (1 .. notifier.version) = {}
        BY <1>3, <2>4
      <4> QED
        BY <1>5, <4>1, <4>2, <4>3, <4>4
    <3> QED
      BY <3>3, <3>4
  <2>10. main' = main /\ notifier'.version = version
    BY <1>1, <1>2
  <2> QED
    BY <1>7, <2>5, <2>7, <2>8, <2>9, <2>10 DEF HistoryOK, ChangedBetween
<1> QED
  BY <1>1, <1>2, <1>8, <1>9 DEF CallbackInv

(* Back to the idle state, or on to the next version, with what was handed *)
(* over.                                                                   *)
LEMMA HandOverExact ==
    ASSUME IInv, EInv, Grown, HandOver
    PROVE  EInv'
<1> USE DEF HandOver
<1> DEFINE version == bound[Worker]
           n == HandedOver(version, worker.saw)
<1>1. Moved(Worker) /\ UNCHANGED << main, snapshots, writer >>
  BY HandOverStep DEF CleanUp, EndRead, groupVars
<1>2. StandInv'
  BY <1>1, StandKept
<1>3. /\ Len(callbacks') = Len(callbacks)
      /\ UNCHANGED << haveCallbacks, callbackIndex, callbackCount, miscounted >>
  BY AddType DEF IInv, NotifierOK, Notifier, AddChanges
<1>4. worker.pc = "handover" /\ worker'.pc \in {"advance", "signal"}
      /\ (worker'.pc = "advance" => worker.skip # 0)
      /\ (worker'.pc = "signal" => worker.skip = 0)
  BY DEF IInv, ThreadsOK, WorkerThread, IdleWorker
<1>5. notifier.place = "main"
  BY <1>4 DEF IInv, WorkerInv, InRound
<1>6. /\ n.version = version /\ n.hasRun /\ n.changes = {} /\ n.place = notifier.place
      /\ n.alive = notifier.alive /\ n.previousRows = notifier.previousRows
      /\ notifier.stale => n.stale
  <2> DEFINE stale == notifier.stale \/ (notifier.hasRun /\ worker.saw \cup {haveCallbacks} = BOOLEAN)
             handover == IF notifier.tv # 0 \/ notifier.handover # 0 THEN version ELSE 0
  <2>1. n = [notifier EXCEPT !.version = version, !.handover = handover, !.tv = 0,
                             !.changes = {}, !.stale = stale, !.hasRun = TRUE]
    BY DEF HandedOver
  <2>2. notifier.stale => stale
    OBVIOUS
  <2> HIDE DEF stale, handover, version, n
  <2> QED
    BY <2>1, <2>2 DEF IInv, NotifierOK, Notifier
<1> HIDE DEF n
<1>7. CASE worker.skip # 0 \/ notifier.alive
  <2>1. notifier' = n /\ UNCHANGED groupVars
    BY <1>6, <1>7 DEF CleanUp, n
  <2>2. EachInv'
    BY <2>1, HandedOverExact DEF n
  <2>3. /\ version \in Nat /\ notifier.version \in Nat
        /\ notifier.hasRun => notifier.version <= version
        /\ notifier.previousRows <= version
    BY <1>4, Numbers, Threads DEF EInv, RoundInv
  <2>4. LoopInv'
    BY <1>1, <1>3, <1>6, <2>1, <2>3 DEF EInv, LoopInv, Telling
  <2>5. bound'[Worker] = version
    BY <2>1 DEF groupVars
  <2>6. RoundInv'
    BY <1>4, <1>5, <1>6, <2>1, <2>3, <2>5 DEF RoundInv
  <2>7. RowsInv'
    <3>1. ~notifier'.stale => ChangedBetween(notifier.previousRows, version) = {}
      BY <1>4, <1>6, <2>1 DEF EInv, RowsInv
    <3> QED
      BY <1>1, <1>4, <1>6, <2>1, <3>1 DEF RowsInv, ChangedBetween
  <2> QED
    BY <1>2, <2>2, <2>4, <2>6, <2>7 DEF EInv
<1>8. CASE worker.skip = 0 /\ ~notifier.alive
  <2>1. notifier' = NoNotifier
    BY <1>5, <1>6, <1>8 DEF CleanUp, n
  <2> QED
    BY <1>1, <1>2, <1>3, <1>4, <1>8, <2>1, GoneExact
<1> QED
  BY <1>7, <1>8

-----------------------------------------------------------------------------
(* The results and their callbacks.                                        *)

(* A notifier that has not run yet, between two rounds.                    *)
LEMMA FreshRound ==
    ASSUME ~notifier'.hasRun, notifier'.changes = {}, notifier'.previousRows = 0,
           worker'.pc # "run", worker'.pc # "handover"
    PROVE  RoundInv' /\ RowsInv'
<1>1. (notifier.place # "main" => ~notifier.hasRun)'
  OBVIOUS
<1>2. (notifier.hasRun =>
         IF worker.pc \in {"run", "handover"}
         THEN worker.base = notifier.version /\ worker.base <= bound[Worker]
         ELSE bound[Worker] = notifier.version)'
  OBVIOUS
<1>3. (worker.pc # "handover" \/ ~notifier.hasRun => notifier.changes = {})'
  OBVIOUS
<1>4. (notifier.previousRows <= IF worker.pc = "handover" THEN bound[Worker]
                                ELSE IF notifier.hasRun THEN notifier.version ELSE 0)'
  OBVIOUS
<1>5. (worker.pc = "run" => \/ worker.saw = {TRUE} /\ worker.tracked = notifier.hasRun
                            \/ worker.saw = {FALSE})'
  OBVIOUS
<1>6. (worker.pc = "handover" => worker.saw # {})'
  OBVIOUS
<1>7. RoundInv'
  BY <1>1, <1>2, <1>3, <1>4, <1>5, <1>6 DEF RoundInv
<1>8. RowsInv'
  BY DEF RowsInv
<1> QED
  BY <1>7, <1>8

LEMMA RegisterExact ==
    ASSUME IInv, EInv, Grown, RegisterNotifier
    PROVE  EInv'
<1> USE DEF RegisterNotifier
<1>1. ~notifier.alive /\ main.pc = "idle" /\ worker.pc \notin {"advance", "run", "handover"}
  BY DEF IInv, NotifierInv, MainInv, WorkerInv, InRound
<1>2. Len(callbacks') = 0 /\ callbackIndex' = 0
  BY DEF PrepareAsync, StartCallbacks, NPos
<1>3. ~notifier'.hasRun /\ notifier'.changes = {} /\ notifier'.previousRows = 0
  BY DEF PrepareAsync, NewNotifier
<1>4. EachInv'
  BY <1>2, NoneKept
<1>5. LoopInv'
  BY <1>1, <1>2 DEF EInv, LoopInv, Telling
<1>6. worker' = worker
  OBVIOUS
<1> HIDE DEF RegisterNotifier
<1>7. worker'.pc # "run" /\ worker'.pc # "handover"
  BY <1>1, <1>6
<1>8. RoundInv' /\ RowsInv'
  BY <1>3, <1>7, FreshRound
<1>9. StandInv'
  BY DEF RegisterNotifier, EInv, StandInv, Telling, groupVars, latest
<1> QED
  BY <1>4, <1>5, <1>8, <1>9 DEF EInv

LEMMA DestroyExact ==
    ASSUME IInv, EInv, Grown, DestroyResults
    PROVE  EInv'
<1> USE DEF DestroyResults
<1>1. Len(callbacks') = 0 /\ callbackIndex' = 0
  BY DEF StartCallbacks, NPos
<1>2. EachInv'
  BY <1>1, NoneKept
<1>3. LoopInv'
  BY <1>1 DEF EInv, LoopInv, Telling, Free
<1>4. RoundInv' /\ RowsInv'
  BY RoundKept DEF IInv, NotifierOK, Notifier, groupVars
<1>5. StandInv'
  BY DEF EInv, StandInv, Telling, groupVars, latest
<1> QED
  BY <1>2, <1>3, <1>4, <1>5 DEF EInv

(* The steps on callbacks that leave the worker and its notifier alone.    *)
LEMMA CallbacksStep ==
    ASSUME IInv, EInv, Grown, UNCHANGED << groupVars, notifier, worker >>,
           main'.pc = main.pc, main'.op = main.op, main'.target = main.target,
           main'.package = main.package, main'.jumped = main.jumped,
           main'.nested = main.nested, EachInv', LoopInv'
    PROVE  EInv'
<1>1. RoundInv' /\ RowsInv'
  BY RoundKept DEF groupVars
<1>2. StandInv'
  BY DEF EInv, StandInv, Telling, groupVars, latest
<1> QED
  BY <1>1, <1>2 DEF EInv

LEMMA AddCallbackExact ==
    ASSUME IInv, EInv, Grown, AddCallback
    PROVE  EInv'
<1> USE DEF AddCallback
<1>1. /\ main' = [main EXCEPT !.halfway = "adding"] \/ (main' = main /\ callbackIndex # 0)
      /\ callbackIndex = 0 => main' = [main EXCEPT !.halfway = "adding"]
      /\ main.pc \in {"idle", "called"} /\ main.halfway = "no"
  BY DEF Free, InCallback, NPos
<1>2. /\ main'.pc = main.pc /\ main'.op = main.op /\ main'.target = main.target
      /\ main'.package = main.package /\ main'.jumped = main.jumped
      /\ main'.nested = main.nested
      /\ callbackIndex = 0 => main'.halfway = "adding"
      /\ main'.halfway # "no" => main'.pc \in {"idle", "called"}
  BY <1>1, MainFields DEF MainThread
<1>3. /\ Len(callbacks) \in Nat /\ Len(callbacks') = Len(callbacks) + 1
      /\ \A i \in 1 .. Len(callbacks) : callbacks'[i] = callbacks[i]
      /\ callbacks'[Len(callbacks) + 1] = NewCallback(callbackIndex = NPos)
      /\ UNCHANGED << haveCallbacks, callbackIndex, callbackCount, miscounted >>
      /\ callbackIndex \in Nat /\ callbackCount \in Nat
  BY PushType, AppendExtends DEF PushCallback, IInv, CallbacksInv, CallbacksTypeOK
<1>4. LoopInv'
  <2>1. callbackIndex # 0 => haveCallbacks
    BY <1>1, <1>3 DEF EInv, LoopInv
  <2> QED
    BY <1>1, <1>2, <1>3, <2>1 DEF EInv, LoopInv, Telling
<1>5. EachInv'
  <2> SUFFICES ASSUME NEW i \in 1 .. Len(callbacks')
               PROVE  CallbackInv(callbacks[i], Waits(i), Counted(i))'
    BY DEF EachInv
  <2>1. (Waits(i)' <=> Waits(i)) /\ (Counted(i)' <=> Counted(i)) /\ (Telling' <=> Telling)
    BY <1>2, <1>3 DEF Waits, Counted, Telling
  <2>2. CASE i \in 1 .. Len(callbacks)
    <3>1. Alike(callbacks'[i], callbacks[i])
      BY <1>3, <2>2 DEF Alike
    <3> QED
      BY <1>2, <1>3, <2>1, <2>2, <3>1, OneKept
  <2>3. CASE i = Len(callbacks) + 1
    <3>1. (Telling => Waits(i)) /\ (~miscounted => ~Counted(i))
      BY <1>3, <2>3 DEF EInv, LoopInv, IInv, MainInv, Waits, Counted
    <3>2. /\ ~callbacks'[i].initialDelivered /\ callbacks'[i].told = {}
          /\ callbacks'[i].accumulated = {} /\ callbacks'[i].skipped = {}
          /\ callbacks'[i].toDeliver = {}
      BY <1>3, <2>3 DEF NewCallback
    <3> QED
      BY <1>3, <2>1, <3>1, <3>2 DEF CallbackInv, DeliveryOK, HistoryOK
  <2> QED
    BY <1>3, <2>2, <2>3
<1> QED
  BY <1>2, <1>4, <1>5, CallbacksStep

LEMMA FinishAddExact ==
    ASSUME IInv, EInv, Grown, FinishAddCallback
    PROVE  EInv'
<1> USE DEF FinishAddCallback, NoteCallbacks
<1>1. /\ main'.pc = main.pc /\ main'.op = main.op /\ main'.target = main.target
      /\ main'.package = main.package /\ main'.jumped = main.jumped
      /\ main'.nested = main.nested /\ main'.halfway = "no"
  BY MainFields DEF MainThread
<1>2. EachInv'
  BY <1>1, EachKept DEF Telling, Alike
<1>3. LoopInv'
  BY <1>1 DEF EInv, LoopInv, Telling
<1> QED
  BY <1>1, <1>2, <1>3, CallbacksStep

LEMMA SuppressExact ==
    ASSUME IInv, EInv, Grown, NEW token \in Tokens, SuppressNext(token)
    PROVE  EInv'
<1> USE DEF SuppressNext, SuppressNextNotification
<1> DEFINE i == IndexOf(token)
<1>1. /\ main'.pc = main.pc /\ main'.op = main.op /\ main'.target = main.target
      /\ main'.package = main.package /\ main'.jumped = main.jumped
      /\ main'.nested = main.nested /\ main'.halfway = "suppressing"
      /\ main.pc \in {"idle", "called"} /\ main.halfway # "adding"
  BY MainFields DEF MainThread, MayEnd
<1>2. i \in DOMAIN callbacks /\ DOMAIN callbacks = 1 .. Len(callbacks)
      /\ \A j \in DOMAIN callbacks : callbacks[j] \in Callback
  BY IndexIn, CallbackFields DEF IInv, CallbacksInv, CallbacksTypeOK
<1>3. Len(callbacks') = Len(callbacks)
  <2>1. latest + 1 \in Versions
    BY Numbers, GroupAssumption DEF Versions
  <2> QED
    BY <2>1, SuppressType DEF IInv
<1>4. \A j \in 1 .. Len(callbacks) : Alike(callbacks'[j], callbacks[j])
  <2> DEFINE asked == IF callbacks[i].initialDelivered
                      THEN callbacks[i].asked \cup {latest + 1} ELSE callbacks[i].asked
  <2>1. callbacks' = [callbacks EXCEPT ![i] =
                        [callbacks[i] EXCEPT !.skipNext = TRUE, !.asked = asked]]
    BY <1>2
  <2> HIDE DEF i, asked
  <2> QED
    BY <1>2, <2>1 DEF Alike, Callback
<1>5. EachInv'
  BY <1>1, <1>3, <1>4, EachKept DEF Telling
<1>6. LoopInv'
  BY <1>1, <1>3 DEF EInv, LoopInv, Telling
<1> QED
  BY <1>1, <1>5, <1>6, CallbacksStep

LEMMA RemoveAtElements ==
    ASSUME NEW S, NEW s \in Seq(S), NEW i \in 1 .. Len(s), NEW j \in 1 .. Len(s) - 1
    PROVE  RemoveAt(s, i)[j] = IF j < i THEN s[j] ELSE s[j + 1]
<1> DEFINE before == SubSeq(s, 1, i - 1)
           after == SubSeq(s, i + 1, Len(s))
<1>1. /\ before \in Seq(S) /\ Len(before) = i - 1
      /\ \A k \in 1 .. i - 1 : before[k] = s[1 + k - 1]
  BY SubSeqProperties
<1>2. /\ after \in Seq(S) /\ Len(after) = Len(s) - i
      /\ \A k \in 1 .. Len(s) - i : after[k] = s[i + 1 + k - 1]
  BY SubSeqProperties
<1>3. RemoveAt(s, i) = before \o after
  BY DEF RemoveAt
<1> HIDE DEF before, after
<1>4. j \in 1 .. Len(before) + Len(after)
  BY <1>1, <1>2
<1>5. (before \o after)[j] = IF j <= Len(before) THEN before[j] ELSE after[j - Len(before)]
  BY <1>1, <1>2, <1>4, ConcatProperties
<1>6. CASE j < i
  BY <1>1, <1>3, <1>5, <1>6
<1>7. CASE ~(j < i)
  <2>1. j - (i - 1) \in 1 .. Len(s) - i /\ ~(j <= Len(before))
    BY <1>1, <1>7
  <2>2. after[j - (i - 1)] = s[i + 1 + (j - (i - 1)) - 1]
    BY <1>2, <2>1
  <2>3. i + 1 + (j - (i - 1)) - 1 = j + 1
    OBVIOUS
  <2> QED
    BY <1>1, <1>3, <1>5, <1>7, <2>1, <2>2, <2>3
<1> QED
  BY <1>6, <1>7

(* The callbacks after the one that goes move up with the index and count. *)
LEMMA RemoveExact ==
    ASSUME IInv, EInv, Grown, NEW token \in Tokens, RemoveCallbackOf(token)
    PROVE  EInv'
<1> USE DEF RemoveCallbackOf
<1> DEFINE gone == IndexOf(token)
<1>1. /\ gone \in 1 .. Len(callbacks) /\ Len(callbacks) \in Nat
      /\ callbackIndex \in Nat /\ callbackCount \in Nat
      /\ main.halfway = "no"
  BY IndexIn DEF RemoveCallback, IInv, CallbacksInv, CallbacksTypeOK, Free, InCallback
<1>2. /\ Len(callbacks') = Len(callbacks) - 1
      /\ miscounted => miscounted'
      /\ Telling /\ callbackCount \in 0 .. MaxTokens /\ ~miscounted' =>
           gone <= callbackCount /\ callbackCount' = callbackCount - 1
      /\ callbackIndex' = IF callbackIndex >= gone THEN callbackIndex - 1 ELSE callbackIndex
      /\ haveCallbacks' = (Len(callbacks) > 1)
  <2>1. InCallback \in BOOLEAN /\ (Telling => InCallback)
    BY DEF InCallback, Free, Telling
  <2>2. /\ Len(callbacks') = Len(callbacks) - 1
        /\ miscounted => miscounted'
        /\ InCallback /\ callbackCount \in 0 .. MaxTokens /\ ~miscounted' =>
             gone <= callbackCount /\ callbackCount' = callbackCount - 1
    BY <2>1, RemoveType DEF IInv
  <2> QED
    BY <2>1, <2>2 DEF RemoveCallback
<1>3. \A j \in 1 .. Len(callbacks') :
         callbacks'[j] = IF j < gone THEN callbacks[j] ELSE callbacks[j + 1]
  BY <1>1, <1>2, RemoveAtElements DEF RemoveCallback, IInv, CallbacksInv, CallbacksTypeOK
<1>4. main.pc = "idle" \/ main.pc = "called"
  BY DEF Free, InCallback
<1>5. Telling /\ ~miscounted' =>
         /\ gone <= callbackCount /\ callbackCount' = callbackCount - 1
         /\ callbackIndex <= callbackCount
  <2> SUFFICES ASSUME Telling, ~miscounted'
               PROVE  /\ gone <= callbackCount /\ callbackCount' = callbackCount - 1
                      /\ callbackIndex <= callbackCount
    OBVIOUS
  <2>1. ~miscounted /\ callbackIndex <= callbackCount
    BY <1>2 DEF EInv, LoopInv
  <2>2. callbackCount <= Len(callbacks) /\ Len(callbacks) <= MaxTokens /\ MaxTokens \in Nat
    BY <2>1, Numbers, CallbacksAssumption DEF IInv, MainInv
  <2> QED
    BY <1>1, <1>2, <2>1, <2>2
<1>6. main' = main /\ notifier' = notifier
  OBVIOUS
<1> HIDE DEF gone
<1>7. EachInv'
  <2> SUFFICES ASSUME NEW j \in 1 .. Len(callbacks')
               PROVE  CallbackInv(callbacks[j], Waits(j), Counted(j))'
    BY DEF EachInv
  <2> DEFINE i == IF j < gone THEN j ELSE j + 1
  <2>1. i \in 1 .. Len(callbacks) /\ callbacks'[j] = callbacks[i]
    BY <1>1, <1>2, <1>3
  <2>2. Waits(j)' <=> Waits(i)
    BY <1>1, <1>2, <1>6 DEF Waits, Telling
  <2>3. ~miscounted' => (Counted(j)' <=> Counted(i))
    <3>1. CASE ~Telling
      BY <3>1, <1>6 DEF Counted, Telling
    <3>2. CASE Telling
      <4>1. ASSUME ~miscounted'
            PROVE  j <= callbackCount' <=> i <= callbackCount
        BY <1>1, <1>2, <1>5, <3>2, <4>1
      <4>2. Telling'
        BY <1>6, <3>2 DEF Telling
      <4> QED
        BY <3>2, <4>1, <4>2 DEF Counted
    <3> QED
      BY <3>1, <3>2
  <2>4. Alike(callbacks'[j], callbacks[i])
    BY <2>1 DEF Alike
  <2> HIDE DEF i
  <2> QED
    BY <1>2, <1>6, <2>1, <2>2, <2>3, <2>4, OneKept DEF Telling
<1>8. LoopInv'
  <2>1. callbackIndex' <= Len(callbacks')
    BY <1>1, <1>2 DEF EInv, LoopInv
  <2>2. Telling /\ ~miscounted' => callbackIndex' <= callbackCount'
    BY <1>1, <1>2, <1>5
  <2>3. callbackIndex = 0 => callbackIndex' = 0
    BY <1>1, <1>2
  <2>4. ~haveCallbacks' => Len(callbacks') = 0
    <3>1. ~haveCallbacks' => ~(Len(callbacks) > 1)
      BY <1>2, Zenon
    <3> QED
      BY <1>1, <1>2, <3>1
  <2>5. notifier.alive
    BY <1>1 DEF EInv, LoopInv
  <2> QED
    BY <1>1, <1>6, <2>1, <2>2, <2>3, <2>4, <2>5 DEF EInv, LoopInv, Telling
<1> QED
  BY <1>6, <1>7, <1>8, CallbacksStep

LEMMA DeliverExact ==
    ASSUME IInv, EInv, Grown, DeliverView
    PROVE  EInv'
<1> USE DEF DeliverView
<1>1. /\ notifier'.version = notifier.version /\ notifier'.hasRun = notifier.hasRun
      /\ notifier'.alive = notifier.alive /\ notifier'.place = notifier.place
      /\ notifier'.changes = notifier.changes /\ notifier'.stale = notifier.stale
      /\ notifier'.previousRows = notifier.previousRows
  BY DEF Deliver, IInv, NotifierOK, Notifier
<1>2. /\ main.pc = "delivering" /\ main'.pc = "calling" /\ main'.package = main.package
      /\ main'.halfway = main.halfway /\ main'.nested = main.nested
      /\ main'.jumped = main.jumped
  BY MainFields DEF MainThread
<1>3. EachInv'
  BY <1>1, <1>2, EachKept DEF Telling, Alike, callbackVars
<1>4. LoopInv'
  BY <1>1, <1>2 DEF EInv, LoopInv, Telling, callbackVars
<1>5. RoundInv' /\ RowsInv'
  BY <1>1, RoundKept DEF groupVars
<1>6. StandInv'
  BY <1>2 DEF EInv, StandInv, Telling, groupVars
<1> QED
  BY <1>3, <1>4, <1>5, <1>6 DEF EInv

(* The callback to be called is the first one due.                         *)
LEMMA FirstIsLeast ==
    ASSUME CallbacksTypeOK, Due # {}
    PROVE  \A j \in Due : FirstOf(Due) <= j
<1>1. Due \in SUBSET Nat
  BY DEF Due, CallbacksTypeOK
<1>2. PICK i \in Due : \A j \in Due : ~(j < i)
  BY <1>1, LeastNatural
<1>3. \A j \in Due : i <= j
  BY <1>1, <1>2
<1> QED
  BY <1>3 DEF FirstOf

(* Whoever the loop passes over has been called before and has nothing to  *)
(* be told; whoever is called has been told all up to the package.         *)
LEMMA CallNextExact ==
    ASSUME IInv, EInv, Grown, CallNext
    PROVE  EInv'
<1> USE DEF CallNext
<1>1. /\ main.pc = "calling" /\ main'.pc = "called" /\ main'.package = main.package
      /\ main'.halfway = main.halfway /\ main'.nested = main.nested
      /\ main'.jumped = main.jumped /\ Telling /\ Telling'
  BY MainFields DEF MainThread, Telling
<1>2. /\ Len(callbacks) \in Nat /\ callbackIndex \in Nat /\ callbackCount \in Nat
      /\ DOMAIN callbacks = 1 .. Len(callbacks)
  BY CallbacksDomain DEF IInv, CallbacksInv, CallbacksTypeOK
<1>3. FirstOf(Due) \in Due /\ \A j \in Due : FirstOf(Due) <= j
  BY FirstIsDue, FirstIsLeast DEF CallCallback, IInv, CallbacksInv
<1>a. PICK i \in Due : i = FirstOf(Due) /\ \A j \in Due : i <= j
  BY <1>3
<1> DEFINE c == callbacks[i]
           d == callbacks'[i]
<1>4. /\ i \in 1 .. Len(callbacks) /\ callbackIndex < i /\ i <= callbackCount
      /\ \A j \in 1 .. Len(callbacks) : callbackIndex < j /\ j < i =>
            callbacks[j].initialDelivered /\ callbacks[j].toDeliver = {}
  <2>1. i \in callbackIndex + 1 .. Len(callbacks) /\ i <= callbackCount
    BY <1>a DEF Due
  <2>2. ASSUME NEW j \in 1 .. Len(callbacks), callbackIndex < j, j < i
        PROVE  callbacks[j].initialDelivered /\ callbacks[j].toDeliver = {}
    <3>1. j \notin Due
      BY <1>2, <1>a, <2>1, <2>2
    <3>2. j \in callbackIndex + 1 .. Len(callbacks) /\ j <= callbackCount
      BY <1>2, <2>1, <2>2
    <3> QED
      BY <3>1, <3>2 DEF Due
  <2> QED
    BY <1>2, <2>1, <2>2
<1>5. main.package \in Versions \cup {0} /\ callbackIndex' = i /\ callbackCount' = callbackCount
      /\ miscounted' = miscounted
  BY <1>a, Numbers DEF CallCallback
<1>6. /\ Len(callbacks') = Len(callbacks)
      /\ \A j \in 1 .. Len(callbacks) : j # i => callbacks'[j] = callbacks[j]
      /\ d = IF c.initialDelivered
             THEN [c EXCEPT !.toDeliver = {}, !.told = @ \cup c.toDeliver]
             ELSE [c EXCEPT !.toDeliver = {}, !.initialDelivered = TRUE,
                            !.base = main.package, !.discarded = {},
                            !.skipped = {v \in @ : v > main.package}]
  <2>1. Len(callbacks') = Len(callbacks)
    BY <1>5, CallType DEF IInv
  <2> QED
    BY <1>2, <1>4, <1>a, <2>1 DEF CallCallback
<1>7. c \in Callback
  BY <1>2, <1>4, CallbackFields DEF IInv
<1>8. CallbackInv(c, TRUE, TRUE)
  <2>1. Waits(i) /\ Counted(i)
    BY <1>1, <1>4 DEF Waits, Counted
  <2>2. CallbackInv(c, Waits(i), Counted(i))
    BY <1>4 DEF EInv, EachInv
  <2> QED
    BY <2>1, <2>2 DEF CallbackInv, DeliveryOK, HistoryOK
<1>9. CallbackInv(callbacks[i], Waits(i), Counted(i))'
  <2>1. ~Waits(i)' /\ Counted(i)'
    BY <1>1, <1>2, <1>4, <1>5 DEF Waits, Counted
  <2>2. notifier.hasRun /\ main.package \in 1 .. notifier.version
    BY <1>1 DEF EInv, LoopInv
  <2>3. UNCHANGED << notifier, snapshots >>
    BY DEF groupVars
  <2>4. CASE c.initialDelivered
    <3>1. /\ d.toDeliver = {} /\ d.told = c.told \cup c.toDeliver
          /\ d.initialDelivered /\ d.base = c.base
          /\ d.accumulated = c.accumulated /\ d.skipped = c.skipped
          /\ d.discarded = c.discarded
      BY <1>6, <1>7, <2>4 DEF Callback
    <3>2. ~miscounted => DeliveryOK(callbacks[i], Waits(i), Counted(i))'
      BY <1>8, <2>1, <2>3, <2>4, <3>1 DEF CallbackInv, DeliveryOK
    <3>3. ~miscounted /\ ~notifier.stale => HistoryOK(c, TRUE)
      BY <1>8 DEF CallbackInv
    <3>4. Exactly(c, ChangedBetween(c.base, notifier.version))
             => Exactly(d, ChangedBetween(c.base, notifier.version))
      BY <3>1 DEF Exactly
    <3>5. ChangedBetween(callbacks[i].base, notifier.version)'
             = ChangedBetween(c.base, notifier.version)
      BY <2>3, <3>1 DEF ChangedBetween
    <3>6. ~miscounted /\ ~notifier.stale => HistoryOK(callbacks[i], Counted(i))'
      BY <1>1, <2>1, <2>3, <2>4, <3>1, <3>3, <3>4, <3>5 DEF HistoryOK
    <3> QED
      BY <1>5, <2>2, <2>3, <3>2, <3>6 DEF CallbackInv
  <2>5. CASE ~c.initialDelivered
    <3>1. /\ d.toDeliver = {} /\ d.told = c.told
          /\ d.initialDelivered /\ d.base = main.package
          /\ d.accumulated = c.accumulated
          /\ d.skipped = {v \in c.skipped : v > main.package}
          /\ d.discarded = {}
      BY <1>6, <1>7, <2>5 DEF Callback
    <3>2. DeliveryOK(callbacks[i], Waits(i), Counted(i))'
      BY <2>1, <2>2, <2>3, <3>1 DEF DeliveryOK
    <3>3. ~miscounted /\ ~notifier.stale => HistoryOK(c, TRUE)
      BY <1>8 DEF CallbackInv
    <3>4. ~miscounted => d.told = {}
      BY <1>8, <2>5, <3>1 DEF CallbackInv, DeliveryOK
    <3>5. ChangedBetween(callbacks[i].base, notifier.version)'
             = ChangedBetween(main.package, notifier.version)
      BY <2>3, <3>1 DEF ChangedBetween
    <3>6. ~miscounted /\ ~notifier.stale => Exactly(d, ChangedBetween(main.package, notifier.version))
      BY <2>5, <3>1, <3>3, <3>4 DEF HistoryOK, Exactly
    <3>7. ~miscounted /\ ~notifier.stale => HistoryOK(callbacks[i], Counted(i))'
      BY <1>1, <2>1, <2>3, <3>1, <3>3, <3>5, <3>6 DEF HistoryOK
    <3> QED
      BY <1>5, <2>2, <2>3, <3>2, <3>7 DEF CallbackInv
  <2> QED
    BY <2>4, <2>5
<1>10. EachInv'
  <2> SUFFICES ASSUME NEW j \in 1 .. Len(callbacks), j # i
               PROVE  CallbackInv(callbacks[j], Waits(j), Counted(j))'
    BY <1>6, <1>9 DEF EachInv
  <2>1. Counted(j)' <=> Counted(j)
    BY <1>1, <1>5 DEF Counted
  <2>2. CallbackInv(callbacks[j], Waits(j), Counted(j)) /\ callbacks'[j] = callbacks[j]
    BY <1>6 DEF EInv, EachInv
  <2>3. UNCHANGED << notifier, snapshots >>
    BY DEF groupVars
  <2>4. ~miscounted => DeliveryOK(callbacks[j], Waits(j), Counted(j))'
    <3> DEFINE waits == Waits(j)
               counted == Counted(j)
    <3>0. ~miscounted => DeliveryOK(callbacks[j], waits, counted)
      BY <2>2 DEF CallbackInv
    <3>1. CASE Waits(j)' <=> waits
      BY <1>1, <2>1, <2>2, <2>3, <3>0, <3>1 DEF DeliveryOK
    <3>2. CASE ~(Waits(j)' <=> waits)
      <4>1. callbackIndex < j /\ j < i
        BY <1>1, <1>2, <1>4, <1>5, <3>2 DEF Waits
      <4>2. callbacks[j].initialDelivered /\ callbacks[j].toDeliver = {}
        BY <1>4, <4>1
      <4> QED
        BY <1>1, <2>1, <2>2, <2>3, <3>0, <4>2 DEF DeliveryOK
    <3> QED
      BY <3>1, <3>2
  <2>5. ~miscounted /\ ~notifier.stale => HistoryOK(callbacks[j], Counted(j))'
    BY <1>1, <2>1, <2>2, <2>3 DEF CallbackInv, HistoryOK, ChangedBetween
  <2> QED
    BY <1>5, <2>2, <2>3, <2>4, <2>5 DEF CallbackInv
<1>11. LoopInv'
  BY <1>1, <1>2, <1>4, <1>5, <1>6 DEF EInv, LoopInv, CallCallback
<1>12. RoundInv' /\ RowsInv'
  BY RoundKept DEF groupVars
<1>13. StandInv'
  BY <1>1 DEF EInv, StandInv, groupVars
<1> QED
  BY <1>10, <1>11, <1>12, <1>13 DEF EInv

LEMMA ReturnFields ==
    ASSUME Return
    PROVE  main'.pc = "idle" /\ main'.halfway = "no" /\ ~main'.nested /\ ~Telling'
  BY DEF Return, IdleMain, Telling

LEMMA FinishCallingExact ==
    ASSUME IInv, EInv, Grown, FinishCalling
    PROVE  EInv'
<1> USE DEF FinishCalling
<1>1. main.pc = "calling" /\ Telling /\ main.halfway = "no"
  BY DEF Telling, EInv, LoopInv
<1>2. main'.pc = "idle" /\ main'.halfway = "no" /\ ~main'.nested /\ ~Telling'
  BY ReturnFields
<1>3. /\ Due = {} /\ callbackIndex' = 0 /\ callbacks' = callbacks
      /\ haveCallbacks' = haveCallbacks /\ UNCHANGED << notifier, snapshots, miscounted >>
      /\ Len(callbacks) \in Nat /\ callbackIndex \in Nat
  BY DEF StopCalling, NPos, groupVars, IInv, CallbacksInv, CallbacksTypeOK
<1>4. EachInv'
  <2> SUFFICES ASSUME NEW j \in 1 .. Len(callbacks)
               PROVE  CallbackInv(callbacks[j], Waits(j), Counted(j))'
    BY <1>3 DEF EachInv
  <2>1. CallbackInv(callbacks[j], Waits(j), Counted(j))
    BY DEF EInv, EachInv
  <2>2. ~Waits(j)' /\ ~Counted(j)'
    BY <1>2 DEF Waits, Counted
  <2>3. ~miscounted => callbacks[j].toDeliver = {}
    <3>1. CASE Waits(j) /\ Counted(j)
      <4>1. j \in callbackIndex + 1 .. Len(callbacks) /\ j <= callbackCount
        BY <1>3, <3>1 DEF Waits, Counted
      <4> QED
        BY <1>3, <4>1 DEF Due
    <3> QED
      BY <2>1, <3>1 DEF CallbackInv, DeliveryOK
  <2>4. ~miscounted => DeliveryOK(callbacks[j], Waits(j), Counted(j))'
    BY <1>2, <1>3, <2>1, <2>2, <2>3 DEF CallbackInv, DeliveryOK
  <2>5. ~miscounted /\ ~notifier.stale => HistoryOK(callbacks[j], Counted(j))'
    BY <1>3, <2>1, <2>2 DEF CallbackInv, HistoryOK, ChangedBetween
  <2> QED
    BY <1>3, <2>1, <2>4, <2>5 DEF CallbackInv
<1>5. LoopInv'
  BY <1>1, <1>2, <1>3 DEF EInv, LoopInv
<1>6. RoundInv' /\ RowsInv'
  BY RoundKept DEF groupVars
<1>7. StandInv'
  BY <1>2 DEF StandInv
<1> QED
  BY <1>4, <1>5, <1>6, <1>7 DEF EInv

-----------------------------------------------------------------------------
(* Packaging.                                                              *)

(* Without a package the main thread is as it was before the call.         *)
LEMMA NoPackage ==
    ASSUME IInv, EInv, Grown, main.pc = "packaging", Return,
           UNCHANGED << notifier, callbackVars, worker >>, bound'[Worker] = bound[Worker]
    PROVE  EInv'
<1>1. /\ main'.pc = "idle" /\ main'.halfway = "no" /\ ~main'.nested /\ ~Telling'
      /\ ~Telling /\ callbackIndex = 0 /\ main.halfway # "adding"
  BY ReturnFields, NotTelling DEF EInv, LoopInv
<1>2. StandInv'
  BY <1>1 DEF StandInv
<1> QED
  BY <1>1, <1>2, QuietStep

LEMMA PackagedFields ==
    ASSUME IInv, notifier' = Packaged
    PROVE  /\ notifier'.version = notifier.version /\ notifier'.hasRun = notifier.hasRun
           /\ notifier'.alive = notifier.alive /\ notifier'.place = notifier.place
           /\ notifier'.changes = notifier.changes /\ notifier'.stale = notifier.stale
           /\ notifier'.previousRows = notifier.previousRows
  BY DEF Packaged, IInv, NotifierOK, Notifier

LEMMA CarryFields ==
    ASSUME IInv, NEW pc \in {"delivering", "calling"}, Carry(pc)
    PROVE  /\ main'.halfway = "no" /\ ~main'.nested
           /\ PackageVersion = 0 => main'.pc = "idle"
           /\ PackageVersion # 0 => main'.pc = pc /\ main'.package = PackageVersion
<1> DEFINE jumped == main.jumped /\ PackageVersion < bound[Main]
<1>1. CASE PackageVersion = 0
  BY <1>1, ReturnFields DEF Carry
<1>2. CASE PackageVersion # 0
  <2>1. main' = [IdleMain EXCEPT !.package = PackageVersion, !.pc = pc, !.jumped = jumped]
    BY <1>2 DEF Carry
  <2> HIDE DEF jumped
  <2> QED
    BY <1>2, <2>1 DEF IdleMain
<1> QED
  BY <1>1, <1>2

(* What waited for a callback is to be delivered to it or is discarded: in *)
(* both cases what there was to deliver before has been.                   *)
LEMMA PackagedExactly ==
    ASSUME NEW c, NEW d, NEW changes, Exactly(c, changes), c.toDeliver = {},
           d.told = c.told, d.skipped = c.skipped, d.accumulated = {},
           \/ d.toDeliver = c.accumulated /\ d.discarded = c.discarded
           \/ d.toDeliver = {} /\ d.discarded = c.discarded \cup c.accumulated
    PROVE  Exactly(d, changes)
  BY DEF Exactly

(* A package is for the version of the notifier: whoever has been called   *)
(* before is told what has waited for it, the others begin there.          *)
LEMMA PackagedExact ==
    ASSUME IInv, EInv, Grown, main.pc = "packaging", Settled(main.target),
           NEW pc \in {"delivering", "calling"}, PackageNotifier, Carry(pc),
           UNCHANGED << worker, snapshots >>, bound'[Worker] = bound[Worker],
           PackageVersion # 0 => bound'[Main] = PackageVersion \/ stage'[Main] = "Ready"
    PROVE  EInv'
<1>1. CASE ~notifier.hasRun
  <2>1. Return /\ UNCHANGED << notifier, callbackVars >>
    BY <1>1 DEF PackageVersion, Carry, PackageNotifier
  <2> QED
    BY <2>1, NoPackage
<1>2. CASE notifier.hasRun
  <2>1. notifier' = Packaged /\ PackageCallbacks
    BY <1>2 DEF PackageNotifier
  <2>2. /\ notifier'.version = notifier.version /\ notifier'.hasRun = notifier.hasRun
        /\ notifier'.alive = notifier.alive /\ notifier'.place = notifier.place
        /\ notifier'.changes = notifier.changes /\ notifier'.stale = notifier.stale
        /\ notifier'.previousRows = notifier.previousRows
    BY <2>1, PackagedFields
  <2>3. /\ main'.halfway = "no" /\ ~main'.nested
        /\ PackageVersion = 0 => main'.pc = "idle"
        /\ PackageVersion # 0 => main'.pc = pc /\ main'.package = PackageVersion
    BY CarryFields
  <2>4. /\ ~Telling /\ callbackIndex = 0 /\ main.halfway = "no"
    BY NotTelling DEF EInv, LoopInv
  <2>5. /\ Len(callbacks') = Len(callbacks) /\ callbackCount' = Len(callbacks)
        /\ callbackIndex' = 0 /\ haveCallbacks' = haveCallbacks /\ Len(callbacks) \in Nat
        /\ miscounted' = miscounted
    <3>1. CallbacksInv /\ Len(callbacks) \in Nat
      BY DEF IInv, CallbacksInv, CallbacksTypeOK
    <3> QED
      BY <2>1, <2>4, <3>1, PackageType DEF PackageCallbacks
  <2>6. RoundInv' /\ RowsInv'
    BY <2>2, RoundKept
  <2>7. StandInv'
    BY <2>3 DEF StandInv, Telling
  <2>8. CASE PackageVersion = 0
    <3>1. Len(callbacks) = 0
      <4>1. notifier.version \in Nat /\ main.target \in Nat
        BY Numbers
      <4>2. ~(notifier.version >= main.target) /\ main.target # 0
        BY <1>2, <2>8, <4>1, Numbers DEF PackageVersion
      <4>3. ~haveCallbacks
        BY <4>2 DEF Settled
      <4> QED
        BY <2>4, <4>3 DEF EInv, LoopInv
    <3>2. EachInv'
      BY <2>5, <3>1, NoneKept
    <3>3. LoopInv'
      BY <2>3, <2>5, <2>8, <3>1 DEF LoopInv, Telling
    <3> QED
      BY <2>6, <2>7, <3>2, <3>3 DEF EInv
  <2>9. CASE PackageVersion # 0
    <3>1. /\ PackageVersion = notifier.version /\ notifier.version \in Nat
          /\ notifier.version \in 1 .. notifier.version
      BY <2>9, Numbers DEF PackageVersion, Versions
    <3>2. Telling' /\ main'.package = notifier.version
      BY <2>3, <2>9, <3>1 DEF Telling
    <3>3. LoopInv'
      BY <1>2, <2>2, <2>3, <2>4, <2>5, <3>1, <3>2 DEF EInv, LoopInv, Telling
    <3>4. EachInv'
      <4> SUFFICES ASSUME NEW i \in 1 .. Len(callbacks)
                   PROVE  CallbackInv(callbacks[i], Waits(i), Counted(i))'
        BY <2>5 DEF EachInv
      <4> DEFINE c == callbacks[i]
                 d == callbacks'[i]
      <4>1. /\ d.toDeliver = c.accumulated /\ d.accumulated = {}
            /\ d.initialDelivered = c.initialDelivered /\ d.base = c.base
            /\ d.told = c.told /\ d.skipped = c.skipped /\ d.discarded = c.discarded
        BY <2>1, CallbacksDomain, CallbackFields DEF PackageCallbacks, IInv, Callback
      <4>2. ~Waits(i) /\ ~Counted(i) /\ Waits(i)' /\ Counted(i)'
        BY <2>4, <2>5, <3>2 DEF Waits, Counted
      <4>3. ~miscounted => DeliveryOK(c, FALSE, FALSE)
        <5>1. ~miscounted => DeliveryOK(c, Waits(i), Counted(i))
          BY DEF EInv, EachInv, CallbackInv
        <5> QED
          BY <4>2, <5>1 DEF DeliveryOK
      <4>4. ~miscounted => DeliveryOK(callbacks[i], Waits(i), Counted(i))'
        BY <1>2, <2>2, <4>1, <4>2, <4>3 DEF DeliveryOK
      <4>5. ASSUME ~notifier'.stale, ~miscounted
            PROVE  HistoryOK(callbacks[i], Counted(i))'
        <5>1. HistoryOK(c, Counted(i))
          BY <2>2, <4>5 DEF EInv, EachInv, CallbackInv
        <5>2. c.initialDelivered => Exactly(d, ChangedBetween(c.base, notifier.version))
          BY <4>1, <4>3, <4>5, <5>1, PackagedExactly DEF HistoryOK, DeliveryOK
        <5>3. c.skipped \subseteq 1 .. notifier.version
          BY <5>1 DEF HistoryOK
        <5>4. /\ ChangedBetween(notifier.version, notifier.version) = {}
              /\ {v \in c.skipped : v > notifier.version} = {}
          BY <3>1, <5>3 DEF ChangedBetween
        <5>5. /\ ChangedBetween(callbacks[i].base, notifier.version)'
                   = ChangedBetween(c.base, notifier.version)
              /\ ChangedBetween(main.package, notifier.version)'
                   = ChangedBetween(notifier.version, notifier.version)
          BY <2>2, <3>2, <4>1 DEF ChangedBetween
        <5> QED
          BY <2>2, <3>2, <4>1, <5>2, <5>3, <5>4, <5>5 DEF HistoryOK
      <4> QED
        BY <1>2, <2>2, <2>5, <4>4, <4>5 DEF CallbackInv
    <3> QED
      BY <2>6, <2>7, <3>3, <3>4 DEF EInv
  <2> QED
    BY <2>8, <2>9
<1> QED
  BY <1>1, <1>2

LEMMA DiscardExact ==
    ASSUME IInv, EInv, Grown, DiscardPackage
    PROVE  EInv'
<1> USE DEF DiscardPackage, Packaging
<1>1. /\ notifier'.version = notifier.version /\ notifier'.hasRun = notifier.hasRun
      /\ notifier'.alive = notifier.alive /\ notifier'.place = notifier.place
      /\ notifier'.changes = notifier.changes /\ notifier'.stale = notifier.stale
      /\ notifier'.previousRows = notifier.previousRows
  BY PackagedFields
<1>2. /\ main'.pc = "idle" /\ main'.halfway = "no" /\ ~main'.nested /\ ~Telling'
      /\ ~Telling /\ callbackIndex = 0 /\ main.halfway = "no"
  BY ReturnFields, NotTelling DEF EInv, LoopInv
<1>3. /\ Len(callbacks') = Len(callbacks) /\ Len(callbacks) \in Nat
      /\ UNCHANGED << haveCallbacks, callbackIndex, snapshots, miscounted >>
  <2>1. CallbacksInv /\ Len(callbacks) \in Nat
    BY DEF IInv, CallbacksInv, CallbacksTypeOK
  <2> QED
    BY <2>1, PackageType DEF PackageAndDiscard, groupVars
<1>4. LoopInv'
  BY <1>1, <1>2, <1>3 DEF EInv, LoopInv
<1>5. RoundInv' /\ RowsInv'
  BY <1>1, RoundKept DEF groupVars
<1>6. StandInv'
  BY <1>2 DEF StandInv
<1>7. EachInv'
  <2> SUFFICES ASSUME NEW i \in 1 .. Len(callbacks)
               PROVE  CallbackInv(callbacks[i], Waits(i), Counted(i))'
    BY <1>3 DEF EachInv
  <2> DEFINE c == callbacks[i]
             d == callbacks'[i]
  <2>1. /\ d.toDeliver = {} /\ d.accumulated = {}
        /\ d.initialDelivered = c.initialDelivered /\ d.base = c.base
        /\ d.told = c.told /\ d.skipped = c.skipped
        /\ d.discarded = c.discarded \cup c.accumulated
    BY CallbacksDomain, CallbackFields DEF PackageAndDiscard, IInv, Callback
  <2>2. ~Waits(i) /\ ~Counted(i) /\ ~Waits(i)' /\ ~Counted(i)'
    BY <1>2 DEF Waits, Counted
  <2>3. ~miscounted => DeliveryOK(c, FALSE, FALSE)
    <3>1. ~miscounted => DeliveryOK(c, Waits(i), Counted(i))
      BY DEF EInv, EachInv, CallbackInv
    <3> QED
      BY <2>2, <3>1 DEF DeliveryOK
  <2>4. ~miscounted => DeliveryOK(callbacks[i], Waits(i), Counted(i))'
    BY <1>1, <1>2, <2>1, <2>2, <2>3 DEF DeliveryOK
  <2>5. ASSUME ~notifier'.stale, ~miscounted
        PROVE  HistoryOK(callbacks[i], Counted(i))'
    <3>1. HistoryOK(c, Counted(i))
      BY <1>1, <2>5 DEF EInv, EachInv, CallbackInv
    <3>2. c.initialDelivered => Exactly(d, ChangedBetween(c.base, notifier.version))
      BY <2>1, <2>3, <2>5, <3>1, PackagedExactly DEF HistoryOK, DeliveryOK
    <3>3. ChangedBetween(callbacks[i].base, notifier.version)'
             = ChangedBetween(c.base, notifier.version)
      BY <1>1, <1>3, <2>1 DEF ChangedBetween
    <3> QED
      BY <1>1, <2>1, <2>2, <3>1, <3>2, <3>3 DEF HistoryOK
  <2> QED
    BY <1>1, <1>3, <2>1, <2>4, <2>5 DEF CallbackInv
<1> QED
  BY <1>4, <1>5, <1>6, <1>7 DEF EInv

(* With the write lock, the snapshot waited for is the latest one.         *)
LEMMA PackageForWriteExact ==
    ASSUME IInv, EInv, Grown, PackageForWrite
    PROVE  EInv'
<1> USE DEF PackageForWrite, Packaging
<1>1. Moved(Main) /\ UNCHANGED snapshots
  BY PackageForWriteStep DEF FinishPromotion
<1>2. bound'[Worker] = bound[Worker]
  BY <1>1, Threads DEF Moved
<1>3. PackageVersion # 0 => bound'[Main] = PackageVersion
  <2>1. bound'[Main] = latest /\ main.target = latest
    BY Threads DEF FinishPromotion, IInv, GroupInv, GroupTypeOK, EInv, StandInv
  <2>2. notifier.version <= latest /\ notifier.version \in Nat /\ latest \in Nat
    BY Numbers DEF IInv, NotifierInv
  <2> QED
    BY <2>1, <2>2 DEF PackageVersion
<1> QED
  BY <1>1, <1>2, <1>3, PackagedExact

LEMMA AdvanceExactly ==
    ASSUME IInv, AdvanceRead(Main, OrElse(PackageVersion, latest))
    PROVE  /\ UNCHANGED snapshots /\ bound'[Worker] = bound[Worker]
           /\ PackageVersion # 0 => bound'[Main] = PackageVersion
  BY Threads DEF AdvanceRead, OrElse, IInv, GroupInv, GroupTypeOK

LEMMA PackageForRefreshExact ==
    ASSUME IInv, EInv, Grown, PackageForRefresh
    PROVE  EInv'
  BY AdvanceExactly, PackagedExact DEF PackageForRefresh, Packaging

LEMMA PackageReadyExact ==
    ASSUME IInv, EInv, Grown, PackageReady
    PROVE  EInv'
  BY AdvanceExactly, PackagedExact DEF PackageReady, Packaging

LEMMA ProcessAvailableExact ==
    ASSUME IInv, EInv, Grown, ProcessAvailable
    PROVE  EInv'
<1>1. /\ main.pc = "packaging" /\ main.op = "process" /\ Settled(main.target)
      /\ UNCHANGED << groupVars, worker >>
  BY DEF ProcessAvailable, Packaging
<1>2. /\ UNCHANGED snapshots /\ bound'[Worker] = bound[Worker]
      /\ bound'[Main] = bound[Main] /\ stage'[Main] = stage[Main]
  BY <1>1 DEF groupVars
<1>3. CASE notifier.hasRun /\ (stage[Main] = "Reading" => notifier.version = bound[Main])
  <2>1. stage[Main] = "Reading" \/ stage[Main] = "Ready"
    BY <1>1, Threads DEF EInv, StandInv, IInv, GroupInv, GroupTypeOK, Stages
  <2>2. PackageVersion # 0 => bound'[Main] = PackageVersion \/ stage'[Main] = "Ready"
    BY <1>2, <1>3, <2>1 DEF PackageVersion
  <2>3. PICK pc \in {"delivering", "calling"} : PackageNotifier /\ Carry(pc)
    BY <1>3 DEF ProcessAvailable
  <2> QED
    BY <1>1, <1>2, <2>2, <2>3, PackagedExact
<1>4. CASE ~(notifier.hasRun /\ (stage[Main] = "Reading" => notifier.version = bound[Main]))
  <2>1. Return /\ UNCHANGED << notifier, callbackVars >>
    BY <1>4 DEF ProcessAvailable
  <2> QED
    BY <1>1, <1>2, <2>1, NoPackage
<1> QED
  BY <1>3, <1>4

-----------------------------------------------------------------------------
LEMMA EInvInit == Init => EInv
<1> SUFFICES ASSUME Init PROVE EInv
  OBVIOUS
<1>1. /\ Len(callbacks) = 0 /\ callbackIndex = 0
      /\ notifier = NoNotifier /\ worker = IdleWorker /\ main = IdleMain
  BY DEF Init, ResultsInit, NoCallbacks, NPos
<1>2. /\ ~notifier.hasRun /\ notifier.changes = {} /\ notifier.previousRows = 0
      /\ worker.pc = "idle" /\ main.pc = "idle" /\ main.halfway = "no" /\ ~main.nested
  BY <1>1 DEF NoNotifier, NewNotifier, IdleWorker, IdleMain
<1>3. EachInv
  BY <1>1 DEF EachInv
<1>4. LoopInv
  BY <1>1, <1>2 DEF LoopInv, Telling
<1>5. RoundInv /\ RowsInv
  BY <1>2 DEF RoundInv, RowsInv
<1>6. StandInv
  BY <1>2 DEF StandInv, Telling
<1> QED
  BY <1>3, <1>4, <1>5, <1>6 DEF EInv

LEMMA EInvStep ==
    ASSUME IInv, EInv, [Next]_vars
    PROVE  EInv'
<1>0. Grown
  BY FileGrows
<1>1. CASE WorkerStep
  BY <1>0, <1>1, NothingToRunExact, StartRoundExact, AdvanceExact, RunNotifierExact,
     HandOverExact, NotifyRealmsExact DEF WorkerStep
<1>2. CASE ProgramStep
  BY <1>0, <1>2, ReadAgainExact, RegisterExact, UseExact, DestroyExact, AddCallbackExact,
     RemoveExact, BeginTransactionExact, BeginInCallbackExact, SuppressExact,
     InvalidateExact, RefreshExact, RefreshUnreadExact DEF ProgramStep
<1>3. CASE MainRuns
  BY <1>0, <1>3, FinishAddExact, PackageForWriteExact, PackageForRefreshExact,
     PackageReadyExact, DiscardExact, ProcessAvailableExact, DeliverExact, CallNextExact,
     ReturnExact, FinishCallingExact, ReadPastEndExact DEF MainRuns
<1>4. CASE EndTransaction \/ Notify
  BY <1>0, <1>4, CommitExact, CancelExact, NotifyExact DEF EndTransaction
<1>5. CASE OtherCommits \/ OtherNotifies \/ OtherDies
  BY <1>0, <1>5, OtherExact
<1>6. CASE UNCHANGED vars
  <2>1. UNCHANGED << notifier, callbackVars, worker, main, groupVars >>
    BY <1>6 DEF vars, resultsVars
  <2>2. StandInv'
    BY <2>1 DEF EInv, StandInv, Telling, groupVars, latest
  <2> QED
    BY <1>0, <2>1, <2>2, QuietStep DEF EInv, LoopInv, Telling, groupVars
<1> QED
  BY <1>1, <1>2, <1>3, <1>4, <1>5, <1>6 DEF Next

LEMMA ExactInvariant == Spec => [](IInv /\ EInv)
<1>1. Init => IInv /\ EInv
  BY InvInit, EInvInit
<1>2. IInv /\ EInv /\ [Next]_vars => (IInv /\ EInv)'
  BY InvStep, EInvStep
<1> QED
  BY <1>1, <1>2, PTL DEF Spec

(* However rounds, packages, write transactions and calls in callbacks     *)
(* interleave, a change the worker saw reaches a callback once, or is      *)
(* skipped or discarded for it: none is lost and none is told twice; and   *)
(* what was packaged has been told when the loop is over.  Callbacks may   *)
(* remove any callback meanwhile but one added since packaging.            *)
THEOREM ChangesToldOnce == Spec => []EveryChangeOnce
<1>1. IInv /\ EInv => EveryChangeOnce
  <2> SUFFICES ASSUME IInv, EInv, ~notifier.stale, ~miscounted, NEW i \in DOMAIN callbacks
               PROVE  /\ callbacks[i].initialDelivered => ToldExactly(callbacks[i])
                      /\ main.pc \in {"idle", "packaging"} => callbacks[i].toDeliver = {}
    BY DEF EveryChangeOnce, Called, Members
  <2>1. i \in 1 .. Len(callbacks)
    BY CallbacksDomain DEF IInv
  <2>2. DeliveryOK(callbacks[i], Waits(i), Counted(i)) /\ HistoryOK(callbacks[i], Counted(i))
    BY <2>1 DEF EInv, EachInv, CallbackInv
  <2>3. callbacks[i].initialDelivered =>
          Exactly(callbacks[i], ChangedBetween(callbacks[i].base, notifier.version))
    BY <2>2 DEF HistoryOK
  <2>4. main.pc \in {"idle", "packaging"} => callbacks[i].toDeliver = {}
    BY <2>2 DEF DeliveryOK, Waits, Telling
  <2> QED
    BY <2>3, <2>4, ExactlyTold
<1> QED
  BY ExactInvariant, <1>1, PTL

(* What a callback is shown is the snapshot its package is for, and it has *)
(* been told, or spared, all that led there, unless a callback removed one *)
(* added since packaging.                                                  *)
THEOREM CallbacksSeeTheirVersion == Spec => []CallbackSeesItsVersion
<1>1. IInv /\ EInv => CallbackSeesItsVersion
  <2> SUFFICES ASSUME IInv, EInv, main.pc = "called"
               PROVE  CallbackSeesItsVersion
    BY DEF CallbackSeesItsVersion
  <2>1. Telling
    BY DEF Telling
  <2>2. main.jumped \/ bound[Main] = main.package \/ stage[Main] = "Ready"
    BY <2>1 DEF EInv, StandInv
  <2>3. ASSUME ~notifier.stale, ~miscounted, NEW i \in 1 .. callbackIndex
        PROVE  ChangedBetween(callbacks[i].base, main.package)
                  \subseteq callbacks[i].told \cup callbacks[i].skipped \cup callbacks[i].discarded
    <3> DEFINE c == callbacks[i]
    <3>1. /\ callbackIndex \in Nat /\ callbackCount \in Nat /\ Len(callbacks) \in Nat
          /\ callbackIndex <= callbackCount /\ callbackIndex <= Len(callbacks)
          /\ main.package \in 1 .. notifier.version /\ notifier.version \in Nat
      BY <2>1, <2>3, Numbers DEF EInv, LoopInv, IInv, CallbacksInv, CallbacksTypeOK
    <3>2. i \in 1 .. Len(callbacks) /\ ~Waits(i) /\ Counted(i)
      BY <2>1, <3>1 DEF Waits, Counted
    <3>3. DeliveryOK(c, Waits(i), Counted(i)) /\ HistoryOK(c, Counted(i))
      BY <2>3, <3>2 DEF EInv, EachInv, CallbackInv
    <3>4. c.initialDelivered /\ c.toDeliver = {} /\ c.base \in Nat
      BY <2>1, <3>1, <3>2, <3>3 DEF DeliveryOK
    <3>5. \A v \in c.accumulated : v > main.package
      BY <3>2, <3>3 DEF HistoryOK
    <3>6. /\ ChangedBetween(c.base, main.package) \subseteq ChangedBetween(c.base, notifier.version)
          /\ \A v \in ChangedBetween(c.base, main.package) : v \in Nat /\ v <= main.package
      BY <3>1, <3>4 DEF ChangedBetween
    <3>7. ChangedBetween(c.base, notifier.version)
             = c.told \cup c.toDeliver \cup c.accumulated \cup c.skipped \cup c.discarded
      BY <3>3, <3>4 DEF HistoryOK, Exactly
    <3> QED
      BY <3>1, <3>4, <3>5, <3>6, <3>7
  <2> QED
    BY <2>2, <2>3 DEF CallbackSeesItsVersion
<1> QED
  BY ExactInvariant, <1>1, PTL
-----------------------------------------------------------------------------
(* What is skipped.  Nothing else is handed over with a commit that was    *)
(* not to be reported: the hand-over that clears the flag is the one of    *)
(* that commit alone, or of one before it that brings nothing.             *)

(* Where the hand-over of the round under way will be.                     *)
NextStop ==
    IF worker.pc = "advance"
    THEN IF worker.skip # 0 THEN worker.skip ELSE worker.version
    ELSE bound[Worker]

Suppressing == main.halfway = "suppressing"

StopsInTime ==
    /\ InRound => NextStop <= notifier.version + 1
    /\ ~InRound /\ ~Suppressing => skipVersion = notifier.version + 1

(* Who is told in a write transaction has been told of all there is.       *)
WriteInv ==
    /\ Suppressing => InWrite
    /\ InWrite /\ ~main.jumped =>
         \A i \in 1 .. Len(callbacks) :
             callbacks[i].initialDelivered => notifier.version = latest

(* A flag is set for a commit the notifier has not reached.                *)
FlagOK(c) ==
    /\ c.asked # {} => c.initialDelivered
    /\ c.skipNext => Suppressing \/ notifier.version < bound[Main]
    /\ ~main.jumped /\ c.skipNext /\ c.asked # {} =>
         notifier.version + 1 \in c.asked /\ StopsInTime

FlagsInv == \A i \in 1 .. Len(callbacks) : FlagOK(callbacks[i])

SkipInv == WriteInv /\ FlagsInv

(* A flag after a step: of a new callback, or as it was.                   *)
SameFlag(d, c) ==
    /\ d.skipNext = c.skipNext /\ d.asked = c.asked
    /\ c.initialDelivered => d.initialDelivered

NoFlag(d) == ~d.skipNext /\ d.asked = {}

(* The steps of the two writers.                                           *)
LEMMA FlagsKept ==
    ASSUME IInv, SkipInv, UNCHANGED << worker, skipVersion >>,
           notifier'.version = notifier.version,
           bound'[Worker] = bound[Worker], bound[Main] <= bound'[Main], IInv',
           Suppressing' <=> Suppressing,
           main.jumped => main'.jumped \/ (bound[Main] <= notifier.version /\ ~Suppressing),
           \A j \in 1 .. Len(callbacks') :
              \/ NoFlag(callbacks'[j])
              \/ \E i \in 1 .. Len(callbacks) : SameFlag(callbacks'[j], callbacks[i])
    PROVE  FlagsInv'
<1> SUFFICES ASSUME NEW j \in 1 .. Len(callbacks')
             PROVE  FlagOK(callbacks[j])'
  BY DEF FlagsInv
<1>1. CASE NoFlag(callbacks'[j])
  BY <1>1 DEF NoFlag, FlagOK
<1>2. ASSUME NEW i \in 1 .. Len(callbacks), SameFlag(callbacks'[j], callbacks[i])
      PROVE  FlagOK(callbacks[j])'
  <2>1. FlagOK(callbacks[i])
    BY DEF SkipInv, FlagsInv
  <2>2. /\ notifier.version \in Nat /\ bound[Main] \in Nat /\ bound'[Main] \in Nat
    <3>1. bound[Main] \in Nat /\ notifier.version \in Nat
      BY Numbers, Threads
    <3>2. bound'[Main] \in Nat
      BY Threads, GroupAssumption DEF IInv, GroupInv, GroupTypeOK, Versions
    <3> QED
      BY <3>1, <3>2
  <2>3. callbacks'[j].skipNext =>
          Suppressing' \/ notifier'.version < bound'[Main]
    BY <1>2, <2>1, <2>2 DEF FlagOK, SameFlag
  <2>4. callbacks'[j].skipNext /\ ~main'.jumped => ~main.jumped
    BY <1>2, <2>1, <2>2 DEF FlagOK, SameFlag
  <2>5. StopsInTime => StopsInTime'
    BY DEF StopsInTime, NextStop, InRound
  <2> QED
    BY <1>2, <2>1, <2>3, <2>4, <2>5 DEF FlagOK, SameFlag
<1> QED
  BY <1>1, <1>2

LEMMA WriteKept ==
    ASSUME SkipInv, notifier'.version = notifier.version,
           Suppressing' => Suppressing /\ InWrite',
           InWrite' => InWrite /\ latest' = latest,
           main.jumped => main'.jumped,
           \A j \in 1 .. Len(callbacks') :
              \/ ~callbacks'[j].initialDelivered
              \/ \E i \in 1 .. Len(callbacks) : callbacks[i].initialDelivered
    PROVE  WriteInv'
  BY DEF SkipInv, WriteInv

LEMMA NoFlags ==
    ASSUME Len(callbacks') = 0, Suppressing' => InWrite'
    PROVE  SkipInv'
  BY DEF SkipInv, WriteInv, FlagsInv

(* The steps that leave callbacks, worker and the write lock alone.        *)
LEMMA QuietFlags ==
    ASSUME IInv, SkipInv, IInv', Moved(Main),
           UNCHANGED << worker, skipVersion, callbacks, snapshots >>,
           notifier'.version = notifier.version,
           Suppressing' <=> Suppressing, main.jumped => main'.jumped,
           InWrite' => InWrite, Suppressing => InWrite'
    PROVE  SkipInv'
<1>1. bound'[Worker] = bound[Worker] /\ bound[Main] <= bound'[Main]
  BY Threads DEF Moved
<1>2. FlagsInv'
  BY <1>1, FlagsKept DEF SameFlag
<1>3. WriteInv'
  BY WriteKept DEF latest
<1> QED
  BY <1>2, <1>3 DEF SkipInv

LEMMA CallFlags ==
    ASSUME IInv, EInv, SkipInv, IInv', Moved(Main), UNCHANGED snapshots,
           \/ ReadAgain \/ UseResults \/ Invalidate \/ CancelTransaction
           \/ ReturnFromCallback \/ DeliverView \/ FinishAddCallback \/ ReadPastEnd
    PROVE  SkipInv'
<1>1. CASE ReadAgain
  <2> DEFINE jumped == main.jumped \/ HasChanged(Main) \/ InCallback
  <2>1. main' = [main EXCEPT !.jumped = jumped] /\ (main.jumped => jumped)
    BY <1>1 DEF ReadAgain
  <2> HIDE DEF jumped
  <2>2. main'.halfway = main.halfway /\ main'.jumped = jumped
    BY <2>1, MainFields DEF MainThread
  <2>3. ~InWrite' /\ ~Suppressing
    BY <1>1, Threads DEF ReadAgain, BeginRead, InWrite, Free, InCallback, Suppressing,
       IInv, GroupInv, GroupTypeOK
  <2> QED
    BY <1>1, <2>1, <2>2, <2>3, QuietFlags DEF ReadAgain, resultsVars, callbackVars, Suppressing
<1>2. CASE UseResults
  BY <1>2, QuietFlags
     DEF UseResults, groupVars, callbackVars, Suppressing, InWrite, SkipInv, WriteInv
<1>3. CASE Invalidate
  <2>1. ~InWrite' /\ ~Suppressing
    BY <1>3, Threads DEF Invalidate, EndRead, InWrite, Free, Suppressing,
       IInv, GroupInv, GroupTypeOK
  <2> QED
    BY <1>3, <2>1, QuietFlags DEF Invalidate, resultsVars, callbackVars, Suppressing
<1>4. CASE CancelTransaction
  <2>1. ~InWrite' /\ ~Suppressing
    BY <1>4, Threads DEF CancelTransaction, RollbackAndContinueAsRead, InWrite, Suppressing,
       IInv, GroupInv, GroupTypeOK
  <2>2. main'.halfway = main.halfway /\ main'.jumped = main.jumped
    BY <1>4, MainFields DEF MainThread, CancelTransaction
  <2> QED
    BY <1>4, <2>1, <2>2, QuietFlags
       DEF CancelTransaction, resultsVars, callbackVars, Suppressing
<1>5. CASE ReturnFromCallback
  <2>1. main'.halfway = main.halfway /\ main'.jumped = main.jumped
    BY <1>5, MainFields DEF MainThread, ReturnFromCallback
  <2> QED
    BY <1>5, <2>1, QuietFlags
       DEF ReturnFromCallback, resultsVars, callbackVars, groupVars, Suppressing, InWrite,
           SkipInv, WriteInv
<1>6. CASE DeliverView
  <2>1. main'.halfway = main.halfway /\ main'.jumped = main.jumped
    BY <1>6, MainFields DEF MainThread, DeliverView
  <2>2. notifier'.version = notifier.version
    BY <1>6 DEF DeliverView, Deliver, IInv, NotifierOK, Notifier
  <2> QED
    BY <1>6, <2>1, <2>2, QuietFlags
       DEF DeliverView, callbackVars, groupVars, Suppressing, InWrite, SkipInv, WriteInv
<1>7. CASE FinishAddCallback
  <2>1. main'.halfway = "no" /\ main'.jumped = main.jumped /\ main.halfway = "adding"
    BY <1>7, MainFields DEF MainThread, FinishAddCallback
  <2> QED
    BY <1>7, <2>1, QuietFlags
       DEF FinishAddCallback, NoteCallbacks, groupVars, Suppressing, InWrite, SkipInv, WriteInv
<1>8. CASE ReadPastEnd
  <2>1. main'.halfway = main.halfway /\ main'.jumped = main.jumped
    BY <1>8, MainFields DEF MainThread, ReadPastEnd
  <2> QED
    BY <1>8, <2>1, QuietFlags
       DEF ReadPastEnd, resultsVars, callbackVars, groupVars, Suppressing, InWrite,
           SkipInv, WriteInv
<1> QED
  BY <1>1, <1>2, <1>3, <1>4, <1>5, <1>6, <1>7, <1>8

LEMMA StartPackagingKeeps ==
    ASSUME IInv, NEW op, NEW target, StartPackaging(op, target)
    PROVE  main'.halfway = main.halfway /\ main'.jumped = main.jumped
  BY MainFields DEF MainThread, StartPackaging

LEMMA RefreshFlags ==
    ASSUME IInv, EInv, SkipInv, IInv', Moved(Main), UNCHANGED snapshots,
           Refresh \/ RefreshUnread \/ Notify
    PROVE  SkipInv'
<1>1. /\ UNCHANGED << worker, skipVersion, callbacks, notifier >>
      /\ main.halfway = "no"
  BY DEF Refresh, RefreshUnread, Notify, resultsVars, callbackVars, Free
<1>2. ~InWrite'
  BY Threads DEF Refresh, RefreshUnread, Notify, InWrite, BeginRead, AdvanceRead, groupVars,
     IInv, GroupInv, GroupTypeOK
<1>3. main'.halfway = "no" /\ (main.jumped => main'.jumped)
  <2>1. CASE Refresh \/ Notify
    <3>1. UNCHANGED main \/ \E op, target : StartPackaging(op, target)
      BY <2>1 DEF Refresh, Notify
    <3> QED
      BY <1>1, <3>1, StartPackagingKeeps
  <2>2. CASE RefreshUnread
    <3> DEFINE jumped == main.jumped \/ HasChanged(Main)
    <3>1. \/ main' = [main EXCEPT !.pc = "packaging", !.op = "process", !.target = 0,
                                  !.jumped = jumped]
          \/ main' = [main EXCEPT !.jumped = jumped]
      BY <2>2 DEF RefreshUnread
    <3>2. main.jumped => jumped
      OBVIOUS
    <3> HIDE DEF jumped
    <3> QED
      BY <1>1, <3>1, <3>2, MainFields DEF MainThread
  <2> QED
    BY <2>1, <2>2
<1> QED
  BY <1>1, <1>2, <1>3, QuietFlags DEF Suppressing

LEMMA BeginTransactionFlags ==
    ASSUME IInv, EInv, SkipInv, IInv', Moved(Main), UNCHANGED snapshots, BeginTransaction
    PROVE  SkipInv'
<1> USE DEF BeginTransaction
<1>1. /\ UNCHANGED << worker, skipVersion, callbacks, notifier >>
      /\ main.halfway = "no"
  BY DEF resultsVars, callbackVars, Free
<1>2. CASE Registered
  <2>1. main'.halfway = "no" /\ main'.jumped = main.jumped
    BY <1>1, <1>2, StartPackagingKeeps
  <2>2. InWrite' <=> InWrite
    BY <1>2 DEF LockForWrite, InWrite
  <2> QED
    BY <1>1, <2>1, <2>2, QuietFlags DEF Suppressing
<1>3. CASE ~Registered
  <2>1. Len(callbacks') = 0
    BY <1>1, <1>3 DEF Registered, IInv, NotifierInv, EInv, LoopInv
  <2> QED
    BY <1>1, <1>3, <2>1, NoFlags DEF Suppressing
<1> QED
  BY <1>2, <1>3

(* A Realm that has not been moved since it stands where its callbacks do. *)
LEMMA TellingLatest ==
    ASSUME IInv, EInv, Telling, ~main.jumped, stage[Main] # "Ready", bound[Main] = latest
    PROVE  notifier.version = latest
<1>1. bound[Main] = main.package /\ main.package \in 1 .. notifier.version
  BY DEF EInv, StandInv, LoopInv
<1>2. notifier.version \in Nat /\ notifier.version <= latest /\ latest \in Nat
  BY Numbers DEF IInv, NotifierInv
<1> QED
  BY <1>1, <1>2

LEMMA BeginInCallbackFlags ==
    ASSUME IInv, EInv, SkipInv, IInv', Moved(Main), UNCHANGED snapshots, BeginInCallback
    PROVE  SkipInv'
<1> USE DEF BeginInCallback
<1> DEFINE jumped == main.jumped \/ HasChanged(Main)
<1>1. /\ UNCHANGED << worker, skipVersion, callbacks, notifier >>
      /\ main.halfway = "no" /\ main.pc = "called"
      /\ main' = [main EXCEPT !.nested = TRUE, !.jumped = jumped]
  BY DEF resultsVars, callbackVars, InCallback
<1>2. ~jumped => notifier.version = latest
  BY <1>1, TellingLatest DEF Telling, PromoteToWrite, HasChanged
<1>3. main.jumped => jumped
  OBVIOUS
<1> HIDE DEF jumped
<1>4. main'.halfway = "no" /\ main'.jumped = jumped
  BY <1>1, MainFields DEF MainThread
<1>5. bound'[Worker] = bound[Worker] /\ bound[Main] <= bound'[Main]
  BY Threads DEF Moved
<1>6. FlagsInv'
  BY <1>1, <1>3, <1>4, <1>5, FlagsKept DEF SameFlag, Suppressing
<1>7. WriteInv'
  BY <1>1, <1>2, <1>4 DEF WriteInv, Suppressing, latest
<1> QED
  BY <1>6, <1>7 DEF SkipInv

(* The results and their callbacks.                                        *)
LEMMA ResultsFlags ==
    ASSUME IInv, EInv, SkipInv, IInv', Moved(Main), UNCHANGED snapshots,
           RegisterNotifier \/ DestroyResults
    PROVE  SkipInv'
<1>1. Len(callbacks') = 0
  BY DEF RegisterNotifier, PrepareAsync, DestroyResults, StartCallbacks
<1>2. main'.halfway = "no"
  BY DEF RegisterNotifier, DestroyResults, Free, InCallback
<1> QED
  BY <1>1, <1>2, NoFlags DEF Suppressing

LEMMA CallbacksFlags ==
    ASSUME IInv, SkipInv, IInv', Moved(Main), UNCHANGED << groupVars, worker, skipVersion >>,
           notifier'.version = notifier.version, main.halfway = "no", ~Suppressing',
           main'.jumped = main.jumped,
           \A j \in 1 .. Len(callbacks') :
              \/ NoFlag(callbacks'[j]) /\ ~callbacks'[j].initialDelivered
              \/ \E i \in 1 .. Len(callbacks) :
                    /\ SameFlag(callbacks'[j], callbacks[i])
                    /\ callbacks'[j].initialDelivered = callbacks[i].initialDelivered
    PROVE  SkipInv'
<1>1. bound'[Worker] = bound[Worker] /\ bound[Main] <= bound'[Main]
  BY Threads DEF Moved
<1>2. FlagsInv'
  <2>1. \A j \in 1 .. Len(callbacks') :
           \/ NoFlag(callbacks'[j])
           \/ \E i \in 1 .. Len(callbacks) : SameFlag(callbacks'[j], callbacks[i])
    OBVIOUS
  <2> QED
    BY <1>1, <2>1, FlagsKept DEF Suppressing
<1>3. WriteInv'
  <2>1. \A j \in 1 .. Len(callbacks') :
           \/ ~callbacks'[j].initialDelivered
           \/ \E i \in 1 .. Len(callbacks) : callbacks[i].initialDelivered
    OBVIOUS
  <2> QED
    BY <2>1, WriteKept DEF groupVars, InWrite, latest
<1> QED
  BY <1>2, <1>3 DEF SkipInv

LEMMA AddCallbackFlags ==
    ASSUME IInv, EInv, SkipInv, IInv', Moved(Main), AddCallback
    PROVE  SkipInv'
<1>1. /\ main.halfway = "no" /\ main'.jumped = main.jumped /\ ~Suppressing'
  BY MainFields DEF AddCallback, Free, InCallback, MainThread, Suppressing
<1>2. /\ Len(callbacks) \in Nat /\ Len(callbacks') = Len(callbacks) + 1
      /\ \A i \in 1 .. Len(callbacks) : callbacks'[i] = callbacks[i]
      /\ callbacks'[Len(callbacks) + 1] = NewCallback(callbackIndex = NPos)
  BY PushType, AppendExtends
     DEF AddCallback, PushCallback, IInv, CallbacksInv, CallbacksTypeOK
<1>3. ASSUME NEW j \in 1 .. Len(callbacks')
      PROVE  \/ NoFlag(callbacks'[j]) /\ ~callbacks'[j].initialDelivered
             \/ \E i \in 1 .. Len(callbacks) :
                   /\ SameFlag(callbacks'[j], callbacks[i])
                   /\ callbacks'[j].initialDelivered = callbacks[i].initialDelivered
  <2>1. CASE j \in 1 .. Len(callbacks)
    BY <1>2, <2>1 DEF SameFlag
  <2>2. CASE j = Len(callbacks) + 1
    BY <1>2, <2>2 DEF NewCallback, NoFlag
  <2> QED
    BY <1>2, <2>1, <2>2
<1>4. notifier' = notifier /\ UNCHANGED << groupVars, worker, skipVersion >>
  BY DEF AddCallback
<1> QED
  BY <1>1, <1>3, <1>4, CallbacksFlags

LEMMA RemoveFlags ==
    ASSUME IInv, EInv, SkipInv, IInv', Moved(Main), NEW token \in Tokens, RemoveCallbackOf(token)
    PROVE  SkipInv'
<1> DEFINE gone == IndexOf(token)
<1>1. main.halfway = "no" /\ main'.jumped = main.jumped /\ ~Suppressing'
  BY DEF RemoveCallbackOf, Free, InCallback, Suppressing
<1>2. /\ gone \in 1 .. Len(callbacks) /\ Len(callbacks) \in Nat
      /\ Len(callbacks') = Len(callbacks) - 1
  <2>1. InCallback \in BOOLEAN
    BY DEF InCallback
  <2> QED
    BY <2>1, IndexIn, RemoveType
       DEF RemoveCallbackOf, RemoveCallback, IInv, CallbacksInv, CallbacksTypeOK
<1>3. \A j \in 1 .. Len(callbacks') :
         callbacks'[j] = IF j < gone THEN callbacks[j] ELSE callbacks[j + 1]
  BY <1>2, RemoveAtElements
     DEF RemoveCallbackOf, RemoveCallback, IInv, CallbacksInv, CallbacksTypeOK
<1> HIDE DEF gone
<1>4. ASSUME NEW j \in 1 .. Len(callbacks')
      PROVE  \E i \in 1 .. Len(callbacks) :
                /\ SameFlag(callbacks'[j], callbacks[i])
                /\ callbacks'[j].initialDelivered = callbacks[i].initialDelivered
  <2> DEFINE i == IF j < gone THEN j ELSE j + 1
  <2>1. i \in 1 .. Len(callbacks) /\ callbacks'[j] = callbacks[i]
    BY <1>2, <1>3
  <2> HIDE DEF i
  <2> QED
    BY <2>1 DEF SameFlag
<1>5. notifier' = notifier /\ UNCHANGED << groupVars, worker, skipVersion >>
  BY DEF RemoveCallbackOf
<1> QED
  BY <1>1, <1>4, <1>5, CallbacksFlags

(* Nobody else commits while the main thread has the write lock.           *)
LEMMA OtherFlags ==
    ASSUME IInv, EInv, SkipInv, IInv', Moved(Other),
           OtherCommits \/ OtherNotifies \/ OtherDies
    PROVE  SkipInv'
<1>1. UNCHANGED << callbacks, notifier, main, worker, skipVersion >>
  BY DEF OtherCommits, OtherNotifies, OtherDies, resultsVars, callbackVars
<1>2. bound'[Worker] = bound[Worker] /\ bound'[Main] = bound[Main] /\ stage'[Main] = stage[Main]
      /\ bound[Main] <= bound'[Main]
  BY Threads DEF Moved
<1>3. FlagsInv'
  BY <1>1, <1>2, FlagsKept DEF SameFlag, Suppressing
<1>4. InWrite => latest' = latest
  <2>1. InWrite => writer # NoOne
    BY Threads, GroupAssumption DEF InWrite, IInv, GroupInv, OneWriter
  <2> QED
    BY <2>1 DEF OtherCommits, OtherNotifies, OtherDies, WriteAtOnce, groupVars, latest
<1>5. WriteInv'
  BY <1>1, <1>2, <1>4, WriteKept DEF SkipInv, WriteInv, InWrite, Suppressing
<1> QED
  BY <1>3, <1>5 DEF SkipInv

(* Who asks has been told of all before the commit asked about.            *)
LEMMA SuppressFlags ==
    ASSUME IInv, EInv, SkipInv, IInv', NEW token \in Tokens, SuppressNext(token)
    PROVE  SkipInv'
<1> USE DEF SuppressNext, SuppressNextNotification
<1> DEFINE i == IndexOf(token)
           asked == IF callbacks[i].initialDelivered THEN callbacks[i].asked \cup {latest + 1}
                                                     ELSE callbacks[i].asked
<1>1. /\ main'.jumped = main.jumped /\ main'.halfway = "suppressing"
      /\ InWrite /\ InWrite' /\ UNCHANGED << notifier, worker, bound, snapshots >>
  BY MainFields DEF MainThread, InWrite, groupVars
<1>2. i \in DOMAIN callbacks /\ DOMAIN callbacks = 1 .. Len(callbacks)
      /\ \A j \in DOMAIN callbacks : callbacks[j] \in Callback
  BY IndexIn, CallbackFields DEF IInv, CallbacksInv, CallbacksTypeOK
<1>3. Len(callbacks') = Len(callbacks)
  <2>1. latest + 1 \in Versions
    BY Numbers, GroupAssumption DEF Versions
  <2> QED
    BY <2>1, SuppressType DEF IInv
<1>4. \A j \in 1 .. Len(callbacks) :
         /\ callbacks'[j].initialDelivered = callbacks[j].initialDelivered
         /\ \/ j = i /\ callbacks'[j].asked = asked
            \/ /\ callbacks'[j].asked = callbacks[j].asked
               /\ callbacks'[j].skipNext = callbacks[j].skipNext
  <2>1. callbacks' = [callbacks EXCEPT ![i] =
                        [callbacks[i] EXCEPT !.skipNext = TRUE, !.asked = asked]]
    BY <1>2
  <2> HIDE DEF i, asked
  <2>2. /\ callbacks'[i].initialDelivered = callbacks[i].initialDelivered
        /\ callbacks'[i].asked = asked
    BY <1>2, <2>1 DEF Callback
  <2>3. ASSUME NEW j \in 1 .. Len(callbacks), j # i
        PROVE  callbacks'[j] = callbacks[j]
    BY <1>2, <2>1, <2>3
  <2> QED
    BY <2>2, <2>3
<1>5. ASSUME NEW j \in 1 .. Len(callbacks), callbacks[j].initialDelivered, ~main.jumped
      PROVE  notifier.version = latest /\ StopsInTime'
  <2>1. notifier.version = latest
    BY <1>1, <1>5 DEF SkipInv, WriteInv
  <2>2. InRound => NextStop <= latest
    BY Numbers, Threads DEF NextStop, IInv, WorkerInv
  <2>3. (InRound' <=> InRound) /\ NextStop' = NextStop /\ Suppressing'
    BY <1>1 DEF Suppressing, NextStop, InRound
  <2> HIDE DEF i, asked
  <2>4. InRound => NextStop <= latest + 1
    <3>1. InRound => NextStop \in Nat
      BY Numbers, Threads DEF NextStop
    <3> QED
      BY <2>2, <3>1, Numbers
  <2> QED
    BY <1>1, <2>1, <2>3, <2>4 DEF StopsInTime
<1>6. FlagsInv'
  <2> SUFFICES ASSUME NEW j \in 1 .. Len(callbacks)
               PROVE  FlagOK(callbacks[j])'
    BY <1>3 DEF FlagsInv
  <2>1. FlagOK(callbacks[j])
    BY DEF SkipInv, FlagsInv
  <2>2. callbacks'[j].asked # {} => callbacks'[j].initialDelivered
    BY <1>2, <1>4, <2>1 DEF FlagOK
  <2>3. ~main.jumped /\ callbacks'[j].skipNext /\ callbacks'[j].asked # {} =>
          notifier.version + 1 \in callbacks'[j].asked /\ StopsInTime'
    <3> SUFFICES ASSUME ~main.jumped, callbacks'[j].skipNext, callbacks'[j].asked # {}
                 PROVE  notifier.version + 1 \in callbacks'[j].asked /\ StopsInTime'
      OBVIOUS
    <3>1. callbacks[j].initialDelivered
      BY <1>4, <2>2
    <3>2. notifier.version = latest /\ StopsInTime'
      BY <1>5, <3>1
    <3>3. CASE j = i
      BY <1>4, <2>1, <3>1, <3>2, <3>3 DEF FlagOK
    <3>4. CASE j # i
      BY <1>4, <2>1, <3>2, <3>4 DEF FlagOK
    <3> QED
      BY <3>3, <3>4
  <2> QED
    BY <1>1, <2>2, <2>3 DEF FlagOK, Suppressing
<1>7. WriteInv'
  BY <1>1, <1>3, <1>4 DEF SkipInv, WriteInv, latest
<1> QED
  BY <1>6, <1>7 DEF SkipInv

(* The worker stops at the commit.                                         *)
LEMMA CommitFlags ==
    ASSUME IInv, EInv, SkipInv, IInv', Moved(Main), CommitTransaction
    PROVE  SkipInv'
<1> USE DEF CommitTransaction
<1> DEFINE jumped == main.jumped \/ main.nested
<1>1. /\ UNCHANGED << worker, callbacks, notifier >>
      /\ main' = [main EXCEPT !.halfway = "no", !.nested = FALSE, !.jumped = jumped]
  BY DEF resultsVars, callbackVars
<1>2. main.jumped => jumped
  OBVIOUS
<1> HIDE DEF jumped
<1>3. main'.halfway = "no" /\ main'.jumped = jumped
  BY <1>1, MainFields DEF MainThread
<1>4. /\ latest' = latest + 1 /\ InWrite /\ ~InWrite'
      /\ bound'[Main] = latest + 1 /\ bound'[Worker] = bound[Worker]
  <2>1. PICK touches \in BOOLEAN : CommitAndContinueAsRead(Main, touches)
    OBVIOUS
  <2>2. latest' = latest + 1
    BY <2>1, CommitMove, Threads DEF IInv
  <2> QED
    BY <2>1, <2>2, Threads DEF CommitAndContinueAsRead, InWrite, IInv, GroupInv, GroupTypeOK
<1>5. notifier.version <= latest /\ notifier.version \in Nat /\ latest \in Nat
  BY Numbers DEF IInv, NotifierInv
<1>6. FlagsInv'
  <2> SUFFICES ASSUME NEW j \in 1 .. Len(callbacks)
               PROVE  FlagOK(callbacks[j])'
    BY <1>1 DEF FlagsInv
  <2>1. FlagOK(callbacks[j])
    BY DEF SkipInv, FlagsInv
  <2>2. ASSUME ~main.jumped, callbacks[j].skipNext, callbacks[j].asked # {}
        PROVE  StopsInTime'
    <3>1. callbacks[j].initialDelivered /\ StopsInTime
      BY <2>1, <2>2 DEF FlagOK
    <3>2. notifier.version = latest
      BY <1>4, <2>2, <3>1 DEF SkipInv, WriteInv
    <3>3. notifier.alive /\ notifier.place = "main"
      <4>1. CallbackInv(callbacks[j], Waits(j), Counted(j))
        BY DEF EInv, EachInv
      <4>2. notifier.hasRun
        BY <3>1, <4>1 DEF CallbackInv, DeliveryOK
      <4> QED
        BY <4>2 DEF EInv, RoundInv, LoopInv
    <3>4. skipVersion' = notifier.version + 1
      BY <1>4, <3>2, <3>3
    <3> QED
      BY <1>1, <1>4, <3>1, <3>4 DEF StopsInTime, NextStop, InRound
  <2> QED
    BY <1>1, <1>2, <1>3, <1>4, <1>5, <2>1, <2>2 DEF FlagOK
<1>7. WriteInv'
  BY <1>3, <1>4 DEF WriteInv, Suppressing
<1> QED
  BY <1>6, <1>7 DEF SkipInv

(* A package: a Realm that had moved past its callbacks has not any more,  *)
(* when the package has come up with it, and then no flag is set.          *)
LEMMA PackagedFlags ==
    ASSUME IInv, EInv, SkipInv, IInv', Moved(Main), main.pc = "packaging",
           UNCHANGED << snapshots, worker, skipVersion >>,
           PackageNotifier \/ UNCHANGED << notifier, callbackVars >>,
           Return \/ \E pc \in {"delivering", "calling"} : Carry(pc),
           InWrite' => Len(callbacks) = 0 \/ notifier.version = latest
    PROVE  SkipInv'
<1>1. main.halfway = "no"
  BY DEF EInv, LoopInv, IInv, ThreadsOK, MainThread
<1>2. main'.halfway = "no" /\ (main.jumped => main'.jumped \/ bound[Main] <= notifier.version)
  <2>1. CASE Return
    BY <2>1 DEF Return, IdleMain
  <2>2. ASSUME NEW pc \in {"delivering", "calling"}, Carry(pc)
        PROVE  main'.halfway = "no" /\ (main.jumped => main'.jumped \/ bound[Main] <= notifier.version)
    <3> DEFINE jumped == main.jumped /\ PackageVersion < bound[Main]
    <3>1. CASE PackageVersion = 0
      BY <2>2, <3>1 DEF Carry, Return, IdleMain
    <3>2. CASE PackageVersion # 0
      <4>1. main' = [IdleMain EXCEPT !.package = PackageVersion, !.pc = pc, !.jumped = jumped]
        BY <2>2, <3>2 DEF Carry
      <4>2. jumped \/ (main.jumped => bound[Main] <= notifier.version)
        BY <3>2, Numbers, Threads DEF PackageVersion
      <4> HIDE DEF jumped
      <4> QED
        BY <4>1, <4>2 DEF IdleMain
    <3> QED
      BY <3>1, <3>2
  <2> QED
    BY <2>1, <2>2
<1>3. notifier'.version = notifier.version
  BY PackagedFields DEF PackageNotifier
<1>4. /\ Len(callbacks') = Len(callbacks)
      /\ \A i \in 1 .. Len(callbacks) : SameFlag(callbacks'[i], callbacks[i])
  <2>1. CASE UNCHANGED callbackVars
    BY <2>1 DEF callbackVars, SameFlag
  <2>2. CASE PackageCallbacks
    <3>1. Len(callbacks') = Len(callbacks)
      BY <2>2, PackageType DEF IInv
    <3> QED
      BY <2>2, <3>1, CallbacksDomain, CallbackFields
         DEF PackageCallbacks, SameFlag, Callback, IInv
  <2> QED
    BY <2>1, <2>2 DEF PackageNotifier
<1>5. bound'[Worker] = bound[Worker] /\ bound[Main] <= bound'[Main]
  BY Threads DEF Moved
<1>6. FlagsInv'
  BY <1>1, <1>2, <1>3, <1>4, <1>5, FlagsKept DEF Suppressing
<1>7. WriteInv'
  BY <1>2, <1>3, <1>4 DEF WriteInv, Suppressing, latest
<1> QED
  BY <1>6, <1>7 DEF SkipInv

LEMMA PackageFlags ==
    ASSUME IInv, EInv, SkipInv, IInv', Moved(Main), UNCHANGED snapshots,
           PackageForWrite \/ PackageForRefresh \/ PackageReady \/ ProcessAvailable
    PROVE  SkipInv'
<1>1. /\ main.pc = "packaging" /\ UNCHANGED << worker, skipVersion >>
      /\ PackageNotifier \/ UNCHANGED << notifier, callbackVars >>
      /\ Return \/ \E pc \in {"delivering", "calling"} : Carry(pc)
  BY DEF PackageForWrite, PackageForRefresh, PackageReady, ProcessAvailable, Packaging
<1>2. InWrite' => Len(callbacks) = 0 \/ notifier.version = latest
  <2>1. CASE PackageForWrite
    <3>1. main.target = latest /\ Settled(main.target) /\ main.halfway # "adding"
      BY <1>1, <2>1 DEF PackageForWrite, Packaging, EInv, StandInv, LoopInv
    <3>2. notifier.version <= latest /\ notifier.version \in Nat /\ latest \in Nat /\ latest # 0
      BY Numbers DEF IInv, NotifierInv
    <3> QED
      BY <3>1, <3>2 DEF Settled, EInv, LoopInv
  <2>2. CASE PackageForRefresh \/ PackageReady \/ ProcessAvailable
    BY <2>2 DEF PackageForRefresh, PackageReady, ProcessAvailable, Packaging, EInv, StandInv,
       AdvanceRead, groupVars, InWrite
  <2> QED
    BY <2>1, <2>2
<1> QED
  BY <1>1, <1>2, PackagedFlags

LEMMA DiscardFlags ==
    ASSUME IInv, EInv, SkipInv, IInv', Moved(Main), DiscardPackage
    PROVE  SkipInv'
<1> USE DEF DiscardPackage, Packaging
<1>1. main.halfway = "no" /\ main'.halfway = "no" /\ main'.jumped = main.jumped
  BY DEF EInv, LoopInv, IInv, ThreadsOK, MainThread, Return, IdleMain
<1>2. notifier'.version = notifier.version
  BY PackagedFields
<1>3. Len(callbacks') = Len(callbacks)
  BY PackageType DEF IInv
<1>4. \A i \in 1 .. Len(callbacks) :
         /\ SameFlag(callbacks'[i], callbacks[i])
         /\ callbacks'[i].initialDelivered = callbacks[i].initialDelivered
  BY <1>3, CallbacksDomain, CallbackFields DEF PackageAndDiscard, SameFlag, Callback, IInv
<1> QED
  BY <1>1, <1>2, <1>3, <1>4, CallbacksFlags DEF Suppressing

(* The loop over the callbacks: in a write transaction too, the package    *)
(* is for all there is.                                                    *)
LEMMA CallNextFlags ==
    ASSUME IInv, EInv, SkipInv, IInv', Moved(Main), CallNext
    PROVE  SkipInv'
<1> USE DEF CallNext
<1> DEFINE i == FirstOf(Due)
<1>1. /\ main.pc = "calling" /\ main.halfway = "no"
      /\ main'.halfway = "no" /\ main'.jumped = main.jumped
  BY MainFields DEF MainThread, EInv, LoopInv
<1>2. /\ i \in 1 .. Len(callbacks) /\ DOMAIN callbacks = 1 .. Len(callbacks)
      /\ \A j \in 1 .. Len(callbacks) : callbacks[j] \in Callback
  <2>1. i \in Due
    BY FirstIsDue DEF CallCallback, IInv, CallbacksInv
  <2>2. Due \subseteq 1 .. Len(callbacks)
    BY DEF Due, IInv, CallbacksInv, CallbacksTypeOK
  <2> QED
    BY <2>1, <2>2, CallbacksDomain, CallbackFields DEF IInv
<1> DEFINE c1 == [callbacks[i] EXCEPT !.toDeliver = {},
                                      !.told = @ \cup callbacks[i].toDeliver]
           c2 == [callbacks[i] EXCEPT !.toDeliver = {}, !.initialDelivered = TRUE,
                                      !.base = main.package, !.discarded = {},
                                      !.skipped = {v \in @ : v > main.package}]
<1>3. callbacks' = [callbacks EXCEPT ![i] = IF callbacks[i].initialDelivered THEN c1 ELSE c2]
  BY DEF CallCallback
<1>4. SameFlag(c1, callbacks[i]) /\ SameFlag(c2, callbacks[i])
  BY <1>2 DEF SameFlag, Callback
<1> HIDE DEF i, c1, c2
<1>5. /\ Len(callbacks') = Len(callbacks)
      /\ \A j \in 1 .. Len(callbacks) : SameFlag(callbacks'[j], callbacks[j])
  <2>1. Len(callbacks') = Len(callbacks)
    BY CallType, Numbers DEF IInv
  <2>2. ASSUME NEW j \in 1 .. Len(callbacks), j # i
        PROVE  callbacks'[j] = callbacks[j]
    BY <1>2, <1>3, <2>2
  <2>3. callbacks'[i] = c1 \/ callbacks'[i] = c2
    BY <1>2, <1>3
  <2> QED
    BY <1>4, <2>1, <2>2, <2>3 DEF SameFlag
<1>6. UNCHANGED << notifier, worker, skipVersion, snapshots, bound, stage >>
  BY DEF groupVars
<1>7. bound[Main] <= bound'[Main]
  BY Threads DEF Moved
<1>8. FlagsInv'
  BY <1>1, <1>5, <1>6, <1>7, FlagsKept DEF Suppressing
<1>9. WriteInv'
  <2>1. InWrite /\ ~main.jumped => notifier.version = latest
    BY <1>1, TellingLatest, Threads DEF Telling, InWrite, IInv, GroupInv, OneWriter
  <2> QED
    BY <1>1, <1>6, <2>1 DEF WriteInv, InWrite, Suppressing, latest
<1> QED
  BY <1>8, <1>9 DEF SkipInv

LEMMA FinishCallingFlags ==
    ASSUME IInv, EInv, SkipInv, IInv', Moved(Main), UNCHANGED snapshots, FinishCalling
    PROVE  SkipInv'
<1> USE DEF FinishCalling
<1>1. main.halfway = "no" /\ main'.halfway = "no" /\ main'.jumped = main.jumped
  BY DEF EInv, LoopInv, IInv, ThreadsOK, MainThread, Return, IdleMain
<1> QED
  BY <1>1, QuietFlags DEF StopCalling, groupVars, InWrite, Suppressing

-----------------------------------------------------------------------------
(* The worker, up to the hand-over.                                        *)
LEMMA WorkerFlags ==
    ASSUME IInv, SkipInv, IInv', Moved(Worker),
           UNCHANGED << callbacks, main, snapshots >>,
           notifier'.version = notifier.version,
           ASSUME ~main.jumped, StopsInTime,
                  Suppressing => notifier.version = latest
           PROVE  StopsInTime'
    PROVE  SkipInv'
<1>1. bound'[Main] = bound[Main] /\ stage'[Main] = stage[Main]
  BY Threads DEF Moved
<1>2. WriteInv'
  BY <1>1 DEF SkipInv, WriteInv, InWrite, Suppressing, latest
<1>3. FlagsInv'
  <2> SUFFICES ASSUME NEW j \in 1 .. Len(callbacks)
               PROVE  FlagOK(callbacks[j])'
    BY DEF FlagsInv
  <2>1. FlagOK(callbacks[j])
    BY DEF SkipInv, FlagsInv
  <2>2. ASSUME ~main.jumped, callbacks[j].skipNext, callbacks[j].asked # {}
        PROVE  StopsInTime'
    <3>1. StopsInTime /\ (Suppressing => notifier.version = latest)
      BY <2>1, <2>2 DEF FlagOK, SkipInv, WriteInv
    <3> QED
      BY <2>2, <3>1
  <2> QED
    BY <1>1, <2>1, <2>2 DEF FlagOK, Suppressing
<1> QED
  BY <1>2, <1>3 DEF SkipInv

LEMMA RoundFlags ==
    ASSUME IInv, EInv, SkipInv, IInv', Moved(Worker), UNCHANGED snapshots,
           StartRound \/ Advance \/ RunNotifier \/ NotifyRealms
    PROVE  SkipInv'
<1>1. worker \in WorkerThread /\ notifier \in Notifier
  BY DEF IInv, ThreadsOK, NotifierOK
<1>2. UNCHANGED << callbacks, main >>
  BY DEF StartRound, Advance, RunNotifier, NotifyRealms, resultsVars, callbackVars
<1>3. notifier'.version = notifier.version
  BY <1>1 DEF StartRound, Advance, RunNotifier, Run, NotifyRealms, resultsVars, Notifier
<1>4. ASSUME StopsInTime, Suppressing => notifier.version = latest
      PROVE  StopsInTime'
  <2>1. CASE StartRound
    <3>1. /\ worker'.pc = "advance" /\ worker'.skip = skipVersion /\ worker'.version = latest
          /\ ~InRound
      BY <1>1, <2>1 DEF StartRound, WorkerThread, InRound
    <3>2. skipVersion \in Nat /\ skipVersion <= latest /\ latest \in Nat /\ notifier.version \in Nat
      BY Numbers, <2>1 DEF IInv, WorkerInv, ThreadsOK
    <3>3. NextStop' <= notifier.version + 1
      BY <1>4, <3>1, <3>2 DEF NextStop, StopsInTime
    <3> QED
      BY <1>3, <3>1, <3>3 DEF StopsInTime, InRound
  <2>2. CASE Advance
    <3>1. /\ worker.pc = "advance" /\ worker'.pc = "run" /\ bound'[Worker] = NextStop
      BY <1>1, <2>2, Threads
         DEF Advance, AdvanceRead, NextStop, WorkerThread, IInv, GroupInv, GroupTypeOK
    <3> QED
      BY <1>3, <1>4, <3>1 DEF StopsInTime, InRound, NextStop
  <2>3. CASE RunNotifier
    <3>1. worker.pc = "run" /\ worker'.pc = "handover" /\ bound'[Worker] = bound[Worker]
      BY <1>1, <2>3 DEF RunNotifier, WorkerThread, groupVars
    <3> QED
      BY <1>3, <1>4, <3>1 DEF StopsInTime, InRound, NextStop
  <2>4. CASE NotifyRealms
    <3>1. worker.pc = "signal" /\ worker'.pc = "idle" /\ skipVersion' = skipVersion
      BY <1>1, <2>4 DEF NotifyRealms, WorkerThread
    <3> QED
      BY <1>2, <1>3, <1>4, <3>1 DEF StopsInTime, InRound, Suppressing
  <2> QED
    BY <2>1, <2>2, <2>3, <2>4
<1> QED
  BY <1>2, <1>3, <1>4, WorkerFlags

LEMMA NothingToRunFlags ==
    ASSUME IInv, EInv, SkipInv, IInv', Moved(Worker), NothingToRun
    PROVE  SkipInv'
<1>1. stage'[Main] = stage[Main]
  BY Threads DEF Moved
<1>2. Len(callbacks) = 0 /\ UNCHANGED << callbacks, main >>
  BY DEF NothingToRun, Registered, callbackVars, IInv, NotifierInv, EInv, LoopInv
<1> QED
  BY <1>1, <1>2, NoFlags DEF SkipInv, WriteInv, Suppressing, InWrite

(* The hand-over clears the flags.                                         *)
LEMMA HandOverFlags ==
    ASSUME IInv, EInv, SkipInv, IInv', Moved(Worker), UNCHANGED snapshots, HandOver
    PROVE  SkipInv'
<1> USE DEF HandOver
<1>1. stage'[Main] = stage[Main] /\ main' = main /\ latest' = latest
  BY Threads DEF Moved, latest
<1>2. Len(callbacks') = Len(callbacks)
  BY AddType DEF IInv, NotifierOK, Notifier
<1>3. \A i \in 1 .. Len(callbacks) :
         /\ callbacks'[i].initialDelivered = callbacks[i].initialDelivered
         /\ callbacks'[i].asked = callbacks[i].asked
         /\ ~callbacks'[i].skipNext
  <2> SUFFICES ASSUME NEW i \in 1 .. Len(callbacks)
               PROVE  /\ callbacks'[i].initialDelivered = callbacks[i].initialDelivered
                      /\ callbacks'[i].asked = callbacks[i].asked
                      /\ ~callbacks'[i].skipNext
    OBVIOUS
  <2>1. i \in DOMAIN callbacks /\ callbacks[i] \in Callback
    BY CallbacksDomain, CallbackFields DEF IInv
  <2> QED
    BY <2>1 DEF AddChanges, Callback
<1>4. FlagsInv'
  BY <1>2, <1>3 DEF SkipInv, FlagsInv, FlagOK
<1>5. ASSUME NEW i \in 1 .. Len(callbacks), callbacks[i].initialDelivered,
             notifier.version = latest
      PROVE  notifier'.version = latest
  <2>1. CallbackInv(callbacks[i], Waits(i), Counted(i))
    BY DEF EInv, EachInv
  <2>2. notifier.hasRun /\ notifier.alive
    BY <1>5, <2>1 DEF CallbackInv, DeliveryOK, EInv, LoopInv
  <2>3. bound[Worker] = latest
    BY <1>5, <2>2, Numbers, Threads DEF EInv, RoundInv
  <2> DEFINE n == HandedOver(bound[Worker], worker.saw)
  <2>4. n.version = bound[Worker] /\ n.alive = notifier.alive
    BY DEF HandedOver, IInv, NotifierOK, Notifier
  <2>5. notifier' = n
    BY <2>2, <2>4 DEF CleanUp
  <2> QED
    BY <2>3, <2>4, <2>5
<1>6. WriteInv'
  BY <1>1, <1>2, <1>3, <1>5 DEF SkipInv, WriteInv, InWrite, Suppressing
<1> QED
  BY <1>4, <1>6 DEF SkipInv

-----------------------------------------------------------------------------
LEMMA SkipInvInit == Init => SkipInv
<1> SUFFICES ASSUME Init PROVE SkipInv
  OBVIOUS
<1>1. Len(callbacks) = 0 /\ main.halfway = "no"
  BY DEF Init, ResultsInit, NoCallbacks, IdleMain
<1> QED
  BY <1>1 DEF SkipInv, WriteInv, FlagsInv, Suppressing

LEMMA SkipInvStep ==
    ASSUME IInv, EInv, SkipInv, [Next]_vars
    PROVE  SkipInv'
<1>0. IInv'
  BY InvStep
<1>1. CASE WorkerStep
  <2>1. Moved(Worker)
    BY <1>1, NothingToRunStep, StartRoundStep, AdvanceStep, RunNotifierStep,
       HandOverStep, NotifyRealmsStep DEF WorkerStep
  <2>2. UNCHANGED snapshots
    BY <1>1 DEF WorkerStep, NothingToRun, CleanUp, StartRound, Advance, RunNotifier, HandOver,
                NotifyRealms, groupVars, BeginRead, EndRead, AdvanceRead
  <2> QED
    BY <1>0, <1>1, <2>1, <2>2, NothingToRunFlags, RoundFlags, HandOverFlags DEF WorkerStep
<1>2. CASE ProgramStep
  <2>1. Moved(Main)
    BY <1>2, ReadAgainStep, RegisterStep, UseStep, DestroyStep, AddCallbackStep,
       RemoveStep, BeginTransactionStep, BeginInCallbackStep, SuppressStep,
       InvalidateStep, RefreshStep, RefreshUnreadStep DEF ProgramStep
  <2>2. UNCHANGED snapshots
    BY <1>2 DEF ProgramStep, ReadAgain, RegisterNotifier, UseResults, DestroyResults, AddCallback,
                RemoveCallbackOf, BeginTransaction, BeginInCallback, SuppressNext, Invalidate,
                Refresh, RefreshUnread, groupVars, BeginRead, EndRead, AdvanceRead,
                LockForWrite, PromoteToWrite
  <2> QED
    BY <1>0, <1>2, <2>1, <2>2, CallFlags, ResultsFlags, AddCallbackFlags, RemoveFlags,
       BeginTransactionFlags, BeginInCallbackFlags, SuppressFlags, RefreshFlags DEF ProgramStep
<1>3. CASE MainRuns
  <2>1. Moved(Main)
    BY <1>3, FinishAddStep, PackageForWriteStep, PackageForRefreshStep, PackageReadyStep,
       DiscardStep, ProcessAvailableStep, DeliverStep, CallNextStep, ReturnStep,
       FinishCallingStep, ReadPastEndStep DEF MainRuns
  <2>2. UNCHANGED snapshots
    BY <1>3 DEF MainRuns, FinishAddCallback, PackageForWrite, PackageForRefresh, PackageReady,
                DiscardPackage, ProcessAvailable, DeliverView, CallNext, ReturnFromCallback,
                FinishCalling, ReadPastEnd, groupVars, AdvanceRead, FinishPromotion
  <2> QED
    BY <1>0, <1>3, <2>1, <2>2, CallFlags, PackageFlags, DiscardFlags, CallNextFlags,
       FinishCallingFlags DEF MainRuns
<1>4. CASE EndTransaction \/ Notify
  <2>1. Moved(Main)
    BY <1>4, CommitStep, CancelStep, NotifyStep DEF EndTransaction
  <2>2. CommitTransaction \/ UNCHANGED snapshots
    BY <1>4 DEF EndTransaction, CancelTransaction, Notify, RollbackAndContinueAsRead, groupVars,
                AdvanceRead
  <2> QED
    BY <1>0, <1>4, <2>1, <2>2, CommitFlags, CallFlags, RefreshFlags DEF EndTransaction
<1>5. CASE OtherCommits \/ OtherNotifies \/ OtherDies
  <2>1. Moved(Other)
    BY <1>5, OtherStep
  <2> QED
    BY <1>0, <1>5, <2>1, OtherFlags
<1>6. CASE UNCHANGED vars
  BY <1>6 DEF vars, resultsVars, callbackVars, groupVars, SkipInv, WriteInv, FlagsInv, FlagOK,
              Suppressing, InWrite, latest, StopsInTime, NextStop, InRound
<1> QED
  BY <1>1, <1>2, <1>3, <1>4, <1>5, <1>6 DEF Next

(* Whoever has asked not to be told of one commit hears of all the others, *)
(* wherever the worker's rounds and its stops fall between them.           *)
THEOREM OthersAreHeard == Spec => OthersNeverSkipped
<1> DEFINE heard == \/ main.jumped \/ notifier'.stale
                    \/ \A c \in Called : c.skipNext /\ c.asked # {} => notifier.changes \subseteq c.asked
<1>1. ASSUME IInv, EInv, SkipInv, HandOver, ~main.jumped, ~notifier'.stale,
             NEW i \in 1 .. Len(callbacks), callbacks[i].initialDelivered,
             callbacks[i].skipNext, callbacks[i].asked # {}
      PROVE  notifier.changes \subseteq callbacks[i].asked
  <2>1. FlagOK(callbacks[i]) /\ CallbackInv(callbacks[i], Waits(i), Counted(i))
    BY <1>1 DEF SkipInv, FlagsInv, EInv, EachInv
  <2>2. notifier.hasRun /\ notifier.alive /\ haveCallbacks
    BY <1>1, <2>1 DEF CallbackInv, DeliveryOK, EInv, LoopInv, HandOver
  <2>3. notifier.version + 1 \in callbacks[i].asked /\ bound[Worker] <= notifier.version + 1
        /\ worker.pc = "handover"
    BY <1>1, <2>1 DEF FlagOK, StopsInTime, InRound, NextStop, HandOver
  <2>4. ~notifier.stale /\ FALSE \notin worker.saw
    <3> DEFINE stale == notifier.stale \/ (notifier.hasRun /\ worker.saw \cup {haveCallbacks} = BOOLEAN)
               handover == IF notifier.tv # 0 \/ notifier.handover # 0 THEN bound[Worker] ELSE 0
               n == [notifier EXCEPT !.version = bound[Worker], !.handover = handover, !.tv = 0,
                                     !.changes = {}, !.stale = stale, !.hasRun = TRUE]
    <3>1. HandedOver(bound[Worker], worker.saw) = n
      BY DEF HandedOver
    <3>2. worker.saw \subseteq BOOLEAN
      BY <1>1 DEF IInv, ThreadsOK, WorkerThread
    <3>3. ~stale => ~notifier.stale /\ FALSE \notin worker.saw
      BY <2>2, <3>2
    <3> HIDE DEF stale, handover
    <3>4. n.stale = stale /\ n.alive = notifier.alive
      BY <1>1 DEF IInv, NotifierOK, Notifier
    <3>5. notifier' = n
      BY <1>1, <2>2, <3>1, <3>4 DEF HandOver, CleanUp
    <3> QED
      BY <1>1, <3>3, <3>4, <3>5
  <2>5. notifier.changes = ChangedBetween(notifier.version, bound[Worker])
    BY <1>1, <2>2, <2>3, <2>4 DEF EInv, RowsInv
  <2>6. bound[Worker] \in Nat /\ notifier.version \in Nat
    BY <1>1, Numbers, Threads
  <2> QED
    BY <2>3, <2>5, <2>6 DEF ChangedBetween
<1>2. IInv /\ EInv /\ SkipInv /\ [Next]_vars => [HandOver => heard]_vars
  <2> SUFFICES ASSUME IInv, EInv, SkipInv, HandOver, ~main.jumped, ~notifier'.stale,
                      NEW c \in Called, c.skipNext, c.asked # {}
               PROVE  notifier.changes \subseteq c.asked
    OBVIOUS
  <2>1. PICK i \in DOMAIN callbacks : c = callbacks[i]
    BY DEF Called, Members
  <2>2. i \in 1 .. Len(callbacks) /\ c.initialDelivered
    BY CallbacksDomain DEF IInv, Called
  <2> QED
    BY <1>1, <2>1, <2>2
<1>3. Init => IInv /\ EInv /\ SkipInv
  BY InvInit, EInvInit, SkipInvInit
<1>4. IInv /\ EInv /\ SkipInv /\ [Next]_vars => (IInv /\ EInv /\ SkipInv)'
  BY InvStep, EInvStep, SkipInvStep
<1>5. Spec => [][HandOver => heard]_vars
  BY <1>2, <1>3, <1>4, PTL DEF Spec
<1> QED
  BY <1>5, Zenon DEF OthersNeverSkipped
=============================================================================
