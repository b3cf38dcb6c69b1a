------------------------- MODULE CollectionNotifier -------------------------
(***************************************************************************)
(* CollectionNotifier: the callbacks of one observed collection.  The      *)
(* worker thread adds the changes of each run to every callback, the       *)
(* target thread packages them and calls the callbacks one after another,  *)
(* and a callback may add and remove callbacks while it runs.              *)
(*                                                                         *)
(* A set of changes is represented by the set of commits it stands for, a  *)
(* commit by the snapshot it makes; WrongBase stands for the difference    *)
(* between two row lists that no sequence of commits leads from one to the *)
(* other.                                                                  *)
(***************************************************************************)
EXTENDS SharedGroup, Sequences, SequencesExt

CONSTANT MaxTokens   \* bound: callbacks added to one notifier

ASSUME CallbacksAssumption == MaxTokens \in Nat \ {0}

VARIABLES
    callbacks,      \* m_callbacks, with the history of each
    haveCallbacks,  \* m_have_callbacks
    callbackIndex,  \* m_callback_index counted from 1
    callbackCount,  \* m_callback_count
    nextToken,      \* m_next_token, counted from 1
    miscounted      \* history: whether the count has lost a callback it counted

callbackVars ==
    << callbacks, haveCallbacks, callbackIndex, callbackCount, nextToken, miscounted >>

WrongBase == 0
NPos == 0               \* npos, as an index
Huge == MaxTokens + 1   \* a size_t that ran below zero: more than any size

Tokens == 1 .. MaxTokens
ChangeSets == SUBSET (Versions \cup {WrongBase})

(* The fields after skipNext are history: the snapshot the first call      *)
(* showed (0 before it), the commits the later calls reported, those not   *)
(* reported because of skipNext, those discarded, those somebody asked not *)
(* to have reported after it, and whether adding the callback woke the     *)
(* worker.                                                                 *)
Callback == [token : Tokens, accumulated : ChangeSets, toDeliver : ChangeSets,
             initialDelivered : BOOLEAN, skipNext : BOOLEAN,
             base : Versions \cup {0}, told : ChangeSets, skipped : ChangeSets,
             discarded : ChangeSets, asked : SUBSET Versions, woken : BOOLEAN]

NewCallback(woken) ==
    [token |-> nextToken, accumulated |-> {}, toDeliver |-> {},
     initialDelivered |-> FALSE, skipNext |-> FALSE,
     base |-> 0, told |-> {}, skipped |-> {}, discarded |-> {}, asked |-> {},
     woken |-> woken]

NoCallbacks ==
    /\ callbacks = << >>
    /\ haveCallbacks = FALSE
    /\ callbackIndex = NPos
    /\ callbackCount = Huge
    /\ nextToken = 1
    /\ miscounted = FALSE

StartCallbacks ==
    /\ callbacks' = << >>
    /\ haveCallbacks' = FALSE
    /\ callbackIndex' = NPos
    /\ callbackCount' = Huge
    /\ nextToken' = 1
    /\ miscounted' = FALSE

Present(token) == \E i \in DOMAIN callbacks : callbacks[i].token = token

IndexOf(token) ==
    CHOOSE i \in DOMAIN callbacks : callbacks[i].token = token

(* The first half of add_callback.  The other half, haveCallbacks, follows *)
(* the wake-up and is left out while callbacks are being called.           *)
PushCallback ==
    /\ nextToken <= MaxTokens
    /\ callbacks' = Append(callbacks, NewCallback(callbackIndex = NPos))
    /\ nextToken' = nextToken + 1
    /\ UNCHANGED << haveCallbacks, callbackIndex, callbackCount, miscounted >>

NoteCallbacks ==
    /\ haveCallbacks' = TRUE
    /\ UNCHANGED << callbacks, callbackIndex, callbackCount, nextToken, miscounted >>

(* RemoveCallback with plausible bugs.  No specification uses these; here  *)
(* and elsewhere such operators show that the properties can fail.         *)
RemoveCallbackByIndex(token, calling) ==
    /\ Present(token)
    /\ callbacks' = RemoveAt(callbacks, IndexOf(token))
    /\ callbackIndex' = callbackIndex - 1
    /\ callbackCount' = IF callbackCount \in {0, Huge} THEN Huge
                                                       ELSE callbackCount - 1
    /\ haveCallbacks' = (Len(callbacks) > 1)
    /\ UNCHANGED << nextToken, miscounted >>

RemoveCallbackKeepingIndex(token, calling) ==
    /\ Present(token)
    /\ callbacks' = RemoveAt(callbacks, IndexOf(token))
    /\ callbackCount' = IF callbackCount \in {0, Huge} THEN Huge
                                                       ELSE callbackCount - 1
    /\ haveCallbacks' = (Len(callbacks) > 1)
    /\ UNCHANGED << callbackIndex, nextToken, miscounted >>

RemoveCallbackKeepingCount(token, calling) ==
    LET gone == IndexOf(token) IN
    /\ Present(token)
    /\ callbacks' = RemoveAt(callbacks, gone)
    /\ callbackIndex' = IF callbackIndex >= gone THEN callbackIndex - 1
                                                 ELSE callbackIndex
    /\ haveCallbacks' = (Len(callbacks) > 1)
    /\ UNCHANGED << callbackCount, nextToken, miscounted >>

(* The index steps back when the callback at it or before it goes; below   *)
(* the first one it becomes npos again.  The count goes down for one that  *)
(* it does not count, too, added since packaging: below zero it becomes    *)
(* huge.  That matters while callbacks are being called.                   *)
RemoveCallback(token, calling) ==
    LET gone == IndexOf(token) IN
    /\ Present(token)
    /\ callbacks' = RemoveAt(callbacks, gone)
    /\ callbackIndex' = IF callbackIndex >= gone THEN callbackIndex - 1
                                                 ELSE callbackIndex
    /\ callbackCount' = IF callbackCount \in {0, Huge} THEN Huge
                                                       ELSE callbackCount - 1
    /\ haveCallbacks' = (Len(callbacks) > 1)
    /\ miscounted' = (miscounted \/ (calling /\ callbackCount # Huge /\ gone > callbackCount))
    /\ UNCHANGED nextToken

(* version is the commit the write transaction will make.                  *)
SuppressNextNotification(token, version) ==
    LET i == IndexOf(token)
        called == callbacks[i].initialDelivered
    IN
    /\ Present(token)
    /\ callbacks' = [callbacks EXCEPT ![i].skipNext = TRUE,
                                      ![i].asked = IF called THEN @ \cup {version} ELSE @]
    /\ UNCHANGED << haveCallbacks, callbackIndex, callbackCount, nextToken, miscounted >>

AddChanges(changes) ==
    /\ callbacks' =
         [i \in DOMAIN callbacks |->
            IF callbacks[i].skipNext
            THEN [callbacks[i] EXCEPT !.skipNext = FALSE,
                                      !.skipped = @ \cup changes]
            ELSE [callbacks[i] EXCEPT !.accumulated = @ \cup changes]]
    /\ UNCHANGED << haveCallbacks, callbackIndex, callbackCount, nextToken, miscounted >>

(* PackageCallbacks with a plausible bug, used by no specification.        *)
PackageCallbacksCopying ==
    /\ callbacks' = [i \in DOMAIN callbacks |->
                       [callbacks[i] EXCEPT !.toDeliver = callbacks[i].accumulated]]
    /\ callbackCount' = Len(callbacks)
    /\ UNCHANGED << haveCallbacks, callbackIndex, nextToken, miscounted >>

(* The callback half of package_for_delivery.                              *)
PackageCallbacks ==
    /\ callbacks' = [i \in DOMAIN callbacks |->
                       [callbacks[i] EXCEPT !.toDeliver = callbacks[i].accumulated,
                                            !.accumulated = {}]]
    /\ callbackCount' = Len(callbacks)
    /\ UNCHANGED << haveCallbacks, callbackIndex, nextToken, miscounted >>

(* Packaged, and then not delivered to anybody.                            *)
PackageAndDiscard ==
    /\ callbacks' = [i \in DOMAIN callbacks |->
                       [callbacks[i] EXCEPT
                          !.discarded = @ \cup callbacks[i].accumulated,
                          !.accumulated = {}, !.toDeliver = {}]]
    /\ UNCHANGED << haveCallbacks, callbackIndex, callbackCount, nextToken, miscounted >>

(* for_each_callback with the body of after_advance: the callbacks from    *)
(* the index on, up to the count, that have something to be told.          *)
Due == {i \in callbackIndex + 1 .. Len(callbacks) :
          /\ i <= callbackCount
          /\ callbacks[i].initialDelivered => callbacks[i].toDeliver # {}}

FirstOf(due) == CHOOSE i \in due : \A j \in due : i <= j

(* The first call brings the collection itself; the changes that come with *)
(* it are not looked at, so the history starts here.                       *)
CallCallback(version) ==
    LET i == FirstOf(Due) IN
    /\ Due # {}
    /\ callbackIndex' = i
    /\ callbacks' =
         [callbacks EXCEPT ![i] =
            IF @.initialDelivered
            THEN [callbacks[i] EXCEPT !.toDeliver = {},
                                      !.told = @ \cup callbacks[i].toDeliver]
            ELSE [callbacks[i] EXCEPT !.toDeliver = {}, !.initialDelivered = TRUE,
                                      !.base = version, !.discarded = {},
                                      !.skipped = {v \in @ : v > version}]]
    /\ UNCHANGED << haveCallbacks, callbackCount, nextToken, miscounted >>

(* The count is not read again before the next package sets it.            *)
StopCalling ==
    /\ Due = {} /\ callbackCount <= Len(callbacks)
    /\ callbackIndex' = NPos
    /\ callbackCount' = Huge
    /\ UNCHANGED << callbacks, haveCallbacks, nextToken, miscounted >>

CallbacksTypeOK ==
    /\ callbacks \in Seq(Callback)
    /\ haveCallbacks \in BOOLEAN
    /\ callbackIndex \in 0 .. Huge
    /\ callbackCount \in 0 .. Huge
    /\ nextToken \in 1 .. MaxTokens + 1
    /\ miscounted \in BOOLEAN
=============================================================================
