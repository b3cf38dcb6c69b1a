---------------------------- MODULE SharedGroup ----------------------------
(***************************************************************************)
(* SharedGroup: an accessor to a Realm file.  Every commit makes a new     *)
(* numbered snapshot; an accessor reads the snapshot it is bound to until  *)
(* it moves on, always forwards; one accessor at a time holds the write    *)
(* lock, in any thread or process.                                         *)
(***************************************************************************)
EXTENDS Naturals, Sequences

CONSTANTS
    Accessors,  \* the SharedGroup instances on the file
    NoOne,      \* no accessor
    Contents,   \* what a snapshot holds, or what its commit did
    MaxVersion  \* bound: the number of snapshots

ASSUME GroupAssumption ==
    /\ NoOne \notin Accessors
    /\ MaxVersion \in Nat \ {0}

VARIABLES
    snapshots,  \* the snapshots in the order of the commits
    writer,     \* the accessor holding the write lock
    stage,      \* per accessor, transact_Ready, _Reading or _Writing
    bound       \* per accessor, the snapshot of its read lock, also the last one

groupVars == << snapshots, writer, stage, bound >>

latest == Len(snapshots)
Versions == 1 .. MaxVersion
Stages == {"Ready", "Reading", "Writing"}

(* The accessors of reading have begun to read the first snapshot.         *)
GroupInit(reading, content) ==
    /\ snapshots = << content >>
    /\ writer = NoOne
    /\ stage = [a \in Accessors |-> IF a \in reading THEN "Reading" ELSE "Ready"]
    /\ bound = [a \in Accessors |-> 1]

HasChanged(a) == bound[a] # latest

BeginRead(a) ==
    /\ stage[a] = "Ready"
    /\ stage' = [stage EXCEPT ![a] = "Reading"]
    /\ bound' = [bound EXCEPT ![a] = latest]
    /\ UNCHANGED << snapshots, writer >>

EndRead(a) ==
    /\ stage[a] = "Reading"
    /\ stage' = [stage EXCEPT ![a] = "Ready"]
    /\ UNCHANGED << snapshots, writer, bound >>

AdvanceRead(a, version) ==
    /\ stage[a] = "Reading"
    /\ bound' = [bound EXCEPT ![a] = version]
    /\ UNCHANGED << snapshots, writer, stage >>

(* do_begin_write, the first half of promote_to_write, waits for the lock. *)
LockForWrite(a) ==
    /\ stage[a] = "Reading"
    /\ writer = NoOne
    /\ writer' = a
    /\ UNCHANGED << snapshots, stage, bound >>

(* The other half: on to the latest snapshot, which nobody else can follow *)
(* with another one now.                                                   *)
FinishPromotion(a) ==
    /\ writer = a
    /\ stage' = [stage EXCEPT ![a] = "Writing"]
    /\ bound' = [bound EXCEPT ![a] = latest]
    /\ UNCHANGED << snapshots, writer >>

PromoteToWrite(a) ==
    /\ stage[a] = "Reading"
    /\ writer = NoOne
    /\ writer' = a
    /\ stage' = [stage EXCEPT ![a] = "Writing"]
    /\ bound' = [bound EXCEPT ![a] = latest]
    /\ UNCHANGED snapshots

CommitAndContinueAsRead(a, content) ==
    /\ stage[a] = "Writing"
    /\ latest < MaxVersion
    /\ snapshots' = Append(snapshots, content)
    /\ bound' = [bound EXCEPT ![a] = latest + 1]
    /\ stage' = [stage EXCEPT ![a] = "Reading"]
    /\ writer' = NoOne

(* A whole write transaction that nobody looks into.                       *)
WriteAtOnce(a, content) ==
    /\ stage[a] = "Reading"
    /\ writer = NoOne
    /\ latest < MaxVersion
    /\ snapshots' = Append(snapshots, content)
    /\ bound' = [bound EXCEPT ![a] = latest + 1]
    /\ UNCHANGED << writer, stage >>

RollbackAndContinueAsRead(a) ==
    /\ stage[a] = "Writing"
    /\ stage' = [stage EXCEPT ![a] = "Reading"]
    /\ writer' = NoOne
    /\ UNCHANGED << snapshots, bound >>

GroupTypeOK ==
    /\ snapshots \in Seq(Contents)
    /\ latest \in Versions
    /\ writer \in Accessors \cup {NoOne}
    /\ stage \in [Accessors -> Stages]
    /\ bound \in [Accessors -> Versions]

(* Whoever writes has the write lock and stands on the latest snapshot,    *)
(* and nobody is ahead of it: begin_transaction takes the lock first and   *)
(* moves to a snapshot only after the wait for the notifiers.              *)
OneWriter ==
    \A a \in Accessors :
        /\ bound[a] <= latest
        /\ stage[a] = "Writing" => writer = a /\ bound[a] = latest
============================================================================
