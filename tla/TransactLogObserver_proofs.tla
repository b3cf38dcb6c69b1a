----------------------- MODULE TransactLogObserver_proofs -----------------------
(***************************************************************************)
(* That the changes TransactLogObserver makes of a transaction's log, and  *)
(* those the worker's runs make of it and merge, are right.                *)
(*                                                                         *)
(* The log: what each operation of CollectionChangeBuilder does to sets of *)
(* positions, then to changes that are right so far, for a list            *)
(* (ListRight), for a table (TableRight) and for the modifications         *)
(* (ModsRight), then that every instruction keeps the inductive invariant  *)
(* LogInv (LogChanges).                                                    *)
(*                                                                         *)
(* The runs: what calculate gives for two results, with either way to find *)
(* the moves; then that a run keeps the invariant RunInv of the merged     *)
(* change (MergedChanges), the results of sorted queries (SortedDiff) and  *)
(* the types (TypeCorrect).                                                *)
(***************************************************************************)
EXTENDS TransactLogObserver, CollectionChangeBuilder_proofs

(***************************************************************************)
(* Every operation of an index set does to its ranges what is meant by it  *)
(* for sets of numbers, for the ranges of every set of numbers up to every *)
(* bound, and leaves no two ranges that touch.                             *)
(***************************************************************************)
THEOREM IndexSetsMeanSets == Spec => []IndexSetsRight
<1>1. IndexSetsRight
  <2> DEFINE n == MaxRows
  <2>0. n \in Nat
    BY BoundsAssumption
  <2> SUFFICES ASSUME NEW S \in SUBSET (0 .. n + 1), NEW x \in 0 .. n + 2
               PROVE  LET s == FromIndexes(S)
                          Below == {y \in S : y < x}
                          Upper(d) == {y + d : y \in S \ Below}
                          free == CHOOSE y \in 0 .. 2 * n + 4 :
                                    y \notin S /\ Cardinality((0 .. y) \ S) = x + 1
                      IN  /\ Members(s) = S /\ WellFormed(s)
                          /\ InSet(s, x) = (x \in S)
                          /\ CountIn(s, 0, x) = Cardinality(Below)
                          /\ ShiftIndex(s, x) = free
                          /\ AddIndex(s, x) = FromIndexes(S \cup {x})
                          /\ AddShifted(s, x) = [set |-> FromIndexes(S \cup {free}), index |-> free]
                          /\ RemoveIndex(s, x) = FromIndexes(S \ {x})
                          /\ EraseOrUnshift(s, x) =
                               [set |-> FromIndexes(Below \cup (Upper(-1) \ {x - 1})),
                                index |-> IF x \in S THEN NPos ELSE x - Cardinality(Below)]
                          /\ \A k \in 1 .. 2 :
                               /\ InsertRange(s, x, k) = FromIndexes(Below \cup Upper(k) \cup (x .. x + k - 1))
                               /\ ShiftForInsert(s, x, k) = FromIndexes(Below \cup Upper(k))
    BY DEF IndexSetsRight
  <2> DEFINE s == FromIndexes(S)
             Below == {y \in S : y < x}
             Upper(d) == {y + d : y \in S \ Below}
             free == CHOOSE y \in 0 .. 2 * n + 4 : y \notin S /\ Cardinality((0 .. y) \ S) = x + 1
             w == 2 * n + 4
  <2>w. w \in Nat /\ S \in SUBSET (0 .. w) /\ x \in 0 .. w /\ x \in Nat /\ n + 4 <= w /\ n + 1 \in Nat
    BY <2>0
  <2>n. x <= n + 2 /\ \A y \in S : y \in Nat /\ y <= n + 1
    BY <2>0
  <2>b. w = 2 * n + 4
    OBVIOUS
  <2> HIDE DEF n, w
  <2>1. s \in Ranges /\ Members(s) = S
    BY <2>w, FromIndexesIs
  <2>2. WellFormed(s)
    BY <2>1 DEF Ranges
  <2> HIDE DEF s
  <2>3. InSet(s, x) = (x \in S)
    <3>1. InSet(s, x) <=> x \in S
      BY <2>1, <2>w, InSetMeans
    <3> QED
      BY <3>1 DEF InSet
  <2>4. CountIn(s, 0, x) = Cardinality(Below)
    BY <2>1, <2>w, CountIs
  <2>5. ShiftIndex(s, x) = free /\ free \in 0 .. w
    <3> DEFINE g == ShiftIndex(s, x)
    <3>1. IsFree(S, g, x)
      BY <2>1, <2>w, ShiftIndexIs
    <3> HIDE DEF g
    <3>2. g \in 0 .. 2 * n + 4
      BY <2>0, <3>1, FreeBound DEF n
    <3>3. g \notin S /\ Cardinality((0 .. g) \ S) = x + 1
      BY <3>1 DEF IsFree
    <3>4. free \in 0 .. 2 * n + 4 /\ free \notin S /\ Cardinality((0 .. free) \ S) = x + 1
      BY <3>2, <3>3
    <3> HIDE DEF free
    <3>5. IsFree(S, free, x)
      BY <2>0, <3>4 DEF IsFree
    <3>6. g = free
      BY <2>w, <3>1, <3>5, OneFree
    <3> QED
      BY <2>b, <3>4, <3>6 DEF g
  <2>6. \A y \in Nat, v \in 0 .. w : v = y => AddIndex(s, y) = FromIndexes(S \cup {v})
    <3> SUFFICES ASSUME NEW v \in 0 .. w, v \in Nat
                 PROVE  AddIndex(s, v) = FromIndexes(S \cup {v})
      OBVIOUS
    <3>1. AddIndex(s, v) \in Ranges /\ Members(AddIndex(s, v)) = S \cup {v}
      BY <2>1, AddIndexIs
    <3>2. S \cup {v} \in SUBSET (0 .. w)
      BY <2>w
    <3> QED
      BY <2>w, <3>1, <3>2, FromIs
  <2>7. AddIndex(s, x) = FromIndexes(S \cup {x})
    BY <2>6, <2>w
  <2>8. AddShifted(s, x) = [set |-> FromIndexes(S \cup {free}), index |-> free]
    <3>1. AddIndex(s, free) = FromIndexes(S \cup {free})
      <4>1. free \in Nat
        BY <2>5, <2>w
      <4> HIDE DEF free
      <4> QED
        BY <2>5, <2>6, <4>1
    <3> HIDE DEF free
    <3> QED
      BY <2>5, <3>1 DEF AddShifted
  <2> HIDE DEF free
  <2>9. RemoveIndex(s, x) = FromIndexes(S \ {x})
    <3> DEFINE t == RemoveRange(s, x, x + 1)
    <3>0. x + 1 \in Nat /\ x < x + 1
      BY <2>w
    <3>1. t \in Ranges /\ \A z \in Nat : z \in Members(t) <=> z \in S /\ ~(x <= z /\ z < x + 1)
      BY <2>1, <2>w, <3>0, RemoveRangeIs
    <3> HIDE DEF t
    <3>2. \A z \in Nat : z \in Members(t) <=> z \in S \ {x}
      BY <2>w, <3>1
    <3>3. S \ {x} \in SUBSET (0 .. w)
      BY <2>w
    <3>4. t = FromIndexes(S \ {x})
      BY <2>w, <3>1, <3>2, <3>3, FromIs
    <3> QED
      BY <3>4 DEF t, RemoveIndex
  <2>10. EraseOrUnshift(s, x) =
           [set |-> FromIndexes(Below \cup (Upper(-1) \ {x - 1})),
            index |-> IF x \in S THEN NPos ELSE x - Cardinality(Below)]
    <3> DEFINE t == EraseIndex(s, x)
               M == Below \cup (Upper(-1) \ {x - 1})
    <3>1. t \in Ranges /\ \A z \in Nat : z \in Members(t) <=> (z < x /\ z \in S) \/ (x <= z /\ z + 1 \in S)
      BY <2>1, <2>w, EraseIndexIs
    <3> HIDE DEF t
    <3>2. ASSUME NEW z
          PROVE  z \in M <=> z \in Nat /\ ((z < x /\ z \in S) \/ (x <= z /\ z + 1 \in S))
      <4>1. z \in Below <=> z \in Nat /\ z < x /\ z \in S
        BY <2>n
      <4>2. ASSUME z \in Upper(-1), z # x - 1
            PROVE  z \in Nat /\ x <= z /\ z + 1 \in S
        <5>1. PICK y \in S : ~(y < x) /\ z = y + -1
          BY <4>2
        <5>2. y \in Nat /\ y # x
          BY <2>n, <2>w, <4>2, <5>1
        <5>3. z \in Nat /\ x <= z /\ z + 1 = y
          BY ONLY <2>w, <5>1, <5>2
        <5> QED
          BY <5>3
      <4>3. ASSUME z \in Nat, x <= z, z + 1 \in S
            PROVE  z \in Upper(-1) /\ z # x - 1
        <5>1. ~(z + 1 < x) /\ z = (z + 1) + -1 /\ z # x - 1
          BY ONLY <2>w, <4>3
        <5>2. z + 1 \in S \ Below
          BY <4>3, <5>1
        <5> QED
          BY <5>1, <5>2
      <4> QED
        BY <4>1, <4>2, <4>3
    <3>3. M \in SUBSET (0 .. w)
      <4> SUFFICES ASSUME NEW z \in M
                   PROVE  z \in 0 .. w
        OBVIOUS
      <4>1. z \in Nat /\ (z \in S \/ z + 1 \in S)
        BY <3>2
      <4>2. z <= n + 1
        BY <2>n, <2>0, <4>1 DEF n
      <4> QED
        BY <2>0, <2>w, <4>1, <4>2 DEF n
    <3>4. \A z \in Nat : z \in Members(t) <=> z \in M
      BY <3>1, <3>2
    <3> DEFINE i == IF InSet(s, x) THEN NPos ELSE UnshiftIndex(s, x)
    <3>5. EraseOrUnshift(s, x) = [set |-> t, index |-> i]
      BY DEF EraseOrUnshift, t
    <3>6. i = IF x \in S THEN NPos ELSE x - Cardinality(Below)
      BY <2>3, <2>4 DEF UnshiftIndex
    <3> HIDE DEF M, i
    <3>7. t = FromIndexes(M)
      BY <2>w, <3>1, <3>3, <3>4, FromIs
    <3>8. EraseOrUnshift(s, x) = [set |-> FromIndexes(M),
                                  index |-> IF x \in S THEN NPos ELSE x - Cardinality(Below)]
      BY <3>5, <3>6, <3>7, Zenon
    <3> QED
      BY <3>8 DEF M
  <2>11. ASSUME NEW k \in 1 .. 2
         PROVE  /\ InsertRange(s, x, k) = FromIndexes(Below \cup Upper(k) \cup (x .. x + k - 1))
                /\ ShiftForInsert(s, x, k) = FromIndexes(Below \cup Upper(k))
    <3>0. k \in Nat /\ k > 0 /\ k <= 2
      OBVIOUS
    <3> DEFINE t == InsertRange(s, x, k)
               u == ShiftForInsert(s, x, k)
               M == Below \cup Upper(k)
               N == Below \cup Upper(k) \cup (x .. x + k - 1)
    <3>1. /\ t \in Ranges
          /\ \A z \in Nat : z \in Members(t) <=>
               \/ z < x /\ z \in S
               \/ x <= z - k /\ z - k \in S
               \/ x <= z /\ z < x + k
      <4>1. s \in Ranges /\ x \in Nat
        BY <2>1, <2>w
      <4>2. /\ InsertRange(s, x, k) \in Ranges
            /\ \A z \in Nat : z \in Members(InsertRange(s, x, k)) <=>
                 \/ z < x /\ z \in Members(s)
                 \/ x <= z - k /\ z - k \in Members(s)
                 \/ x <= z /\ z < x + k
        BY ONLY <3>0, <4>1, InsertRangeIs
      <4>3. Members(s) = S
        BY <2>1
      <4> QED
        BY <4>2, <4>3 DEF t
    <3>2. /\ u \in Ranges
          /\ \A z \in Nat : z \in Members(u) <=>
               (z < x /\ z \in S) \/ (x <= z - k /\ z - k \in S)
      <4>1. s \in Ranges /\ x \in Nat
        BY <2>1, <2>w
      <4>2. /\ ShiftForInsert(s, x, k) \in Ranges
            /\ \A z \in Nat : z \in Members(ShiftForInsert(s, x, k)) <=>
                 (z < x /\ z \in Members(s)) \/ (x <= z - k /\ z - k \in Members(s))
        BY ONLY <3>0, <4>1, ShiftForInsertIs
      <4>3. Members(s) = S
        BY <2>1
      <4> QED
        BY <4>2, <4>3 DEF u
    <3> HIDE DEF t, u
    <3>3. ASSUME NEW z
          PROVE  z \in M <=> z \in Nat /\ ((z < x /\ z \in S) \/ (x <= z - k /\ z - k \in S))
      <4>1. z \in Below <=> z \in Nat /\ z < x /\ z \in S
        BY <2>n
      <4>2. ASSUME z \in Upper(k)
            PROVE  z \in Nat /\ x <= z - k /\ z - k \in S
        <5>1. PICK y \in S : ~(y < x) /\ z = y + k
          BY <4>2
        <5>2. y \in Nat
          BY <2>n
        <5>3. z \in Nat /\ z - k = y /\ x <= y
          BY ONLY <2>w, <3>0, <5>1, <5>2
        <5> QED
          BY <5>3
      <4>3. ASSUME z \in Nat, x <= z - k, z - k \in S
            PROVE  z \in Upper(k)
        <5>1. ~(z - k < x) /\ z = (z - k) + k
          BY ONLY <2>w, <3>0, <4>3
        <5>2. z - k \in S \ Below
          BY <4>3, <5>1
        <5> QED
          BY <5>1, <5>2
      <4> QED
        BY <4>1, <4>2, <4>3
    <3>4. ASSUME NEW z
          PROVE  z \in x .. x + k - 1 <=> z \in Nat /\ x <= z /\ z < x + k
      BY <2>w, <3>0
    <3>5. M \in SUBSET (0 .. w)
      <4> SUFFICES ASSUME NEW z \in M
                   PROVE  z \in 0 .. w
        OBVIOUS
      <4>1. z \in Nat /\ (z \in S \/ z - k \in S)
        BY <3>3
      <4>2. z <= n + 3
        BY <2>n, <2>0, <3>0, <4>1 DEF n
      <4> QED
        BY <2>0, <2>w, <4>1, <4>2 DEF n
    <3> HIDE DEF M
    <3>6. N = M \cup (x .. x + k - 1)
      BY DEF M
    <3>7. N \in SUBSET (0 .. w)
      <4> SUFFICES ASSUME NEW z \in x .. x + k - 1
                   PROVE  z \in 0 .. w
        BY <3>5, <3>6
      <4>1. z \in Nat /\ z < x + k
        BY <3>4
      <4> QED
        BY <2>0, <2>n, <2>w, <3>0, <4>1 DEF n
    <3>8. ASSUME NEW z \in Nat
          PROVE  z \in Members(u) <=> z \in M
      <4>1. z \in Members(u) <=> (z < x /\ z \in S) \/ (x <= z - k /\ z - k \in S)
        BY <3>2
      <4>2. z \in M <=> (z < x /\ z \in S) \/ (x <= z - k /\ z - k \in S)
        BY <3>3
      <4> QED
        BY <4>1, <4>2
    <3>9. ASSUME NEW z \in Nat
          PROVE  z \in Members(t) <=> z \in N
      <4>1. z \in Members(t) <=> \/ z < x /\ z \in S
                                 \/ x <= z - k /\ z - k \in S
                                 \/ x <= z /\ z < x + k
        BY <3>1
      <4>2. z \in M <=> (z < x /\ z \in S) \/ (x <= z - k /\ z - k \in S)
        BY <3>3
      <4>3. z \in x .. x + k - 1 <=> x <= z /\ z < x + k
        BY <3>4
      <4>4. z \in N <=> z \in M \/ z \in x .. x + k - 1
        BY <3>6, Zenon
      <4> HIDE DEF N
      <4> QED
        BY <4>1, <4>2, <4>3, <4>4
    <3> HIDE DEF N
    <3>10. t = FromIndexes(N) /\ u = FromIndexes(M)
      BY <2>w, <3>1, <3>2, <3>5, <3>7, <3>8, <3>9, FromIs
    <3> QED
      BY <3>10 DEF t, u, M, N
  <2> QED
    BY <2>1, <2>2, <2>3, <2>4, <2>5, <2>7, <2>8, <2>9, <2>10, <2>11 DEF s, free
<1> QED
  BY <1>1, PTL

\* The rank of a position among those outside.
LEMMA OutsideIs ==
    ASSUME NEW s \in Seq(Nat), NEW r \in Ranges
    PROVE  /\ Outside(s, r) = {i \in 0 .. Len(s) - 1 : i \notin Members(r)}
           /\ Cardinality(Outside(s, r)) = Rank(Members(r), Len(s))
           /\ \A i \in 0 .. Len(s) - 1 : Cardinality({j \in Outside(s, r) : j < i}) = Rank(Members(r), i)
<1> DEFINE n == Len(s)
           out == {i \in 0 .. n - 1 : i \notin Members(r)}
<1>1. n \in Nat
  OBVIOUS
<1>2. Outside(s, r) = out
  <2>1. \A i \in 0 .. n - 1 : InSet(r, i) <=> i \in Members(r)
    BY InSetMeans
  <2> QED
    BY <2>1 DEF Outside
<1>3. Cardinality(out) = Rank(Members(r), n)
  BY DEF Rank
<1>4. ASSUME NEW i \in 0 .. n - 1
      PROVE  Cardinality({j \in out : j < i}) = Rank(Members(r), i)
  <2> HIDE DEF n
  <2>1. {j \in out : j < i} = {y \in 0 .. i - 1 : y \notin Members(r)}
    BY <1>1
  <2> QED
    BY <2>1 DEF Rank
<1> QED
  BY <1>2, <1>3, <1>4

\* Changes that place the rows that are left apply.
LEMMA AppliesIs ==
    ASSUME NEW old \in Seq(Nat), NEW new \in Seq(Nat), NEW c,
           c.deletions \in Ranges, c.insertions \in Ranges,
           Rank(Del(c), Len(old)) = Rank(Ins(c), Len(new)),
           \A x \in 0 .. Len(old) - 1, y \in 0 .. Len(new) - 1 :
             x \notin Del(c) /\ y \notin Ins(c) /\ Rank(Del(c), x) = Rank(Ins(c), y) => old[x + 1] = new[y + 1]
    PROVE  Applies(old, new, c)
<1> DEFINE left == Outside(old, c.deletions)
           stay == Outside(new, c.insertions)
           n == Len(old)
           m == Len(new)
<1>1. /\ left = {i \in 0 .. n - 1 : i \notin Del(c)} /\ Cardinality(left) = Rank(Del(c), n)
      /\ \A i \in 0 .. n - 1 : Cardinality({j \in left : j < i}) = Rank(Del(c), i)
  BY OutsideIs DEF Del
<1>2. /\ stay = {i \in 0 .. m - 1 : i \notin Ins(c)} /\ Cardinality(stay) = Rank(Ins(c), m)
      /\ \A i \in 0 .. m - 1 : Cardinality({j \in stay : j < i}) = Rank(Ins(c), i)
  BY OutsideIs DEF Ins
<1>3. Rank(Del(c), n) = Rank(Ins(c), m)
  OBVIOUS
<1>4. \A x \in 0 .. n - 1, y \in 0 .. m - 1 :
        x \notin Del(c) /\ y \notin Ins(c) /\ Rank(Del(c), x) = Rank(Ins(c), y) => old[x + 1] = new[y + 1]
  OBVIOUS
<1> HIDE DEF left, stay, n, m
<1>5. \A i \in left, j \in stay :
        Cardinality({k \in left : k < i}) = Cardinality({k \in stay : k < j}) => old[i + 1] = new[j + 1]
  BY <1>1, <1>2, <1>4
<1>6. Cardinality(left) = Cardinality(stay)
  BY <1>1, <1>2, <1>3
<1> QED
  BY <1>5, <1>6 DEF Applies, left, stay

\* What is true of the changes of a table while its log is read: the rows
\* of mapping and those that are neither inserted nor deleted are where they
\* are said to be, and every other row is new.
TableRight(b, old, new) ==
    /\ DOMAIN b.mapping \subseteq Ins(b) /\ Ins(b) \subseteq 0 .. Len(new) - 1
    /\ \A x \in 0 .. Len(new) - 1 : x \in Ins(b) <=> x \in Del(b) \/ x >= Len(old)
    /\ \A x \in Len(new) .. Len(old) - 1 : x \in Del(b)
    /\ Origins(b, Del(b))
    /\ \A x \in 0 .. Len(new) - 1 :
         IF Orig(b, x) = NPos THEN new[x + 1] \notin ToSet(old)
         ELSE Orig(b, x) \in 0 .. Len(old) - 1 /\ new[x + 1] = old[Orig(b, x) + 1]

\* Where a row of the old table is in the new one.
FoundAt(new, row) == IF row \in ToSet(new) THEN PosIn(new, row) ELSE NPos

\* Every entry of the mapping is of one row, another for each.
LEMMA MappingIs ==
    ASSUME NEW b \in Builders, NEW old \in Seq(Nat), NEW new \in Seq(Nat),
           NoRepeats(old), NoRepeats(new), TableRight(b, old, new)
    PROVE  /\ \A x \in DOMAIN b.mapping : /\ x \in 0 .. Len(new) - 1 /\ b.mapping[x] \in 0 .. Len(old) - 1
                                          /\ new[x + 1] = old[b.mapping[x] + 1]
           /\ \A x, y \in DOMAIN b.mapping : b.mapping[x] = b.mapping[y] => x = y
<1> DEFINE f == b.mapping
           n == Len(old)
           m == Len(new)
<1>0. n \in Nat /\ m \in Nat /\ \A x \in DOMAIN f : f[x] \in Nat
  BY BuilderIs
<1>1. ASSUME NEW x \in DOMAIN f
      PROVE  x \in 0 .. m - 1 /\ f[x] \in 0 .. n - 1 /\ new[x + 1] = old[f[x] + 1]
  <2>1. x \in 0 .. m - 1
    BY DEF TableRight
  <2>2. Orig(b, x) = f[x]
    BY DEF Orig
  <2>3. f[x] # NPos
    <3> DEFINE z == f[x]
    <3>1. z \in Nat
      BY <1>0
    <3> HIDE DEF z
    <3>2. z # NPos
      BY <3>1 DEF NPos
    <3> QED
      BY <3>2 DEF z
  <2>4. IF Orig(b, x) = NPos THEN new[x + 1] \notin ToSet(old)
        ELSE Orig(b, x) \in 0 .. n - 1 /\ new[x + 1] = old[Orig(b, x) + 1]
    BY <2>1 DEF TableRight
  <2> QED
    BY ONLY <2>1, <2>2, <2>3, <2>4
<1>2. ASSUME NEW x \in DOMAIN f, NEW y \in DOMAIN f, f[x] = f[y]
      PROVE  x = y
  <2>1. new[x + 1] = new[y + 1]
    <3>1. new[x + 1] = old[f[x] + 1] /\ new[y + 1] = old[f[y] + 1]
      BY <1>1
    <3>2. f[x] = f[y]
      BY <1>2
    <3> HIDE DEF f
    <3> QED
      BY ONLY <3>1, <3>2
  <2>2. x \in 0 .. m - 1 /\ y \in 0 .. m - 1
    BY <1>1
  <2> DEFINE p == x + 1
             q == y + 1
  <2>3. x \in Nat /\ y \in Nat /\ p \in 1 .. m /\ q \in 1 .. m
    BY ONLY <1>0, <2>2
  <2>4. new[p] = new[q]
    BY <2>1
  <2> HIDE DEF p, q
  <2>5. p = q
    BY <2>3, <2>4 DEF NoRepeats
  <2> QED
    BY <2>3, <2>5 DEF p, q
<1> QED
  BY <1>1, <1>2

\* What parse_complete makes of a table's changes.
LEMMA ParsedTableIs ==
    ASSUME NEW b \in Builders, NEW old \in Seq(Nat), NEW new \in Seq(Nat),
           NoRepeats(old), NoRepeats(new), TableRight(b, old, new)
    PROVE  LET c == ParseComplete(b)
           IN  /\ c.modifications = b.modifications
               /\ c.deletions \in Ranges /\ c.insertions \in Ranges
               /\ Del(c) = Del(b) \ Staying(b) /\ Ins(c) = Ins(b) \ Staying(b)
               /\ Len(c.moves) \in Nat /\ DOMAIN c.moves = 1 .. Len(c.moves)
               /\ \A k \in DOMAIN c.moves : /\ c.moves[k].to \in DOMAIN b.mapping \ Staying(b)
                                            /\ c.moves[k].from = b.mapping[c.moves[k].to]
               /\ \A x \in DOMAIN b.mapping \ Staying(b) :
                    \E k \in DOMAIN c.moves : c.moves[k].from = b.mapping[x]
<1> DEFINE N == Len(old) + Len(new)
<1>1. /\ \A x \in DOMAIN b.mapping : x \in 0 .. Len(new) - 1 /\ b.mapping[x] \in 0 .. Len(old) - 1
      /\ \A x, y \in DOMAIN b.mapping : b.mapping[x] = b.mapping[y] => x = y
  BY MappingIs
<1>2. N \in Nat /\ 0 .. Len(new) - 1 \subseteq 0 .. N /\ 0 .. Len(old) - 1 \subseteq 0 .. N
  OBVIOUS
<1> HIDE DEF N
<1>3. \A x \in DOMAIN b.mapping : x \in 0 .. N /\ b.mapping[x] \in 0 .. N
  BY ONLY <1>1, <1>2
<1> QED
  BY ONLY b \in Builders, <1>1, <1>2, <1>3, ParsedIs, Zenon

\* The rows that stay: at a position neither deleted nor inserted, where they
\* were.
StayPut(old, new, D, I) ==
    \A z \in Nat : /\ z < Len(old) /\ z \notin D => z < Len(new) /\ z \notin I /\ new[z + 1] = old[z + 1]
                   /\ z < Len(new) /\ z \notin I => z < Len(old) /\ z \notin D

\* Without the rows that stay, the rows neither deleted nor inserted are the
\* same numbers before and after, and the same rows.
LEMMA TableStays ==
    ASSUME NEW b \in Builders, NEW old \in Seq(Nat), NEW new \in Seq(Nat),
           NoRepeats(old), NoRepeats(new), TableRight(b, old, new),
           NEW D, D = Del(b) \ Staying(b), NEW I, I = Ins(b) \ Staying(b)
    PROVE  StayPut(old, new, D, I)
<1> SUFFICES ASSUME NEW z \in Nat
             PROVE  /\ z < Len(old) /\ z \notin D => z < Len(new) /\ z \notin I /\ new[z + 1] = old[z + 1]
                    /\ z < Len(new) /\ z \notin I => z < Len(old) /\ z \notin D
  BY DEF StayPut
<1> DEFINE f == b.mapping
           n == Len(old)
           m == Len(new)
<1>0. n \in Nat /\ m \in Nat
  OBVIOUS
<1>s. \A x : x \in Staying(b) <=> x \in DOMAIN f /\ f[x] = x
  BY DEF Staying
<1>m. \A x \in DOMAIN f : x \in 0 .. m - 1 /\ f[x] \in 0 .. n - 1 /\ new[x + 1] = old[f[x] + 1]
  BY MappingIs
<1>t. /\ DOMAIN f \subseteq Ins(b)
      /\ \A x \in 0 .. m - 1 : x \in Ins(b) <=> x \in Del(b) \/ x >= n
      /\ \A x \in m .. n - 1 : x \in Del(b)
      /\ \A x \in 0 .. m - 1 : IF Orig(b, x) = NPos THEN new[x + 1] \notin ToSet(old)
                               ELSE Orig(b, x) \in 0 .. n - 1 /\ new[x + 1] = old[Orig(b, x) + 1]
  BY DEF TableRight
<1>st. \A x \in Staying(b) : x \in 0 .. m - 1 /\ x \in 0 .. n - 1 /\ new[x + 1] = old[x + 1] /\ x \in Ins(b)
  BY ONLY <1>s, <1>m, <1>t
<1>a. ASSUME z < m, z \notin Ins(b)
      PROVE  z < n /\ z \notin Del(b) /\ new[z + 1] = old[z + 1]
  <2>1. z \in 0 .. m - 1
    BY <1>0, <1>a
  <2>2. z \notin Del(b) /\ ~(z >= n)
    BY <1>a, <1>t, <2>1
  <2>3. z \notin DOMAIN f
    BY <1>a, <1>t
  <2>4. Orig(b, z) = z
    BY <1>a, <2>3 DEF Orig
  <2>5. z # NPos
    BY DEF NPos
  <2>6. new[z + 1] = old[z + 1]
    BY <1>t, <2>1, <2>4, <2>5
  <2> QED
    BY <1>0, <2>2, <2>6
<1> HIDE DEF f, n, m
<1>1. ASSUME z < n, z \notin D
      PROVE  z < m /\ z \notin I /\ new[z + 1] = old[z + 1]
  <2>1. CASE z \in Staying(b)
    <3>1. z \in 0 .. m - 1 /\ new[z + 1] = old[z + 1]
      BY <1>st, <2>1
    <3> QED
      BY <1>0, <2>1, <3>1
  <2>2. CASE z \notin Staying(b)
    <3>1. z \notin Del(b)
      BY <1>1, <2>2
    <3>2. z < m
      <4>1. SUFFICES ASSUME ~(z < m) PROVE FALSE
        OBVIOUS
      <4>2. z \in m .. n - 1
        BY <1>0, <1>1, <4>1
      <4> QED
        BY <1>t, <3>1, <4>2
    <3>3. z \notin Ins(b)
      <4>1. z \in 0 .. m - 1
        BY <1>0, <3>2
      <4>2. ~(z >= n)
        BY <1>0, <1>1
      <4> QED
        BY ONLY <1>t, <3>1, <4>1, <4>2
    <3> QED
      BY <1>a, <3>2, <3>3
  <2> QED
    BY <2>1, <2>2
<1>2. ASSUME z < m, z \notin I
      PROVE  z < n /\ z \notin D
  <2>1. CASE z \in Staying(b)
    <3>1. z \in 0 .. n - 1
      BY <1>st, <2>1
    <3> QED
      BY <1>0, <2>1, <3>1
  <2>2. CASE z \notin Staying(b)
    <3>1. z \notin Ins(b)
      BY <1>2, <2>2
    <3> QED
      BY <1>2, <1>a, <3>1
  <2> QED
    BY <2>1, <2>2
<1> QED
  BY <1>1, <1>2 DEF n, m

\* The changes of a table apply, ...
LEMMA TableApplies ==
    ASSUME NEW b \in Builders, NEW old \in Seq(Nat), NEW new \in Seq(Nat),
           NoRepeats(old), NoRepeats(new), TableRight(b, old, new)
    PROVE  Applies(old, new, ParseComplete(b))
<1> DEFINE c == ParseComplete(b)
           n == Len(old)
           m == Len(new)
           D == Del(c)
           I == Ins(c)
<1>0. n \in Nat /\ m \in Nat
  OBVIOUS
<1>1. /\ c.deletions \in Ranges /\ c.insertions \in Ranges
      /\ D = Del(b) \ Staying(b) /\ I = Ins(b) \ Staying(b)
  BY ParsedTableIs
<1> HIDE DEF D, I, c
<1>e. D = Del(b) \ Staying(b) /\ I = Ins(b) \ Staying(b)
  BY <1>1
<1>2. \A z \in Nat : /\ z < n /\ z \notin D => z < m /\ z \notin I /\ new[z + 1] = old[z + 1]
                     /\ z < m /\ z \notin I => z < n /\ z \notin D
  <2>1. StayPut(old, new, D, I)
    BY ONLY b \in Builders, old \in Seq(Nat), new \in Seq(Nat), NoRepeats(old), NoRepeats(new),
       TableRight(b, old, new), <1>e, TableStays, Zenon
  <2> QED
    BY <2>1 DEF StayPut
<1> HIDE DEF n, m
<1>3. \A x \in Nat : x <= n /\ x <= m => Rank(D, x) = Rank(I, x)
  <2> SUFFICES ASSUME NEW x \in Nat, x <= n, x <= m
               PROVE  Rank(D, x) = Rank(I, x)
    OBVIOUS
  <2>1. \A y \in 0 .. x - 1 : y \in D <=> y \in I
    <3> TAKE y \in 0 .. x - 1
    <3>1. y \in Nat /\ y < n /\ y < m
      BY <1>0
    <3> QED
      BY ONLY <1>2, <3>1
  <2> QED
    BY <2>1, RankLocal
<1>4. Rank(D, n) = Rank(I, m)
  <2>1. CASE n <= m
    <3>1. Rank(D, n) = Rank(I, n)
      BY <1>0, <1>3, <2>1
    <3>2. \A z \in n .. m - 1 : z \in I
      <4> TAKE z \in n .. m - 1
      <4>1. z \in Nat /\ z < m /\ ~(z < n)
        BY <1>0
      <4> QED
        BY ONLY <1>2, <4>1
    <3>3. Rank(I, m) = Rank(I, n)
      BY ONLY <1>0, <2>1, <3>2, RankFull, Zenon
    <3> QED
      BY <3>1, <3>3
  <2>2. CASE ~(n <= m)
    <3>0. m <= n
      BY <1>0, <2>2
    <3>1. Rank(D, m) = Rank(I, m)
      BY <1>0, <1>3, <3>0
    <3>2. \A z \in m .. n - 1 : z \in D
      <4> TAKE z \in m .. n - 1
      <4>1. z \in Nat /\ z < n /\ ~(z < m)
        BY <1>0
      <4> QED
        BY ONLY <1>2, <4>1
    <3>3. Rank(D, n) = Rank(D, m)
      BY ONLY <1>0, <3>0, <3>2, RankFull, Zenon
    <3> QED
      BY <3>1, <3>3
  <2> QED
    BY <2>1, <2>2
<1>5. ASSUME NEW x \in 0 .. n - 1, NEW y \in 0 .. m - 1, x \notin D, y \notin I, Rank(D, x) = Rank(I, y)
      PROVE  old[x + 1] = new[y + 1]
  <2>1. x \in Nat /\ x < n /\ x <= n /\ y \in Nat
    BY <1>0
  <2>2. x < m /\ x \notin I /\ new[x + 1] = old[x + 1]
    BY <1>2, <1>5, <2>1
  <2>3. Rank(D, x) = Rank(I, x)
    BY <1>0, <1>3, <2>1, <2>2
  <2>4. Rank(I, x) = Rank(I, y)
    BY <1>5, <2>3
  <2>5. x = y
    BY ONLY <1>5, <2>1, <2>2, <2>4, OneOfRank, Zenon
  <2> QED
    BY <2>2, <2>5
<1>6. Applies(old, new, c)
  BY <1>1, <1>4, <1>5, AppliesIs DEF n, m, D, I
<1> QED
  BY <1>6 DEF c

\* ... their moves are of the rows they say, ...
LEMMA TableMoves ==
    ASSUME NEW b \in Builders, NEW old \in Seq(Nat), NEW new \in Seq(Nat),
           NoRepeats(old), NoRepeats(new), TableRight(b, old, new)
    PROVE  MovesTrue(old, new, ParseComplete(b))
<1> DEFINE c == ParseComplete(b)
           f == b.mapping
<1>1. /\ c.deletions \in Ranges /\ c.insertions \in Ranges
      /\ Del(c) = Del(b) \ Staying(b) /\ Ins(c) = Ins(b) \ Staying(b)
      /\ \A k \in DOMAIN c.moves : /\ c.moves[k].to \in DOMAIN f \ Staying(b)
                                   /\ c.moves[k].from = f[c.moves[k].to]
  BY ParsedTableIs
<1>2. /\ \A x \in DOMAIN f : x \in 0 .. Len(new) - 1 /\ f[x] \in 0 .. Len(old) - 1 /\ new[x + 1] = old[f[x] + 1]
      /\ \A x, y \in DOMAIN f : f[x] = f[y] => x = y
  BY MappingIs
<1>3. DOMAIN f \subseteq Ins(b) /\ \A x \in DOMAIN f : f[x] \in Del(b)
  BY DEF TableRight, Origins
<1>4. \A x : x \in Staying(b) <=> x \in DOMAIN f /\ f[x] = x
  BY DEF Staying
<1>5. \A x \in DOMAIN f : x \in Nat /\ f[x] \in Nat
  BY BuilderIs
<1> HIDE DEF c, f
<1>6. ASSUME NEW e \in ToSet(c.moves)
      PROVE  InSet(c.deletions, e.from) /\ InSet(c.insertions, e.to) /\ old[e.from + 1] = new[e.to + 1]
  <2>1. PICK k \in DOMAIN c.moves : c.moves[k] = e
    BY DEF ToSet
  <2> DEFINE x == e.to
             y == e.from
  <2>2. x \in DOMAIN f \ Staying(b) /\ y = f[x]
    BY <1>1, <2>1
  <2> HIDE DEF x, y
  <2>3. y \notin Staying(b)
    BY <1>2, <1>4, <2>2
  <2>4. y \in Del(c) /\ x \in Ins(c) /\ x \in Nat /\ y \in Nat
    BY ONLY <1>1, <1>3, <1>5, <2>2, <2>3
  <2>5. InSet(c.deletions, y) /\ InSet(c.insertions, x)
    BY <1>1, <2>4, InSetMeans DEF Del, Ins
  <2>6. old[y + 1] = new[x + 1]
    BY <1>2, <2>2
  <2> QED
    BY <2>5, <2>6 DEF x, y
<1> QED
  BY <1>6 DEF MovesTrue, c

\* ... and every row is found under its new number.
LEMMA TableNumbers ==
    ASSUME NEW b \in Builders, NEW old \in Seq(Nat), NEW new \in Seq(Nat),
           NoRepeats(old), NoRepeats(new), TableRight(b, old, new), NEW o \in 0 .. Len(old) - 1
    PROVE  NumberNow(ParseComplete(b), o) = FoundAt(new, old[o + 1])
<1> DEFINE c == ParseComplete(b)
           f == b.mapping
           n == Len(old)
           m == Len(new)
           D == Del(c)
           I == Ins(c)
           at == {k \in DOMAIN c.moves : c.moves[k].from = o}
           row == old[o + 1]
<1>0. n \in Nat /\ m \in Nat /\ o \in Nat /\ o < n
  OBVIOUS
<1>1. /\ c.deletions \in Ranges /\ c.insertions \in Ranges
      /\ D = Del(b) \ Staying(b) /\ I = Ins(b) \ Staying(b)
      /\ \A k \in DOMAIN c.moves : /\ c.moves[k].to \in DOMAIN f \ Staying(b)
                                   /\ c.moves[k].from = f[c.moves[k].to]
      /\ \A x \in DOMAIN f \ Staying(b) : \E k \in DOMAIN c.moves : c.moves[k].from = f[x]
  BY ParsedTableIs
<1>2. /\ \A x \in DOMAIN f : x \in 0 .. m - 1 /\ f[x] \in 0 .. n - 1 /\ new[x + 1] = old[f[x] + 1]
  BY MappingIs
<1>3. \A x : x \in Staying(b) <=> x \in DOMAIN f /\ f[x] = x
  BY DEF Staying
<1>n. NumberNow(c, o) = IF InSet(c.deletions, o)
                        THEN IF at = {} THEN NPos ELSE c.moves[CHOOSE k \in at : TRUE].to
                        ELSE ShiftIndex(c.insertions, UnshiftIndex(c.deletions, o))
  BY DEF NumberNow
<1>i. InSet(c.deletions, o) <=> o \in D
  BY <1>1, InSetMeans DEF Del
<1>z. \A z \in Nat : /\ z < n /\ z \notin D => z < m /\ z \notin I /\ new[z + 1] = old[z + 1]
                     /\ z < m /\ z \notin I => z < n /\ z \notin D
  <2> HIDE DEF D, I, c
  <2>1. D = Del(b) \ Staying(b) /\ I = Ins(b) \ Staying(b)
    BY <1>1
  <2>2. StayPut(old, new, D, I)
    BY ONLY b \in Builders, old \in Seq(Nat), new \in Seq(Nat), NoRepeats(old), NoRepeats(new),
       TableRight(b, old, new), <2>1, TableStays, Zenon
  <2> QED
    BY <2>2 DEF StayPut
<1>f. \A x \in 0 .. m - 1 : new[x + 1] = row => FoundAt(new, row) = x
  <2> TAKE x \in 0 .. m - 1
  <2> HAVE new[x + 1] = row
  <2> DEFINE p == x + 1
  <2>1. p \in 1 .. m /\ p - 1 = x /\ row = new[p]
    BY <1>0
  <2> HIDE DEF p, row
  <2>2. PosIn(new, row) = p - 1 /\ row \in ToSet(new)
    BY <2>1, PosInIs
  <2> QED
    BY <2>1, <2>2 DEF FoundAt
<1> HIDE DEF c, D, I, at
<1>4. CASE o \notin D
  <2>1. o < m /\ o \notin I /\ new[o + 1] = row
    BY <1>0, <1>4, <1>z
  <2>2. \A x \in 0 .. o - 1 : x \in D <=> x \in I
    <3> TAKE x \in 0 .. o - 1
    <3>1. x \in Nat /\ x < n /\ x < m
      BY <1>0, <2>1
    <3> HIDE DEF n, m
    <3> QED
      BY ONLY <1>z, <3>1
  <2>3. ShiftIndex(c.insertions, UnshiftIndex(c.deletions, o)) = o
    <3>1. Members(c.deletions) = D /\ Members(c.insertions) = I
      BY DEF D, I, Del, Ins
    <3> QED
      BY <1>0, <1>1, <1>4, <2>1, <2>2, <3>1, SamePlace
  <2>4. NumberNow(c, o) = o
    BY <1>i, <1>n, <1>4, <2>3
  <2>5. FoundAt(new, row) = o
    <3>1. o \in 0 .. m - 1
      BY <1>0, <2>1
    <3> QED
      BY <1>f, <2>1, <3>1
  <2> QED
    BY <2>4, <2>5 DEF c
<1>5. CASE o \in D
  <2>1. NumberNow(c, o) = IF at = {} THEN NPos ELSE c.moves[CHOOSE k \in at : TRUE].to
    BY <1>i, <1>n, <1>5
  <2>2. CASE at # {}
    <3> DEFINE k == CHOOSE k \in at : TRUE
               x == c.moves[k].to
    <3>1. k \in DOMAIN c.moves /\ c.moves[k].from = o
      BY <2>2 DEF at
    <3>2. x \in DOMAIN f /\ f[x] = o
      BY <1>1, <3>1
    <3>3. NumberNow(c, o) = x
      BY <2>1, <2>2
    <3> HIDE DEF x
    <3>4. x \in 0 .. m - 1 /\ new[x + 1] = row
      BY <1>2, <3>2
    <3> QED
      BY <1>f, <3>3, <3>4 DEF c
  <2>3. CASE at = {}
    <3>1. row \notin ToSet(new)
      <4>1. SUFFICES ASSUME row \in ToSet(new) PROVE FALSE
        OBVIOUS
      <4>2. PICK p \in 1 .. m : new[p] = row
        BY <4>1, ToSetIs
      <4> DEFINE x == p - 1
      <4>3. x \in 0 .. m - 1 /\ x \in Nat /\ x + 1 = p
        BY <1>0
      <4> HIDE DEF x
      <4>4. new[x + 1] = row
        BY <4>2, <4>3
      <4>5. row \in ToSet(old)
        <5> DEFINE q == o + 1
        <5>1. q \in 1 .. n /\ old[q] = row
          BY <1>0
        <5> HIDE DEF q, row
        <5> QED
          BY <5>1, ToSetIs
      <4> DEFINE y == Orig(b, x)
      <4>6. y \in 0 .. n - 1 /\ new[x + 1] = old[y + 1]
        <5>1. IF y = NPos THEN new[x + 1] \notin ToSet(old)
              ELSE y \in 0 .. n - 1 /\ new[x + 1] = old[y + 1]
          BY <4>3 DEF TableRight
        <5> HIDE DEF y
        <5> QED
          BY ONLY <5>1, <4>4, <4>5
      <4>7. y = o
        <5> HIDE DEF y
        <5>1. old[y + 1] = old[o + 1]
          BY <4>4, <4>6
        <5> DEFINE p1 == y + 1
                   p2 == o + 1
        <5>2. p1 \in 1 .. n /\ p2 \in 1 .. n /\ y \in Nat /\ old[p1] = old[p2]
          BY <1>0, <4>6, <5>1
        <5> HIDE DEF p1, p2
        <5>3. p1 = p2
          BY <5>2 DEF NoRepeats
        <5> QED
          BY <1>0, <5>2, <5>3 DEF p1, p2
      <4>8. CASE x \in DOMAIN f
        <5>1. f[x] = o
          BY <4>7, <4>8 DEF Orig
        <5>2. x \notin Staying(b)
          <6>1. SUFFICES ASSUME x \in Staying(b) PROVE FALSE
            OBVIOUS
          <6>2. x = o
            BY <1>3, <5>1, <6>1
          <6> QED
            BY <1>1, <1>5, <6>1, <6>2
        <5>3. \E k \in DOMAIN c.moves : c.moves[k].from = f[x]
          BY <1>1, <4>8, <5>2
        <5> QED
          BY <2>3, <5>1, <5>3 DEF at
      <4>9. CASE x \notin DOMAIN f
        <5>0. o # NPos
          BY <1>0 DEF NPos
        <5>1. x \notin Ins(b) /\ x = o
          BY <4>7, <4>9, <5>0 DEF Orig
        <5>2. x \notin Del(b)
          BY <4>3, <5>1 DEF TableRight
        <5> QED
          BY <1>1, <1>5, <5>1, <5>2
      <4> QED
        BY <4>8, <4>9
    <3>2. FoundAt(new, row) = NPos
      BY <3>1 DEF FoundAt
    <3> QED
      BY <2>1, <2>3, <3>2 DEF c
  <2> QED
    BY <2>2, <2>3
<1> QED
  BY <1>4, <1>5

-----------------------------------------------------------------------------
(* The instructions on a table, one by one.                                *)

\* The rows inserted and deleted of a table that had n rows and has m.
TableShape(I, D, n, m) ==
    /\ I \subseteq 0 .. m - 1
    /\ \A x \in 0 .. m - 1 : x \in I <=> x \in D \/ x >= n
    /\ \A x \in m .. n - 1 : x \in D

\* The row has number o in the old table, or is new.
Traced(o, row, old) ==
    IF o = NPos THEN row \notin ToSet(old) ELSE o \in 0 .. Len(old) - 1 /\ row = old[o + 1]

\* TableRight in these terms.
LEMMA TableRightIs ==
    ASSUME NEW b, NEW old, NEW new
    PROVE  TableRight(b, old, new) <=>
             /\ DOMAIN b.mapping \subseteq Ins(b)
             /\ TableShape(Ins(b), Del(b), Len(old), Len(new))
             /\ Origins(b, Del(b))
             /\ \A x \in 0 .. Len(new) - 1 : Traced(Orig(b, x), new[x + 1], old)
BY DEF TableRight, TableShape, Traced

\* What the operations of a table expect.
LEMMA RightInTable ==
    ASSUME NEW b, NEW old \in Seq(Nat), NEW new \in Seq(Nat), TableRight(b, old, new),
           NEW last, last = Len(new) - 1
    PROVE  InTable(b, last)
<1> DEFINE n == Len(old)
           m == Len(new)
<1>0. n \in Nat /\ m \in Nat /\ last = m - 1
  OBVIOUS
<1>1. DOMAIN b.mapping \subseteq Ins(b) /\ TableShape(Ins(b), Del(b), n, m)
  BY TableRightIs
<1> HIDE DEF n, m
<1>2. Ins(b) \subseteq 0 .. last /\ \A x \in 0 .. last : x \in Ins(b) <=> x \in Del(b) \/ x >= n
  BY <1>0, <1>1 DEF TableShape
<1>3. ASSUME NEW y \in 0 .. last, y \notin Ins(b)
      PROVE  y \notin Del(b) /\ \A x \in 0 .. y - 1 : x \in Ins(b) <=> x \in Del(b)
  <2>1. y \notin Del(b) /\ ~(y >= n)
    BY <1>2, <1>3
  <2>2. ASSUME NEW x \in 0 .. y - 1
        PROVE  x \in Ins(b) <=> x \in Del(b)
    <3>1. x \in 0 .. last /\ ~(x >= n)
      BY <1>0, <1>3, <2>1
    <3> QED
      BY ONLY <1>2, <3>1
  <2> QED
    BY <2>1, <2>2
<1> QED
  BY <1>1, <1>2, <1>3 DEF InTable

\* A row of the table after an operation is one of those before it.
LEMMA TableFrom ==
    ASSUME NEW b, NEW c, NEW old, NEW s, NEW t,
           TableRight(b, old, s), DOMAIN c.mapping \subseteq Ins(c), Origins(c, Del(c)),
           TableShape(Ins(c), Del(c), Len(old), Len(t)),
           \A x \in 0 .. Len(t) - 1 : \E y \in 0 .. Len(s) - 1 : Orig(c, x) = Orig(b, y) /\ t[x + 1] = s[y + 1]
    PROVE  TableRight(c, old, t)
<1>1. \A y \in 0 .. Len(s) - 1 : Traced(Orig(b, y), s[y + 1], old)
  BY TableRightIs
<1>2. ASSUME NEW x \in 0 .. Len(t) - 1
      PROVE  Traced(Orig(c, x), t[x + 1], old)
  <2>1. PICK y \in 0 .. Len(s) - 1 : Orig(c, x) = Orig(b, y) /\ t[x + 1] = s[y + 1]
    BY <1>2
  <2> QED
    BY <1>1, <2>1
<1> QED
  BY <1>2, TableRightIs

\* The last row gone, or in another's place.
LEMMA ShapeOver ==
    ASSUME NEW I, NEW D, NEW n \in Nat, NEW m \in Nat, TableShape(I, D, n, m),
           NEW last, last = m - 1, NEW row \in 0 .. last
    PROVE  /\ row < last => TableShape((I \ {last}) \cup {row}, D \cup ({row, last} \ I), n, last)
           /\ row = last => TableShape(I \ {last}, D \cup ({last} \ I), n, last)
<1>1. /\ I \subseteq 0 .. last
      /\ \A x \in 0 .. last : x \in I <=> x \in D \/ x >= n
      /\ \A x \in last + 1 .. n - 1 : x \in D
  BY DEF TableShape
<1>2. last \in Nat /\ row \in Nat /\ row <= last
  OBVIOUS
<1>3. ASSUME row < last
      PROVE  TableShape((I \ {last}) \cup {row}, D \cup ({row, last} \ I), n, last)
  <2> DEFINE I2 == (I \ {last}) \cup {row}
             D2 == D \cup ({row, last} \ I)
  <2>1. I2 \subseteq 0 .. last - 1
    BY <1>1, <1>2, <1>3
  <2>2. ASSUME NEW x \in 0 .. last - 1
        PROVE  x \in I2 <=> x \in D2 \/ x >= n
    <3>1. x \in 0 .. last /\ x # last
      BY <1>2
    <3> QED
      BY <1>1, <3>1
  <2>3. ASSUME NEW x \in last .. n - 1
        PROVE  x \in D2
    <3>1. x = last => x \in 0 .. last /\ ~(x >= n)
      BY <1>2
    <3>2. x # last => x \in last + 1 .. n - 1
      BY <1>2
    <3> QED
      BY <1>1, <3>1, <3>2
  <2> QED
    BY <2>1, <2>2, <2>3 DEF TableShape
<1>4. ASSUME row = last
      PROVE  TableShape(I \ {last}, D \cup ({last} \ I), n, last)
  <2> DEFINE I2 == I \ {last}
             D2 == D \cup ({last} \ I)
  <2>1. I2 \subseteq 0 .. last - 1
    BY <1>1, <1>2
  <2>2. ASSUME NEW x \in 0 .. last - 1
        PROVE  x \in I2 <=> x \in D2 \/ x >= n
    <3>1. x \in 0 .. last /\ x # last
      BY <1>2
    <3> QED
      BY <1>1, <3>1
  <2>3. ASSUME NEW x \in last .. n - 1
        PROVE  x \in D2
    <3>1. x = last => x \in 0 .. last /\ ~(x >= n)
      BY <1>2
    <3>2. x # last => x \in last + 1 .. n - 1
      BY <1>2
    <3> QED
      BY <1>1, <3>1, <3>2
  <2> QED
    BY <2>1, <2>2, <2>3 DEF TableShape
<1> QED
  BY <1>3, <1>4

\* Two rows with each other's number.
LEMMA ShapeSwapped ==
    ASSUME NEW I, NEW D, NEW n \in Nat, NEW m \in Nat, TableShape(I, D, n, m),
           NEW row1 \in 0 .. m - 1, NEW row2 \in 0 .. m - 1
    PROVE  TableShape(I \cup {row1, row2}, D \cup ({row1, row2} \ I), n, m)
BY DEF TableShape

\* The rows of t: those of s with the last in place of the one at row.
OverRows(s, t, row) ==
    /\ t \in Seq(Nat) /\ Len(t) = Len(s) - 1
    /\ \A x \in 0 .. Len(s) - 2 : t[x + 1] = IF x = row THEN s[Len(s)] ELSE s[x + 1]

\* One row of s has taken another's place in u: the row at from is at to too.
CopiedTo(s, u, last, from, to) ==
    /\ u \in Seq(Nat) /\ Len(u) = Len(s)
    /\ \A x \in 0 .. last : u[x + 1] = IF x = to THEN s[from + 1] ELSE s[x + 1]

\* d is modified where b is, and at to if at from.
TakesOver(b, d, from, to) == \A y : y \in Mod(d) <=> y \in Mod(b) \/ (y = to /\ from \in Mod(b))

\* OverLast does so.
LEMMA OverLastIs ==
    ASSUME NEW s \in Seq(Nat), NEW row \in 0 .. Len(s) - 1
    PROVE  OverRows(s, OverLast(s, row), row)
<1> DEFINE n == Len(s)
           p == row + 1
           e == s[n]
           u == [s EXCEPT ![p] = e]
           t == SubSeq(u, 1, n - 1)
<1>0. n \in Nat /\ n >= 1 /\ p \in 1 .. n /\ e \in Nat /\ row \in Nat
  OBVIOUS
<1>1. OverLast(s, row) = t
  <2>1. Last(s) = e
    BY DEF Last
  <2>2. Len(u) = n
    OBVIOUS
  <2>3. OverLast(s, row) = Front(u)
    BY <2>1 DEF OverLast
  <2> QED
    BY <2>2, <2>3 DEF Front
<1>2. u \in Seq(Nat) /\ Len(u) = n /\ \A q \in 1 .. n : u[q] = IF q = p THEN e ELSE s[q]
  BY <1>0
<1> HIDE DEF u, e
<1>3. t \in Seq(Nat) /\ Len(t) = n - 1 /\ \A q \in 1 .. n - 1 : t[q] = u[q]
  <2> HIDE DEF n
  <2> QED
    BY <1>0, <1>2
<1> HIDE DEF t
<1>4. ASSUME NEW x \in 0 .. n - 2
      PROVE  t[x + 1] = IF x = row THEN e ELSE s[x + 1]
  <2> HIDE DEF n, p
  <2> DEFINE q == x + 1
  <2>1. q \in 1 .. n - 1 /\ q \in 1 .. n
    BY <1>0
  <2>2. q = p <=> x = row
    BY <1>0 DEF p
  <2> HIDE DEF q
  <2>3. t[q] = IF q = p THEN e ELSE s[q]
    BY <1>2, <1>3, <2>1
  <2> QED
    BY <2>2, <2>3 DEF q
<1>5. OverRows(s, t, row)
  BY <1>3, <1>4 DEF OverRows, e
<1> QED
  BY <1>1, <1>5

\* Rows after one was deleted by a move over, of a table whose row at that
\* number does not matter.
LEMMA TableOver ==
    ASSUME NEW b \in Builders, NEW old \in Seq(Nat), NEW s \in Seq(Nat),
           NEW last, last = Len(s) - 1, NEW row \in 0 .. last,
           DOMAIN b.mapping \subseteq Ins(b), Origins(b, Del(b) \cup ({row} \ Ins(b))),
           TableShape(Ins(b), Del(b), Len(old), Len(s)), InTable(b, last),
           \A x \in 0 .. last : x # row => Traced(Orig(b, x), s[x + 1], old),
           NEW t, OverRows(s, t, row)
    PROVE  LET c == MoveOver(b, row, last, TRUE)
           IN  /\ c \in Builders /\ c.modifications = ModsOver(b, row, last)
               /\ TableRight(c, old, t)
<1> DEFINE c == MoveOver(b, row, last, TRUE)
           n == Len(old)
           m == Len(s)
           y(x) == IF x = row THEN last ELSE x
<1>0. n \in Nat /\ m \in Nat /\ last \in Nat /\ row \in Nat /\ row <= last /\ last = m - 1 /\ m = last + 1
  OBVIOUS
<1>1. /\ t \in Seq(Nat) /\ Len(t) = last
      /\ \A x \in 0 .. last - 1 : t[x + 1] = IF x = row THEN s[m] ELSE s[x + 1]
  <2>1. Len(s) - 2 = last - 1
    BY <1>0
  <2> QED
    BY <1>0, <2>1 DEF OverRows
<1>s. TableShape(Ins(b), Del(b), n, m)
  OBVIOUS
<1> HIDE DEF c, n, m
<1>2. CASE row < last
  <2>1. /\ c \in Builders /\ c.modifications = ModsOver(b, row, last)
        /\ Ins(c) = (Ins(b) \ {last}) \cup {row}
        /\ Del(c) = Del(b) \cup ({row, last} \ Ins(b))
        /\ DOMAIN c.mapping \subseteq Ins(c)
        /\ Origins(c, Del(c))
        /\ Orig(c, row) = Orig(b, last)
        /\ \A x \in 0 .. last - 1 : x # row => Orig(c, x) = Orig(b, x)
    <3>1. Over(b, MoveOver(b, row, last, TRUE), row, last)
      BY ONLY <1>0, <1>2, b \in Builders, InTable(b, last),
         Origins(b, Del(b) \cup ({row} \ Ins(b))), MovedOver
    <3> QED
      BY ONLY <3>1 DEF c, Over
  <2>2. TableShape(Ins(c), Del(c), n, last)
    <3>1. TableShape((Ins(b) \ {last}) \cup {row}, Del(b) \cup ({row, last} \ Ins(b)), n, last)
      BY ONLY <1>0, <1>2, <1>s, row \in 0 .. last, ShapeOver, Zenon
    <3> QED
      BY <2>1, <3>1
  <2>3. ASSUME NEW x \in 0 .. last - 1
        PROVE  Traced(Orig(c, x), t[x + 1], old)
    <3>1. y(x) \in 0 .. last /\ y(x) # row
      BY <1>0, <1>2
    <3>2. t[x + 1] = s[y(x) + 1]
      BY <1>0, <1>1
    <3>3. Orig(c, x) = Orig(b, y(x))
      BY <2>1
    <3> HIDE DEF y
    <3> QED
      BY <3>1, <3>2, <3>3
  <2>4. TableRight(c, old, t)
    BY <1>1, <2>1, <2>2, <2>3, TableRightIs DEF n
  <2> QED
    BY <2>1, <2>4 DEF c
<1>3. CASE row = last
  <2>0. Origins(b, Del(b) \cup ({last} \ Ins(b)))
    BY <1>3
  <2>1. /\ c \in Builders /\ c.modifications = ModsOver(b, row, last)
        /\ Ins(c) = Ins(b) \ {last}
        /\ Del(c) = Del(b) \cup ({last} \ Ins(b))
        /\ DOMAIN c.mapping \subseteq Ins(c)
        /\ Origins(c, Del(c))
        /\ \A x \in 0 .. last - 1 : Orig(c, x) = Orig(b, x)
    <3>0. LET e == MoveOver(b, last, last, TRUE)
          IN  /\ e \in Builders
              /\ e.modifications = ModsOver(b, last, last) /\ e.moves = b.moves
              /\ Ins(e) = Ins(b) \ {last}
              /\ Del(e) = Del(b) \cup ({last} \ Ins(b))
              /\ DOMAIN e.mapping \subseteq Ins(e)
              /\ Origins(e, Del(e))
              /\ \A x \in 0 .. last - 1 : Orig(e, x) = Orig(b, x)
      BY ONLY <1>0, <2>0, b \in Builders, InTable(b, last), MovedOff, ZenonT(60)
    <3>1. c = MoveOver(b, last, last, TRUE)
      BY <1>3 DEF c
    <3>2. ModsOver(b, row, last) = ModsOver(b, last, last)
      BY <1>3
    <3> QED
      BY ONLY <3>0, <3>1, <3>2
  <2>2. TableShape(Ins(c), Del(c), n, last)
    <3>1. TableShape(Ins(b) \ {last}, Del(b) \cup ({last} \ Ins(b)), n, last)
      BY ONLY <1>0, <1>3, <1>s, row \in 0 .. last, ShapeOver, Zenon
    <3> QED
      BY <2>1, <3>1
  <2>3. ASSUME NEW x \in 0 .. last - 1
        PROVE  Traced(Orig(c, x), t[x + 1], old)
    <3>1. x \in 0 .. last /\ x # row
      BY <1>0, <1>3
    <3> QED
      BY <1>1, <2>1, <3>1
  <2>4. TableRight(c, old, t)
    BY <1>1, <2>1, <2>2, <2>3, TableRightIs DEF n
  <2> QED
    BY <2>1, <2>4 DEF c
<1>4. row < last \/ row = last
  BY <1>0
<1> QED
  BY <1>2, <1>3, <1>4 DEF c

\* erase_rows
LEMMA TableErased ==
    ASSUME NEW b \in Builders, NEW old \in Seq(Nat), NEW s \in Seq(Nat), TableRight(b, old, s),
           NEW last, last = Len(s) - 1, NEW row \in 0 .. last, NEW t, OverRows(s, t, row)
    PROVE  LET c == MoveOver(b, row, last, TRUE)
           IN  /\ c \in Builders /\ c.modifications = ModsOver(b, row, last)
               /\ TableRight(c, old, t)
<1>1. InTable(b, last)
  BY RightInTable
<1>2. /\ DOMAIN b.mapping \subseteq Ins(b) /\ TableShape(Ins(b), Del(b), Len(old), Len(s))
      /\ Origins(b, Del(b))
      /\ \A x \in 0 .. Len(s) - 1 : Traced(Orig(b, x), s[x + 1], old)
  BY TableRightIs
<1>3. Origins(b, Del(b) \cup ({row} \ Ins(b)))
  BY <1>2 DEF Origins
<1>4. \A x \in 0 .. last : x # row => Traced(Orig(b, x), s[x + 1], old)
  BY <1>2
<1> QED
  BY <1>1, <1>2, <1>3, <1>4, TableOver

\* swap_rows
LEMMA TableSwapped ==
    ASSUME NEW b \in Builders, NEW old \in Seq(Nat), NEW s \in Seq(Nat), TableRight(b, old, s),
           NEW row1 \in 0 .. Len(s) - 1, NEW row2 \in 0 .. Len(s) - 1, row1 < row2,
           NEW t, t \in Seq(Nat), Len(t) = Len(s),
           \A x \in 0 .. Len(s) - 1 : t[x + 1] = s[Swapped(x, row1, row2) + 1]
    PROVE  LET c == SwapRows(b, row1, row2, TRUE)
           IN  /\ c \in Builders /\ c.modifications = ModsSwapped(b, row1, row2)
               /\ TableRight(c, old, t)
<1> DEFINE c == SwapRows(b, row1, row2, TRUE)
           n == Len(old)
           m == Len(s)
           last == m - 1
<1>0. n \in Nat /\ m \in Nat /\ last \in Nat /\ m = last + 1 /\ row1 \in 0 .. last /\ row2 \in 0 .. last
  OBVIOUS
<1>1. InTable(b, last)
  BY RightInTable
<1>2. /\ DOMAIN b.mapping \subseteq Ins(b) /\ TableShape(Ins(b), Del(b), n, m)
      /\ Origins(b, Del(b))
  BY TableRightIs
<1> HIDE DEF c, last
<1>3. c \in Builders /\ c.modifications = ModsSwapped(b, row1, row2) /\ Swaps(b, c, last, row1, row2)
  BY <1>0, <1>1, <1>2, SwapRowsIs DEF c
<1>4. TableShape(Ins(c), Del(c), n, m)
  <2>1. TableShape(Ins(b) \cup {row1, row2}, Del(b) \cup ({row1, row2} \ Ins(b)), n, m)
    BY <1>0, <1>2, ShapeSwapped
  <2> QED
    BY <1>3, <2>1 DEF Swaps
<1>5. ASSUME NEW x \in 0 .. m - 1
      PROVE  \E y \in 0 .. m - 1 : Orig(c, x) = Orig(b, y) /\ t[x + 1] = s[y + 1]
  <2>1. x \in 0 .. last /\ Swapped(x, row1, row2) \in 0 .. m - 1
    BY <1>0 DEF Swapped
  <2>2. Orig(c, x) = Orig(b, Swapped(x, row1, row2))
    BY <1>3, <2>1 DEF Swaps
  <2> QED
    BY <2>1, <2>2
<1>6. DOMAIN c.mapping \subseteq Ins(c) /\ Origins(c, Del(c))
  BY <1>3 DEF Swaps
<1>7. TableRight(c, old, t)
  BY <1>4, <1>5, <1>6, TableFrom
<1> QED
  BY <1>3, <1>7 DEF c

\* merge_rows and the deletion that follows: u are the rows in between.
MergedIn(b, old, s, last, from, to, u, t) ==
    /\ b \in Builders /\ old \in Seq(Nat) /\ s \in Seq(Nat) /\ TableRight(b, old, s)
    /\ last = Len(s) - 1 /\ from \in 0 .. last /\ to \in 0 .. last /\ from # to
    /\ to \notin DOMAIN b.mapping /\ s[to + 1] \notin ToSet(old)
    /\ CopiedTo(s, u, last, from, to) /\ OverRows(u, t, from)

\* It leaves the changes right.
LEMMA TableMerged ==
    ASSUME NEW b, NEW old, NEW s, NEW last, NEW from, NEW to, NEW u, NEW t,
           MergedIn(b, old, s, last, from, to, u, t)
    PROVE  LET d == Subsume(b, from, to, TRUE)
               c == MoveOver(d, from, last, TRUE)
           IN  /\ d \in Builders /\ TakesOver(b, d, from, to)
               /\ c \in Builders /\ c.modifications = ModsOver(d, from, last)
               /\ TableRight(c, old, t)
<1> DEFINE d == Subsume(b, from, to, TRUE)
           n == Len(old)
           m == Len(s)
<1>h. /\ b \in Builders /\ old \in Seq(Nat) /\ s \in Seq(Nat) /\ TableRight(b, old, s)
      /\ last = Len(s) - 1 /\ from \in 0 .. last /\ to \in 0 .. last /\ from # to
      /\ to \notin DOMAIN b.mapping /\ s[to + 1] \notin ToSet(old)
      /\ CopiedTo(s, u, last, from, to) /\ OverRows(u, t, from)
  BY DEF MergedIn
<1> USE <1>h
<1>0. n \in Nat /\ m \in Nat /\ last \in Nat /\ m = last + 1 /\ from \in Nat /\ to \in Nat
  OBVIOUS
<1>u. /\ u \in Seq(Nat) /\ Len(u) = Len(s)
      /\ \A x \in 0 .. last : u[x + 1] = IF x = to THEN s[from + 1] ELSE s[x + 1]
  BY DEF CopiedTo
<1>1. InTable(b, last)
  BY RightInTable
<1>2. /\ DOMAIN b.mapping \subseteq Ins(b) /\ TableShape(Ins(b), Del(b), n, m)
      /\ Origins(b, Del(b))
      /\ \A x \in 0 .. m - 1 : Traced(Orig(b, x), s[x + 1], old)
  BY TableRightIs
<1>3. to \in Ins(b)
  <2>1. SUFFICES ASSUME to \notin Ins(b) PROVE FALSE
    OBVIOUS
  <2>2. Orig(b, to) = to /\ to # NPos
    BY <1>0, <2>1 DEF Orig, NPos
  <2>3. to \in 0 .. n - 1 /\ s[to + 1] = old[to + 1]
    BY <1>2, <2>2 DEF Traced
  <2> DEFINE p == to + 1
  <2>a. p \in 1 .. n
    <3> HIDE DEF n
    <3> QED
      BY <1>0, <2>3
  <2>4. p \in 1 .. n /\ s[p] = old[p]
    BY <2>3, <2>a
  <2> HIDE DEF p
  <2>5. old[p] \in ToSet(old)
    BY <2>4, ToSetIs
  <2> QED
    BY <2>4, <2>5 DEF p
<1> HIDE DEF d
<1>4. /\ d \in Builders
      /\ \A y : y \in Mod(d) <=> y \in Mod(b) \/ (y = to /\ from \in Mod(b))
      /\ Ins(d) = Ins(b) /\ Del(d) = Del(b)
      /\ DOMAIN d.mapping \subseteq Ins(d)
      /\ Origins(d, Del(d) \cup ({from} \ Ins(d)))
      /\ Orig(d, to) = Orig(b, from)
      /\ \A x \in 0 .. last : x # from /\ x # to => Orig(d, x) = Orig(b, x)
  <2>1. Subsumed(b, Subsume(b, from, to, TRUE), last, from, to)
    BY ONLY <1>0, <1>1, <1>2, <1>3, b \in Builders, from \in 0 .. last, to \in 0 .. last, from # to,
       to \notin DOMAIN b.mapping, SubsumeIs
  <2> QED
    BY ONLY <2>1 DEF d, Subsumed
<1>5. InTable(d, last)
  BY <1>1, <1>4 DEF InTable
<1>6. ASSUME NEW x \in 0 .. last, x # from
      PROVE  Traced(Orig(d, x), u[x + 1], old)
  <2>1. CASE x = to
    BY <1>2, <1>4, <1>u, <2>1
  <2>2. CASE x # to
    <3>1. Orig(d, x) = Orig(b, x) /\ u[x + 1] = s[x + 1]
      BY <1>4, <1>6, <1>u, <2>2
    <3> QED
      BY <1>2, <3>1
  <2> QED
    BY <2>1, <2>2
<1>7. TableShape(Ins(d), Del(d), Len(old), Len(u)) /\ last = Len(u) - 1
  BY <1>2, <1>4, <1>u
<1>8. LET c == MoveOver(d, from, last, TRUE)
      IN  /\ c \in Builders /\ c.modifications = ModsOver(d, from, last)
          /\ TableRight(c, old, t)
  BY <1>4, <1>5, <1>6, <1>7, <1>u, TableOver
<1> QED
  BY <1>4, <1>8 DEF d, TakesOver

\* insert_empty_rows
LEMMA TableGrown ==
    ASSUME NEW b \in Builders, NEW old \in Seq(Nat), NEW s \in Seq(Nat), TableRight(b, old, s),
           NEW k \in Nat, k > 0, NEW t, t \in Seq(Nat), Len(t) = Len(s) + k,
           \A x \in 0 .. Len(s) - 1 : t[x + 1] = s[x + 1],
           \A x \in Len(s) .. Len(t) - 1 : t[x + 1] \notin ToSet(old)
    PROVE  LET c == Insert(b, Len(s), k, TRUE)
           IN  c \in Builders /\ TableRight(c, old, t)
<1> DEFINE m == Len(s)
           n == Len(old)
           c == Insert(b, m, k, TRUE)
<1>0. n \in Nat /\ m \in Nat
  OBVIOUS
<1>1. /\ DOMAIN b.mapping \subseteq Ins(b) /\ TableShape(Ins(b), Del(b), n, m)
      /\ Origins(b, Del(b))
      /\ \A x \in 0 .. m - 1 : Traced(Orig(b, x), s[x + 1], old)
  BY TableRightIs
<1> HIDE DEF m, n
<1>2. Ins(b) \subseteq 0 .. m - 1 /\ \A y \in DOMAIN b.mapping : y < m
  BY <1>0, <1>1 DEF TableShape
<1>3. /\ c \in Builders /\ c.deletions = b.deletions
      /\ \A z \in Nat : z \in Ins(c) <=>
           \/ z < m /\ z \in Ins(b)
           \/ m <= z - k /\ z - k \in Ins(b)
           \/ m <= z /\ z < m + k
      /\ c.mapping = b.mapping
  <2> HIDE DEF c
  <2>1. TRUE \in BOOLEAN
    OBVIOUS
  <2> QED
    BY <1>0, <1>2, <2>1, InsertIs, ZenonT(60) DEF c
<1>b. Ins(c) \subseteq Nat
  BY <1>3, BuilderIs
<1> HIDE DEF c
<1>4. Del(c) = Del(b)
  BY <1>3 DEF Del
<1>5. \A z \in Nat : z \in Ins(c) <=> z \in Ins(b) \/ (m <= z /\ z < m + k)
  BY <1>0, <1>2, <1>3
<1>6. DOMAIN c.mapping \subseteq Ins(c) /\ Origins(c, Del(c))
  <2>1. DOMAIN c.mapping \subseteq Ins(c)
    BY <1>0, <1>1, <1>2, <1>3, <1>5
  <2> QED
    BY <1>1, <1>3, <1>4, <2>1 DEF Origins
<1>7. TableShape(Ins(c), Del(c), n, m + k)
  <2>1. Ins(c) \subseteq 0 .. (m + k) - 1
    BY <1>0, <1>2, <1>5, <1>b
  <2>2. ASSUME NEW x \in 0 .. (m + k) - 1
        PROVE  x \in Ins(c) <=> x \in Del(c) \/ x >= n
    <3>1. CASE x < m
      <4>1. x \in 0 .. m - 1 /\ x \in Nat /\ ~(m <= x)
        BY <1>0, <3>1
      <4> QED
        BY <1>1, <1>4, <1>5, <4>1 DEF TableShape
    <3>2. CASE ~(x < m)
      <4>1. x \in Ins(c)
        BY <1>0, <1>5, <3>2
      <4>2. x >= n \/ x \in m .. n - 1
        BY <1>0, <3>2
      <4>3. x >= n \/ x \in Del(c)
        BY <1>1, <1>4, <4>2 DEF TableShape
      <4> QED
        BY <4>1, <4>3
    <3> QED
      BY <3>1, <3>2
  <2>3. \A x \in m + k .. n - 1 : x \in m .. n - 1
    BY <1>0
  <2>4. \A x \in m + k .. n - 1 : x \in Del(c)
    BY <1>1, <1>4, <2>3 DEF TableShape
  <2> QED
    BY <2>1, <2>2, <2>4 DEF TableShape
<1>8. ASSUME NEW x \in 0 .. (m + k) - 1
      PROVE  Traced(Orig(c, x), t[x + 1], old)
  <2>1. CASE x < m
    <3>1. x \in 0 .. m - 1 /\ x \in Nat
      BY <1>0, <2>1
    <3>2. t[x + 1] = s[x + 1]
      BY <3>1 DEF m
    <3>3. x \in Ins(c) <=> x \in Ins(b)
      BY <1>0, <1>5, <2>1, <3>1
    <3>4. Orig(c, x) = Orig(b, x)
      BY <1>3, <3>3 DEF Orig
    <3> QED
      BY <1>1, <3>1, <3>2, <3>4
  <2>2. CASE ~(x < m)
    <3>1. x \in Ins(c) /\ x \in Nat
      BY <1>0, <1>5, <2>2
    <3>2. x \notin DOMAIN c.mapping
      BY <1>2, <1>3, <2>2
    <3>3. Orig(c, x) = NPos
      BY <3>1, <3>2 DEF Orig
    <3>4. x \in Len(s) .. Len(t) - 1
      BY <1>0, <2>2 DEF m
    <3> QED
      BY <3>3, <3>4 DEF Traced
  <2> QED
    BY <2>1, <2>2
<1>9. TableRight(c, old, t)
  BY <1>6, <1>7, <1>8, TableRightIs DEF m, n
<1> QED
  BY <1>3, <1>9 DEF c, m

\* clear of a table: its old size is not known.
LEMMA TableCleared ==
    ASSUME NEW b, Huge \in Nat, NEW old \in Seq(Nat), Len(old) <= Huge, NEW t, t = << >>
    PROVE  LET c == Clear(b, Huge)
           IN  c \in Builders /\ Mod(c) = {} /\ TableRight(c, old, t)
<1> DEFINE c == Clear(b, Huge)
<1>1. /\ c \in Builders /\ Del(c) = 0 .. Huge - 1 /\ Ins(c) = {} /\ Mod(c) = {}
      /\ DOMAIN c.mapping = {}
  BY ClearTableIs
<1> HIDE DEF c
<1>2. Len(t) = 0
  OBVIOUS
<1>3. \A x \in 0 .. Len(old) - 1 : x \in 0 .. Huge - 1
  OBVIOUS
<1>4. TableShape(Ins(c), Del(c), Len(old), Len(t))
  BY <1>1, <1>2, <1>3 DEF TableShape
<1>5. Origins(c, Del(c)) /\ DOMAIN c.mapping \subseteq Ins(c)
  BY <1>1 DEF Origins
<1>6. TableRight(c, old, t)
  BY <1>2, <1>4, <1>5, TableRightIs
<1> QED
  BY <1>1, <1>6 DEF c

\* Nothing has happened yet.
LEMMA TableUnchanged ==
    ASSUME NEW old \in Seq(Nat)
    PROVE  TableRight(NoChange, old, old)
<1> DEFINE n == Len(old)
<1>0. n \in Nat
  OBVIOUS
<1>1. /\ Del(NoChange) = {} /\ Ins(NoChange) = {} /\ DOMAIN NoChange.mapping = {}
  BY NoChangeIs
<1>2. TableShape(Ins(NoChange), Del(NoChange), n, n)
  BY <1>0, <1>1 DEF TableShape
<1>3. ASSUME NEW x \in 0 .. n - 1
      PROVE  Traced(Orig(NoChange, x), old[x + 1], old)
  <2>1. Orig(NoChange, x) = x /\ x # NPos
    BY <1>0, <1>1 DEF Orig, NPos
  <2> QED
    BY <2>1 DEF Traced
<1> QED
  BY <1>1, <1>2, <1>3, TableRightIs DEF Origins

\* An operation that leaves all but the modifications as they are.
LEMMA TableModified ==
    ASSUME NEW b, NEW c, c.deletions = b.deletions, c.insertions = b.insertions, c.mapping = b.mapping,
           NEW old, NEW s, TableRight(b, old, s)
    PROVE  TableRight(c, old, s)
<1>1. Del(c) = Del(b) /\ Ins(c) = Ins(b) /\ \A x : Orig(c, x) = Orig(b, x)
  BY DEF Del, Ins, Orig
<1> QED
  BY <1>1, TableRightIs DEF Origins

-----------------------------------------------------------------------------
(* The modifications: a position is one exactly if its row was modified.   *)

\* The members of V are the positions of the rows in F.
Marks(V, s, F) == V \subseteq 0 .. Len(s) - 1 /\ \A x \in 0 .. Len(s) - 1 : x \in V <=> s[x + 1] \in F

\* A position i is put in, a member if in is true.
MarkPut(S, V, i, in) ==
    \A z \in Nat : z \in V <=> (z < i /\ z \in S) \/ (z = i /\ in) \/ (z > i /\ z - 1 \in S)

\* The modifications are the positions of the rows of F.
ModsRight(b, s, F) ==
    /\ Mod(b) \subseteq 0 .. Len(s) - 1
    /\ \A x \in 0 .. Len(s) - 1 : x \in Mod(b) <=> s[x + 1] \in F

\* Rows that are gone do not matter.
LEMMA ModsWithin ==
    ASSUME NEW b, NEW s \in Seq(Nat), NEW F, ModsRight(b, s, F)
    PROVE  ModsRight(b, s, F \cap ToSet(s))
<1>1. ASSUME NEW x \in 0 .. Len(s) - 1
      PROVE  s[x + 1] \in ToSet(s)
  <2> DEFINE p == x + 1
  <2>1. p \in 1 .. Len(s)
    OBVIOUS
  <2> HIDE DEF p
  <2>2. s[p] \in ToSet(s)
    BY <2>1, ToSetIs
  <2> QED
    BY <2>2 DEF p
<1> QED
  BY <1>1 DEF ModsRight

\* modify.
LEMMA ModsSet ==
    ASSUME NEW b \in Builders, NEW s \in Seq(Nat), NoRepeats(s), NEW F, ModsRight(b, s, F),
           NEW i \in 0 .. Len(s) - 1
    PROVE  ModsRight(Modify(b, i), s, F \cup {s[i + 1]})
<1> DEFINE c == Modify(b, i)
           n == Len(s)
<1>0. n \in Nat /\ i \in Nat /\ i <= n - 1
  OBVIOUS
<1>1. Mod(c) = Mod(b) \cup {i}
  BY <1>0, ModifyIs
<1> HIDE DEF c
<1>2. \A x \in 0 .. n - 1 : s[x + 1] = s[i + 1] => x = i
  <2> TAKE x \in 0 .. n - 1
  <2> HAVE s[x + 1] = s[i + 1]
  <2> DEFINE p == x + 1
             q == i + 1
  <2>1. p \in 1 .. n /\ q \in 1 .. n
    BY <1>0
  <2> HIDE DEF p, q
  <2>2. s[p] = s[q]
    BY DEF p, q
  <2>3. p = q
    BY <2>1, <2>2 DEF NoRepeats
  <2> HIDE DEF n
  <2> QED
    BY <1>0, <2>3 DEF p, q
<1> HIDE DEF n
<1>3. Mod(b) \subseteq 0 .. n - 1 /\ \A x \in 0 .. n - 1 : x \in Mod(b) <=> s[x + 1] \in F
  BY DEF ModsRight, n
<1>4. Mod(c) \subseteq 0 .. n - 1
  BY <1>0, <1>1, <1>3
<1>5. ASSUME NEW x \in 0 .. n - 1
      PROVE  x \in Mod(c) <=> s[x + 1] \in F \cup {s[i + 1]}
  BY <1>1, <1>2, <1>3
<1>6. ModsRight(c, s, F \cup {s[i + 1]})
  BY <1>4, <1>5 DEF ModsRight, n
<1> QED
  BY <1>6 DEF c

\* Nothing modified.
LEMMA ModsEmpty ==
    ASSUME NEW b, Mod(b) = {}, NEW s
    PROVE  ModsRight(b, s, {})
BY DEF ModsRight

\* The last row in another's place, whatever was at that number.
LEMMA ModsOverRight ==
    ASSUME NEW b \in Builders, NEW s \in Seq(Nat), NEW F,
           NEW last, last = Len(s) - 1, NEW row \in 0 .. last, Mod(b) \subseteq 0 .. last,
           \A x \in 0 .. last : x # row => (x \in Mod(b) <=> s[x + 1] \in F),
           NEW t, OverRows(s, t, row), NEW c, c.modifications = ModsOver(b, row, last)
    PROVE  ModsRight(c, t, F)
<1> DEFINE m == Len(s)
<1>0. m \in Nat /\ last \in Nat /\ row \in Nat /\ row <= last /\ m = last + 1 /\ Len(s) - 2 = last - 1
  OBVIOUS
<1>1. /\ Len(t) = last
      /\ \A x \in 0 .. last - 1 : t[x + 1] = IF x = row THEN s[m] ELSE s[x + 1]
  BY <1>0 DEF OverRows
<1>2. /\ \A z \in Nat : z # last => (z \in Mod(c) <=> IF z = row THEN last \in Mod(b) ELSE z \in Mod(b))
      /\ last \notin Mod(c) /\ Mod(c) \subseteq Mod(b) \cup {row}
  BY <1>0, ModsOverIs DEF Mod
<1> HIDE DEF m
<1>3. Mod(c) \subseteq 0 .. last - 1
  BY <1>0, <1>2
<1>4. ASSUME NEW x \in 0 .. last - 1
      PROVE  x \in Mod(c) <=> t[x + 1] \in F
  <2>0. x \in Nat /\ x # last /\ x \in 0 .. last
    BY <1>0
  <2>1. CASE x = row
    <3>1. last # row /\ last \in 0 .. last
      BY <1>0, <2>0, <2>1
    <3>2. last \in Mod(b) <=> s[last + 1] \in F
      BY <3>1
    <3> QED
      BY <1>0, <1>1, <1>2, <2>0, <2>1, <3>2
  <2>2. CASE x # row
    <3>1. x \in Mod(b) <=> s[x + 1] \in F
      BY <2>0, <2>2
    <3> QED
      BY <1>1, <1>2, <2>0, <2>2, <3>1
  <2> QED
    BY <2>1, <2>2
<1> QED
  BY <1>1, <1>3, <1>4 DEF ModsRight

\* erase_rows.
LEMMA ModsErasedRow ==
    ASSUME NEW b \in Builders, NEW s \in Seq(Nat), NEW F, ModsRight(b, s, F),
           NEW last, last = Len(s) - 1, NEW row \in 0 .. last,
           NEW t, OverRows(s, t, row), NEW c, c.modifications = ModsOver(b, row, last)
    PROVE  ModsRight(c, t, F)
<1>1. Mod(b) \subseteq 0 .. last /\ \A x \in 0 .. last : x # row => (x \in Mod(b) <=> s[x + 1] \in F)
  BY DEF ModsRight
<1> QED
  BY <1>1, ModsOverRight

\* swap_rows.
LEMMA ModsSwappedRight ==
    ASSUME NEW b \in Builders, NEW s \in Seq(Nat), NEW F, ModsRight(b, s, F),
           NEW row1 \in 0 .. Len(s) - 1, NEW row2 \in 0 .. Len(s) - 1, row1 < row2,
           NEW t, Len(t) = Len(s), \A x \in 0 .. Len(s) - 1 : t[x + 1] = s[Swapped(x, row1, row2) + 1],
           NEW c \in Builders, c.modifications = ModsSwapped(b, row1, row2)
    PROVE  ModsRight(c, t, F)
<1> DEFINE m == Len(s)
<1>0. m \in Nat /\ row1 \in Nat /\ row2 \in Nat /\ row1 # row2
  OBVIOUS
<1>1. \A z \in Nat : z \in Mod(c) <=> Swapped(z, row1, row2) \in Mod(b)
  BY <1>0, ModsSwappedIs DEF Mod
<1>2. Mod(b) \subseteq 0 .. m - 1 /\ \A x \in 0 .. m - 1 : x \in Mod(b) <=> s[x + 1] \in F
  BY DEF ModsRight
<1>3. Mod(c) \subseteq Nat
  BY BuilderIs
<1> HIDE DEF m
<1>4. ASSUME NEW z \in Nat
      PROVE  Swapped(z, row1, row2) \in 0 .. m - 1 <=> z \in 0 .. m - 1
  BY <1>0 DEF Swapped, m
<1>5. Mod(c) \subseteq 0 .. m - 1
  BY <1>1, <1>2, <1>3, <1>4
<1>6. ASSUME NEW x \in 0 .. m - 1
      PROVE  x \in Mod(c) <=> t[x + 1] \in F
  <2>1. x \in Nat /\ Swapped(x, row1, row2) \in 0 .. m - 1
    BY <1>0, <1>4
  <2>2. t[x + 1] = s[Swapped(x, row1, row2) + 1]
    BY DEF m
  <2> QED
    BY <1>1, <1>2, <2>1, <2>2
<1> QED
  BY <1>5, <1>6 DEF ModsRight, m

\* The rows modified, once the row at from is at to as well.
MarksOver(s, F, G, from, to) == G = F \cup (IF s[to + 1] \in F THEN {s[from + 1]} ELSE {})

\* merge_rows and the deletion that follows.
LEMMA ModsMergedRight ==
    ASSUME NEW b \in Builders, NEW s \in Seq(Nat), NoRepeats(s), NEW F, ModsRight(b, s, F),
           NEW last, last = Len(s) - 1, NEW from \in 0 .. last, NEW to \in 0 .. last, from # to,
           NEW d \in Builders, TakesOver(b, d, from, to),
           NEW G, MarksOver(s, F, G, from, to),
           NEW u, CopiedTo(s, u, last, from, to),
           NEW t, OverRows(u, t, from), NEW c, c.modifications = ModsOver(d, from, last)
    PROVE  ModsRight(c, t, G)
<1> DEFINE m == Len(s)
<1>0. m \in Nat /\ last \in Nat /\ m = last + 1 /\ from \in Nat /\ to \in Nat
  OBVIOUS
<1>h. /\ u \in Seq(Nat) /\ Len(u) = Len(s)
      /\ \A x \in 0 .. last : u[x + 1] = IF x = to THEN s[from + 1] ELSE s[x + 1]
      /\ \A y : y \in Mod(d) <=> y \in Mod(b) \/ (y = to /\ from \in Mod(b))
      /\ G = F \cup (IF s[to + 1] \in F THEN {s[from + 1]} ELSE {})
  BY DEF CopiedTo, TakesOver, MarksOver
<1> USE <1>h
<1>1. Mod(b) \subseteq 0 .. last /\ \A x \in 0 .. last : x \in Mod(b) <=> s[x + 1] \in F
  BY DEF ModsRight
<1>2. ASSUME NEW x \in 0 .. last, s[x + 1] = s[from + 1]
      PROVE  x = from
  <2> DEFINE p == x + 1
             q == from + 1
  <2>1. p \in 1 .. m /\ q \in 1 .. m
    BY <1>0
  <2> HIDE DEF p, q
  <2>2. s[p] = s[q]
    BY <1>2 DEF p, q
  <2>3. p = q
    BY <2>1, <2>2 DEF NoRepeats
  <2> HIDE DEF m
  <2> QED
    BY <1>0, <2>3 DEF p, q
<1> HIDE DEF m
<1>3. ASSUME NEW x \in 0 .. last, x # from
      PROVE  x \in Mod(d) <=> u[x + 1] \in G
  <2>1. CASE x = to
    <3>1. u[x + 1] = s[from + 1]
      BY <2>1
    <3>2. u[x + 1] \in G <=> s[from + 1] \in F \/ s[to + 1] \in F
      BY <3>1
    <3>3. x \in Mod(d) <=> to \in Mod(b) \/ from \in Mod(b)
      BY <2>1
    <3> QED
      BY <1>1, <3>2, <3>3
  <2>2. CASE x # to
    <3>1. u[x + 1] = s[x + 1] /\ s[x + 1] # s[from + 1]
      BY <1>2, <1>3, <2>2
    <3>2. u[x + 1] \in G <=> s[x + 1] \in F
      BY <3>1
    <3>3. x \in Mod(d) <=> x \in Mod(b)
      BY <2>2
    <3> QED
      BY <1>1, <3>2, <3>3
  <2> QED
    BY <2>1, <2>2
<1>4. Mod(d) \subseteq 0 .. last /\ last = Len(u) - 1
  BY <1>1
<1>5. \A x \in 0 .. last : x # from => (x \in Mod(d) <=> u[x + 1] \in G)
  BY <1>3
<1> QED
  BY <1>4, <1>5, ModsOverRight

\* insert_empty_rows.
LEMMA ModsGrown ==
    ASSUME NEW b \in Builders, NEW s \in Seq(Nat), NEW F, ModsRight(b, s, F),
           NEW k \in Nat, k > 0, NEW t, Len(t) = Len(s) + k,
           \A x \in 0 .. Len(s) - 1 : t[x + 1] = s[x + 1],
           \A x \in Len(s) .. Len(t) - 1 : t[x + 1] \notin F,
           NEW track \in BOOLEAN
    PROVE  ModsRight(Insert(b, Len(s), k, track), t, F)
<1> DEFINE m == Len(s)
           c == Insert(b, m, k, track)
<1>0. m \in Nat
  OBVIOUS
<1>1. c \in Builders /\ \A z \in Nat : z \in Mod(c) <=> (z < m /\ z \in Mod(b)) \/ (m <= z - k /\ z - k \in Mod(b))
  <2> HIDE DEF c
  <2> QED
    BY <1>0, InsertIs DEF c
<1>2. Mod(b) \subseteq 0 .. m - 1 /\ \A x \in 0 .. m - 1 : x \in Mod(b) <=> s[x + 1] \in F
  BY DEF ModsRight
<1>3. Mod(c) \subseteq Nat
  BY <1>1, BuilderIs
<1> HIDE DEF c
<1>g. \A x \in 0 .. m - 1 : t[x + 1] = s[x + 1]
  OBVIOUS
<1>h. \A x \in m .. (m + k) - 1 : t[x + 1] \notin F
  OBVIOUS
<1> HIDE DEF m
<1>4. \A z \in Nat : z \in Mod(c) <=> z < m /\ z \in Mod(b)
  BY <1>0, <1>1, <1>2
<1>5. Mod(c) \subseteq 0 .. (m + k) - 1
  BY <1>0, <1>3, <1>4
<1>6. ASSUME NEW x \in 0 .. (m + k) - 1
      PROVE  x \in Mod(c) <=> t[x + 1] \in F
  <2>1. CASE x < m
    <3>1. x \in 0 .. m - 1 /\ x \in Nat
      BY <1>0, <2>1
    <3> QED
      BY <1>2, <1>4, <1>g, <2>1, <3>1
  <2>2. CASE ~(x < m)
    <3>1. x \in m .. (m + k) - 1 /\ x \in Nat
      BY <1>0, <2>2
    <3> QED
      BY <1>4, <1>h, <2>2, <3>1
  <2> QED
    BY <2>1, <2>2
<1> QED
  BY <1>5, <1>6 DEF ModsRight, m, c

\* A row taken out of a list.
LEMMA ModsTakenOut ==
    ASSUME NEW S, NEW V \in SUBSET Nat, NEW s \in Seq(Nat), NEW F, NEW i \in 0 .. Len(s) - 1, Closed(S, V, i),
           Marks(S, s, F), NEW t, TakenOutAt(s, t, i)
    PROVE  Marks(V, t, F)
<1> DEFINE n == Len(s)
<1>0. n \in Nat /\ i \in Nat /\ i < n
  OBVIOUS
<1>1. Len(t) = n - 1 /\ \A y \in 0 .. n - 2 : t[y + 1] = IF y < i THEN s[y + 1] ELSE s[y + 2]
  BY DEF TakenOutAt
<1>2. \A z \in Nat : z \in V <=> (z < i /\ z \in S) \/ (i <= z /\ z + 1 \in S)
  BY DEF Closed
<1>3. S \subseteq 0 .. n - 1 /\ \A x \in 0 .. n - 1 : x \in S <=> s[x + 1] \in F
  BY DEF Marks
<1> HIDE DEF n
<1>4. V \subseteq 0 .. n - 2
  BY <1>0, <1>2, <1>3
<1>5. ASSUME NEW x \in 0 .. n - 2
      PROVE  x \in V <=> t[x + 1] \in F
  <2>0. x \in Nat /\ x \in 0 .. n - 1 /\ x + 1 \in 0 .. n - 1 /\ (x + 1) + 1 = x + 2
    BY <1>0
  <2>1. CASE x < i
    <3>1. x \in V <=> x \in S
      BY <1>0, <1>2, <2>0, <2>1
    <3>2. t[x + 1] = s[x + 1]
      BY <1>1, <2>1
    <3> QED
      BY <1>3, <2>0, <3>1, <3>2
  <2>2. CASE ~(x < i)
    <3>1. x \in V <=> x + 1 \in S
      BY <1>0, <1>2, <2>0, <2>2
    <3>2. t[x + 1] = s[x + 2]
      BY <1>1, <2>2
    <3> QED
      BY <1>3, <2>0, <3>1, <3>2
  <2> QED
    BY <2>1, <2>2
<1>6. Len(t) - 1 = n - 2
  BY <1>0, <1>1
<1> QED
  BY <1>4, <1>5, <1>6 DEF Marks

\* in tells whether the row put in is modified.
LEMMA ModsPutIn ==
    ASSUME NEW S, NEW V \in SUBSET Nat, NEW s \in Seq(Nat), NEW F, NEW i \in 0 .. Len(s), NEW e,
           NEW in \in BOOLEAN, in <=> e \in F, MarkPut(S, V, i, in), Marks(S, s, F),
           NEW t, PutInAt(s, t, i, e)
    PROVE  Marks(V, t, F)
<1> DEFINE n == Len(s)
<1>0. n \in Nat /\ i \in Nat /\ i <= n
  OBVIOUS
<1>1. Len(t) = n + 1 /\ \A y \in 0 .. n : t[y + 1] = IF y < i THEN s[y + 1] ELSE IF y = i THEN e ELSE s[y]
  BY DEF PutInAt
<1>2. \A z \in Nat : z \in V <=> (z < i /\ z \in S) \/ (z = i /\ in) \/ (z > i /\ z - 1 \in S)
  BY DEF MarkPut
<1>3. S \subseteq 0 .. n - 1 /\ \A x \in 0 .. n - 1 : x \in S <=> s[x + 1] \in F
  BY DEF Marks
<1> HIDE DEF n
<1>4. V \subseteq 0 .. n
  BY <1>0, <1>2, <1>3
<1>5. ASSUME NEW x \in 0 .. n
      PROVE  x \in V <=> t[x + 1] \in F
  <2>0. x \in Nat
    BY <1>0
  <2>1. CASE x < i
    <3>0. x \in 0 .. n - 1
      BY <1>0, <2>0, <2>1
    <3>1. x \in V <=> x \in S
      BY <1>0, <1>2, <2>0, <2>1
    <3>2. t[x + 1] = s[x + 1]
      BY <1>1, <2>1
    <3> QED
      BY <1>3, <3>0, <3>1, <3>2
  <2>2. CASE x = i
    <3>1. x \in V <=> in
      BY <1>0, <1>2, <2>0, <2>2
    <3>2. t[x + 1] = e
      BY <1>0, <1>1, <2>2
    <3> QED
      BY <3>1, <3>2
  <2>3. CASE x > i
    <3> DEFINE y == x - 1
    <3>0. y \in 0 .. n - 1 /\ y + 1 = x
      BY <1>0, <2>0, <2>3
    <3>1. x \in V <=> y \in S
      BY <1>0, <1>2, <2>0, <2>3
    <3>2. t[x + 1] = s[x]
      BY <1>0, <1>1, <2>0, <2>3
    <3> HIDE DEF y
    <3> QED
      BY <1>3, <3>0, <3>1, <3>2
  <2> QED
    BY <1>0, <2>0, <2>1, <2>2, <2>3
<1>6. Len(t) - 1 = n
  BY <1>0, <1>1
<1> QED
  BY <1>4, <1>5, <1>6 DEF Marks

-----------------------------------------------------------------------------
(* No row occurs twice.                                                    *)

\* The same, counted from 0.
LEMMA NoRepeatsIs ==
    ASSUME NEW s \in Seq(Nat)
    PROVE  NoRepeats(s) <=> \A x, y \in 0 .. Len(s) - 1 : s[x + 1] = s[y + 1] => x = y
<1> DEFINE n == Len(s)
<1>0. n \in Nat
  OBVIOUS
<1> HIDE DEF n
<1>1. ASSUME NoRepeats(s), NEW x \in 0 .. n - 1, NEW y \in 0 .. n - 1, s[x + 1] = s[y + 1]
      PROVE  x = y
  <2> DEFINE p == x + 1
             q == y + 1
  <2>1. p \in 1 .. n /\ q \in 1 .. n
    BY <1>0
  <2> HIDE DEF p, q
  <2>2. s[p] = s[q]
    BY <1>1 DEF p, q
  <2>3. p = q
    BY <1>1, <2>1, <2>2 DEF NoRepeats, n
  <2> QED
    BY <1>0, <2>3 DEF p, q
<1>2. ASSUME \A x, y \in 0 .. n - 1 : s[x + 1] = s[y + 1] => x = y, NEW p \in 1 .. n, NEW q \in 1 .. n, s[p] = s[q]
      PROVE  p = q
  <2> DEFINE x == p - 1
             y == q - 1
  <2>1. x \in 0 .. n - 1 /\ y \in 0 .. n - 1 /\ x + 1 = p /\ y + 1 = q
    BY <1>0
  <2> HIDE DEF x, y
  <2>2. x = y
    BY <1>2, <2>1
  <2> QED
    BY <2>1, <2>2
<1> QED
  BY <1>1, <1>2 DEF NoRepeats, n

\* The rows of t are at the positions f of s, all different.
PickedBy(f, g, h, s, t) ==
    /\ \A x \in 0 .. h : f[x] \in 0 .. g /\ t[x + 1] = s[f[x] + 1]
    /\ \A x, y \in 0 .. h : f[x] = f[y] => x = y

\* Rows picked from rows that do not repeat do not repeat.
LEMMA NoRepeatsFrom ==
    ASSUME NEW s \in Seq(Nat), NoRepeats(s), NEW t \in Seq(Nat), NEW f,
           NEW g, g = Len(s) - 1, NEW h, h = Len(t) - 1,
           PickedBy(f, g, h, s, t)
    PROVE  NoRepeats(t)
<1>1. \A x, y \in 0 .. Len(s) - 1 : s[x + 1] = s[y + 1] => x = y
  BY NoRepeatsIs
<1>2. ASSUME NEW x \in 0 .. Len(t) - 1, NEW y \in 0 .. Len(t) - 1, t[x + 1] = t[y + 1]
      PROVE  x = y
  <2>1. f[x] \in 0 .. Len(s) - 1 /\ f[y] \in 0 .. Len(s) - 1 /\ s[f[x] + 1] = s[f[y] + 1]
    BY <1>2 DEF PickedBy
  <2>2. f[x] = f[y]
    BY <1>1, <2>1
  <2> QED
    BY <2>2 DEF PickedBy
<1> QED
  BY <1>2, NoRepeatsIs

\* They do not after erase_rows, ...
LEMMA OnceOver ==
    ASSUME NEW s \in Seq(Nat), NoRepeats(s), NEW row \in 0 .. Len(s) - 1, NEW t, OverRows(s, t, row)
    PROVE  t \in Seq(Nat) /\ Len(t) = Len(s) - 1 /\ NoRepeats(t)
<1> DEFINE n == Len(s)
           f == [x \in 0 .. n - 2 |-> IF x = row THEN n - 1 ELSE x]
<1>0. n \in Nat /\ row \in Nat /\ n >= 1
  OBVIOUS
<1>1. t \in Seq(Nat) /\ Len(t) = n - 1 /\ \A x \in 0 .. n - 2 : t[x + 1] = IF x = row THEN s[n] ELSE s[x + 1]
  BY DEF OverRows
<1> HIDE DEF n
<1>2. (n - 1) - 1 = n - 2 /\ (n - 1) + 1 = n
  BY <1>0
<1>3. \A x \in 0 .. n - 2 : f[x] \in 0 .. n - 1 /\ t[x + 1] = s[f[x] + 1]
  BY <1>0, <1>1, <1>2
<1>4. \A x, y \in 0 .. n - 2 : f[x] = f[y] => x = y
  BY <1>0
<1> HIDE DEF f
<1>5. NoRepeats(t)
  <2>1. n - 1 = Len(s) - 1 /\ n - 2 = Len(t) - 1
    BY <1>1, <1>2 DEF n
  <2>2. PickedBy(f, n - 1, n - 2, s, t)
    BY <1>3, <1>4 DEF PickedBy
  <2> QED
    BY ONLY s \in Seq(Nat), NoRepeats(s), <1>1, <2>1, <2>2, NoRepeatsFrom, Zenon
<1> QED
  BY <1>1, <1>5 DEF n

\* ... merge_rows, ...
LEMMA OnceMerged ==
    ASSUME NEW s \in Seq(Nat), NoRepeats(s), NEW last, last = Len(s) - 1,
           NEW from \in 0 .. last, NEW to \in 0 .. last, from # to,
           NEW u, CopiedTo(s, u, last, from, to),
           NEW t, OverRows(u, t, from)
    PROVE  t \in Seq(Nat) /\ Len(t) = Len(s) - 1 /\ NoRepeats(t)
<1> DEFINE n == Len(s)
           f == [x \in 0 .. n - 2 |-> LET y == IF x = from THEN n - 1 ELSE x
                                      IN  IF y = to THEN from ELSE y]
<1>u. /\ u \in Seq(Nat) /\ Len(u) = Len(s)
      /\ \A x \in 0 .. last : u[x + 1] = IF x = to THEN s[from + 1] ELSE s[x + 1]
  BY DEF CopiedTo
<1> USE <1>u
<1>0. n \in Nat /\ from \in Nat /\ to \in Nat /\ n >= 1 /\ last = n - 1 /\ Len(u) = n
  OBVIOUS
<1>1. t \in Seq(Nat) /\ Len(t) = n - 1 /\ \A x \in 0 .. n - 2 : t[x + 1] = IF x = from THEN u[n] ELSE u[x + 1]
  BY DEF OverRows
<1> HIDE DEF n
<1>2. (n - 1) - 1 = n - 2 /\ (n - 1) + 1 = n
  BY <1>0
<1>3. ASSUME NEW x \in 0 .. n - 2
      PROVE  f[x] \in 0 .. n - 1 /\ t[x + 1] = s[f[x] + 1]
  <2> DEFINE y == IF x = from THEN n - 1 ELSE x
  <2>1. y \in 0 .. last /\ t[x + 1] = u[y + 1]
    BY <1>0, <1>1, <1>2, SMTT(30)
  <2>2. f[x] = IF y = to THEN from ELSE y
    OBVIOUS
  <2> HIDE DEF y, f
  <2>3. u[y + 1] = IF y = to THEN s[from + 1] ELSE s[y + 1]
    BY <2>1
  <2> QED
    BY <1>0, <2>1, <2>2, <2>3
<1>4. \A x, y \in 0 .. n - 2 : f[x] = f[y] => x = y
  BY <1>0
<1> HIDE DEF f
<1>5. NoRepeats(t)
  <2>1. n - 1 = Len(s) - 1 /\ n - 2 = Len(t) - 1
    BY <1>1, <1>2 DEF n
  <2>2. PickedBy(f, n - 1, n - 2, s, t)
    BY <1>3, <1>4 DEF PickedBy
  <2> QED
    BY ONLY s \in Seq(Nat), NoRepeats(s), <1>1, <2>1, <2>2, NoRepeatsFrom, Zenon
<1> QED
  BY <1>1, <1>5 DEF n

\* ... swap_rows, ...
LEMMA OnceSwapped ==
    ASSUME NEW s \in Seq(Nat), NoRepeats(s), NEW row1 \in 0 .. Len(s) - 1, NEW row2 \in 0 .. Len(s) - 1,
           NEW t \in Seq(Nat), Len(t) = Len(s),
           \A x \in 0 .. Len(s) - 1 : t[x + 1] = s[Swapped(x, row1, row2) + 1]
    PROVE  NoRepeats(t)
<1> DEFINE n == Len(s)
           f == [x \in 0 .. n - 1 |-> Swapped(x, row1, row2)]
<1>0. n \in Nat /\ row1 \in 0 .. n - 1 /\ row2 \in 0 .. n - 1 /\ Len(t) = n
  OBVIOUS
<1>1. \A x \in 0 .. n - 1 : t[x + 1] = s[Swapped(x, row1, row2) + 1]
  OBVIOUS
<1> HIDE DEF n
<1>3. \A x \in 0 .. n - 1 : f[x] \in 0 .. n - 1 /\ t[x + 1] = s[f[x] + 1]
  BY <1>0, <1>1 DEF Swapped
<1>4. \A x, y \in 0 .. n - 1 : f[x] = f[y] => x = y
  BY <1>0 DEF Swapped
<1> HIDE DEF f
<1>5. n - 1 = Len(s) - 1 /\ n - 1 = Len(t) - 1
  BY <1>0 DEF n
<1>6. PickedBy(f, n - 1, n - 1, s, t)
  BY <1>3, <1>4 DEF PickedBy
<1> QED
  BY ONLY s \in Seq(Nat), t \in Seq(Nat), NoRepeats(s), <1>5, <1>6, NoRepeatsFrom, Zenon

\* ... the erasure of an entry, ...
LEMMA OnceTakenOut ==
    ASSUME NEW s \in Seq(Nat), NoRepeats(s), NEW i \in 0 .. Len(s) - 1, NEW t, TakenOutAt(s, t, i)
    PROVE  /\ t \in Seq(Nat) /\ Len(t) = Len(s) - 1 /\ NoRepeats(t)
           /\ \A x \in 0 .. Len(t) - 1 : t[x + 1] # s[i + 1]
<1> DEFINE n == Len(s)
           f == [x \in 0 .. n - 2 |-> IF x < i THEN x ELSE x + 1]
<1>0. n \in Nat /\ i \in 0 .. n - 1
  OBVIOUS
<1>1. t \in Seq(Nat) /\ Len(t) = n - 1 /\ \A y \in 0 .. n - 2 : t[y + 1] = IF y < i THEN s[y + 1] ELSE s[y + 2]
  BY DEF TakenOutAt
<1>a. \A x, y \in 0 .. n - 1 : s[x + 1] = s[y + 1] => x = y
  BY NoRepeatsIs
<1> HIDE DEF n
<1>2. (n - 1) - 1 = n - 2
  BY <1>0
<1>3. ASSUME NEW x \in 0 .. n - 2
      PROVE  f[x] \in 0 .. n - 1 /\ t[x + 1] = s[f[x] + 1] /\ f[x] # i
  <2>1. x < i => f[x] = x
    OBVIOUS
  <2>2. ~(x < i) => f[x] = x + 1 /\ f[x] + 1 = x + 2
    BY <1>0
  <2> HIDE DEF f
  <2>3. CASE x < i
    <3>1. t[x + 1] = s[x + 1] /\ x \in 0 .. n - 1 /\ x # i
      BY <1>0, <1>1, <2>3
    <3> QED
      BY <2>1, <2>3, <3>1
  <2>4. CASE ~(x < i)
    <3>1. t[x + 1] = s[x + 2] /\ x + 1 \in 0 .. n - 1 /\ x + 1 # i
      BY <1>0, <1>1, <2>4
    <3> QED
      BY <2>2, <2>4, <3>1
  <2> QED
    BY <2>3, <2>4
<1>4. \A x, y \in 0 .. n - 2 : f[x] = f[y] => x = y
  BY <1>0
<1> HIDE DEF f
<1>5. NoRepeats(t)
  <2>1. n - 1 = Len(s) - 1 /\ n - 2 = Len(t) - 1
    BY <1>1, <1>2 DEF n
  <2>2. PickedBy(f, n - 1, n - 2, s, t)
    BY <1>3, <1>4 DEF PickedBy
  <2> QED
    BY ONLY s \in Seq(Nat), NoRepeats(s), <1>1, <2>1, <2>2, NoRepeatsFrom, Zenon
<1>6. \A x \in 0 .. n - 2 : t[x + 1] # s[i + 1]
  BY <1>0, <1>3, <1>a
<1> QED
  BY <1>1, <1>2, <1>5, <1>6 DEF n

\* ... its insertion, ...
LEMMA OncePutIn ==
    ASSUME NEW s \in Seq(Nat), NoRepeats(s), NEW i \in 0 .. Len(s), NEW e, NEW t, PutInAt(s, t, i, e),
           \A x \in 0 .. Len(s) - 1 : s[x + 1] # e
    PROVE  t \in Seq(Nat) /\ Len(t) = Len(s) + 1 /\ NoRepeats(t)
<1> DEFINE n == Len(s)
<1>0. n \in Nat /\ i \in 0 .. n
  OBVIOUS
<1>1. t \in Seq(Nat) /\ Len(t) = n + 1
      /\ \A y \in 0 .. n : t[y + 1] = IF y < i THEN s[y + 1] ELSE IF y = i THEN e ELSE s[y]
  BY DEF PutInAt
<1>a. \A x, y \in 0 .. n - 1 : s[x + 1] = s[y + 1] => x = y
  BY NoRepeatsIs
<1>b. \A x \in 0 .. n - 1 : s[x + 1] # e
  OBVIOUS
<1> HIDE DEF n
<1>2. (n + 1) - 1 = n
  BY <1>0
<1> DEFINE f == [x \in 0 .. n |-> IF x < i THEN x ELSE x - 1]
<1>3. ASSUME NEW x \in 0 .. n, x # i
      PROVE  f[x] \in 0 .. n - 1 /\ t[x + 1] = s[f[x] + 1]
  <2>1. x < i => f[x] = x
    OBVIOUS
  <2>2. ~(x < i) => f[x] = x - 1 /\ f[x] + 1 = x
    BY <1>0
  <2> HIDE DEF f
  <2>3. CASE x < i
    <3>0. t[x + 1] = IF x < i THEN s[x + 1] ELSE IF x = i THEN e ELSE s[x]
      BY <1>1
    <3>1. t[x + 1] = s[x + 1]
      BY <2>3, <3>0
    <3>2. x \in 0 .. n - 1
      BY <1>0, <2>3
    <3> QED
      BY <2>1, <2>3, <3>1, <3>2
  <2>4. CASE ~(x < i)
    <3>1. t[x + 1] = s[x] /\ x - 1 \in 0 .. n - 1
      BY <1>0, <1>1, <1>3, <2>4
    <3> QED
      BY <2>2, <2>4, <3>1
  <2> QED
    BY <2>3, <2>4
<1>4. t[i + 1] = e
  BY <1>0, <1>1
<1>5. \A x, y \in 0 .. n : x # i /\ y # i /\ f[x] = f[y] => x = y
  BY <1>0
<1> HIDE DEF f
<1>6. ASSUME NEW x \in 0 .. n, NEW y \in 0 .. n, t[x + 1] = t[y + 1]
      PROVE  x = y
  <2>1. CASE x = i /\ y # i
    <3>1. s[f[y] + 1] = e
      BY <1>3, <1>4, <1>6, <2>1
    <3> QED
      BY <1>3, <1>b, <2>1, <3>1
  <2>2. CASE x # i /\ y = i
    <3>1. s[f[x] + 1] = e
      BY <1>3, <1>4, <1>6, <2>2
    <3> QED
      BY <1>3, <1>b, <2>2, <3>1
  <2>3. CASE x # i /\ y # i
    <3>0. /\ f[x] \in 0 .. n - 1 /\ t[x + 1] = s[f[x] + 1]
          /\ f[y] \in 0 .. n - 1 /\ t[y + 1] = s[f[y] + 1]
      BY <1>3, <2>3
    <3>1. f[x] = f[y]
      BY ONLY <1>6, <1>a, <3>0
    <3> QED
      BY <1>5, <2>3, <3>1
  <2> QED
    BY <2>1, <2>2, <2>3
<1>7. NoRepeats(t)
  BY <1>1, <1>2, <1>6, NoRepeatsIs
<1> QED
  BY <1>1, <1>7 DEF n

\* ... and insert_empty_rows.
LEMMA OnceGrown ==
    ASSUME NEW s \in Seq(Nat), NoRepeats(s), NEW k \in Nat, NEW t \in Seq(Nat), Len(t) = Len(s) + k,
           \A x \in 0 .. Len(s) - 1 : t[x + 1] = s[x + 1],
           \A x \in Len(s) .. Len(t) - 1 : t[x + 1] \notin ToSet(s),
           \A x, y \in Len(s) .. Len(t) - 1 : t[x + 1] = t[y + 1] => x = y
    PROVE  NoRepeats(t)
<1> DEFINE n == Len(s)
<1>0. n \in Nat /\ Len(t) = n + k
  OBVIOUS
<1>a. \A x, y \in 0 .. n - 1 : s[x + 1] = s[y + 1] => x = y
  BY NoRepeatsIs
<1>b. \A x \in 0 .. n - 1 : s[x + 1] \in ToSet(s)
  <2> TAKE x \in 0 .. n - 1
  <2> DEFINE p == x + 1
  <2>1. p \in 1 .. n
    BY <1>0
  <2> HIDE DEF p
  <2>2. s[p] \in ToSet(s)
    BY <2>1, ToSetIs
  <2> QED
    BY <2>2 DEF p
<1>c. /\ \A x \in 0 .. n - 1 : t[x + 1] = s[x + 1]
      /\ \A x \in n .. (n + k) - 1 : t[x + 1] \notin ToSet(s)
      /\ \A x, y \in n .. (n + k) - 1 : t[x + 1] = t[y + 1] => x = y
  OBVIOUS
<1> HIDE DEF n
<1>1. \A x \in 0 .. (n + k) - 1 : x \in 0 .. n - 1 \/ x \in n .. (n + k) - 1
  BY <1>0
<1>2. \A x, y \in 0 .. (n + k) - 1 : t[x + 1] = t[y + 1] => x = y
  BY ONLY <1>1, <1>a, <1>b, <1>c
<1> QED
  BY <1>0, <1>2, NoRepeatsIs

-----------------------------------------------------------------------------
(* A new row has a name of its own.                                        *)

Few(S, n) == IsFiniteSet(S) /\ Cardinality(S) \in Nat /\ Cardinality(S) <= n

\* The rows of a sequence are no more than its length.
LEMMA FewRows ==
    ASSUME NEW s \in Seq(Nat), NEW n \in Nat, Len(s) <= n
    PROVE  Few(ToSet(s), n) /\ ToSet(s) \subseteq Nat
<1> DEFINE k == Len(s)
           T == ToSet(s)
<1>0. k \in Nat /\ k <= n
  OBVIOUS
<1>1. \A row : row \in T <=> \E p \in 1 .. k : s[p] = row
  BY ToSetIs
<1>2. s \in [1 .. k -> Nat]
  OBVIOUS
<1> HIDE DEF k, T
<1>3. s \in [1 .. k -> T]
  BY <1>1, <1>2
<1>4. s \in Surjection(1 .. k, T)
  BY <1>1, <1>3 DEF Surjection
<1>5. IsFiniteSet(1 .. k) /\ Cardinality(1 .. k) = k
  BY <1>0, FS_Interval
<1>6. IsFiniteSet(T) /\ Cardinality(T) <= k
  BY ONLY <1>4, <1>5, FS_Surjection
<1>7. Cardinality(T) \in Nat
  BY <1>6, FS_CardinalityType
<1>8. T \subseteq Nat
  BY <1>1, <1>2
<1> QED
  BY <1>0, <1>6, <1>7, <1>8 DEF Few, T

\* Two small sets together.
LEMMA FewTogether ==
    ASSUME NEW S, NEW T, NEW m \in Nat, NEW n \in Nat, Few(S, m), Few(T, n), NEW k, k = m + n
    PROVE  Few(S \cup T, k)
<1>1. IsFiniteSet(S) /\ IsFiniteSet(T) /\ Cardinality(S) \in Nat /\ Cardinality(T) \in Nat
      /\ Cardinality(S) <= m /\ Cardinality(T) <= n
  BY DEF Few
<1>2. IsFiniteSet(S \cup T) /\ Cardinality(S \cup T) = Cardinality(S) + Cardinality(T) - Cardinality(S \cap T)
  BY ONLY <1>1, FS_Union
<1>3. IsFiniteSet(S \cap T) /\ Cardinality(S \cap T) \in Nat
  <2>1. S \cap T \in SUBSET S
    OBVIOUS
  <2>2. IsFiniteSet(S \cap T)
    BY ONLY <1>1, <2>1, FS_Subset
  <2> QED
    BY <2>2, FS_CardinalityType
<1>4. Cardinality(S \cup T) \in Nat
  BY <1>2, FS_CardinalityType
<1> DEFINE a == Cardinality(S)
           b == Cardinality(T)
           c == Cardinality(S \cap T)
           d == Cardinality(S \cup T)
<1> HIDE DEF a, b, c, d
<1>5. a \in Nat /\ b \in Nat /\ c \in Nat /\ d \in Nat /\ a <= m /\ b <= n /\ d = a + b - c
  BY <1>1, <1>2, <1>3, <1>4 DEF a, b, c, d
<1>6. d <= k
  BY <1>5
<1> QED
  BY <1>2, <1>4, <1>6 DEF Few, d

\* Of n + 1 names one is left when n are in use.
LEMMA OneLeft ==
    ASSUME NEW n \in Nat, NEW S, Few(S, n), NEW T, T = (0 .. n) \ S
    PROVE  Min(T) \in Nat /\ Min(T) \notin S
<1>1. T # {}
  <2>1. SUFFICES ASSUME T = {} PROVE FALSE
    OBVIOUS
  <2>2. 0 .. n \in SUBSET S
    BY <2>1
  <2>3. IsFiniteSet(S) /\ Cardinality(S) \in Nat /\ Cardinality(S) <= n
    BY DEF Few
  <2>4. Cardinality(0 .. n) <= Cardinality(S)
    BY ONLY <2>2, <2>3, FS_Subset
  <2>5. Cardinality(0 .. n) = n + 1
    <3>1. 0 \in Int /\ n \in Int
      OBVIOUS
    <3>2. Cardinality(0 .. n) = IF 0 > n THEN 0 ELSE n - 0 + 1
      BY ONLY <3>1, FS_Interval
    <3> QED
      BY <3>2
  <2> QED
    BY <2>3, <2>4, <2>5
<1>2. T \in SUBSET Nat
  OBVIOUS
<1>3. Min(T) \in T
  BY ONLY <1>1, <1>2, MinIs
<1> QED
  BY <1>2, <1>3

\* The names in use.
Names == ToSet(start) \cup ToSet(rows) \cup ToSet(shown) \cup ToSet(view)

\* The sequences of rows of the tables and of the results.
RowsRight ==
    /\ kind \in Kinds
    /\ start \in Seq(Nat) /\ Len(start) <= MaxRows
    /\ rows \in Seq(Nat) /\ Len(rows) <= MaxRows
    /\ shown \in Seq(Nat) /\ Len(shown) <= MaxRows
    /\ view \in Seq(Nat) /\ Len(view) <= MaxRows
    /\ NoRepeats(start) /\ NoRepeats(rows)
    /\ fresh \subseteq ToSet(rows)

\* The rows of the four collections are few.
LEMMA NamesAreFew ==
    ASSUME RowsRight
    PROVE  Few(Names, 4 * MaxRows) /\ Names \subseteq Nat
<1> DEFINE m == MaxRows
<1>0. m \in Nat
  BY BoundsAssumption
<1>1. /\ Few(ToSet(start), m) /\ Few(ToSet(rows), m) /\ Few(ToSet(shown), m) /\ Few(ToSet(view), m)
      /\ Names \subseteq Nat
  BY <1>0, FewRows DEF RowsRight, Names
<1> HIDE DEF m
<1>2. Few(ToSet(start) \cup ToSet(rows), 2 * m)
  <2>1. 2 * m = m + m
    BY <1>0
  <2> QED
    BY ONLY <1>0, <1>1, <2>1, FewTogether
<1>3. Few(ToSet(start) \cup ToSet(rows) \cup ToSet(shown), 3 * m)
  <2>1. 3 * m = 2 * m + m /\ 2 * m \in Nat
    BY <1>0
  <2> QED
    BY ONLY <1>0, <1>1, <1>2, <2>1, FewTogether, Zenon
<1>4. Few(Names, 4 * m)
  <2>1. 4 * m = 3 * m + m /\ 3 * m \in Nat
    BY <1>0
  <2>2. Few((ToSet(start) \cup ToSet(rows) \cup ToSet(shown)) \cup ToSet(view), 4 * m)
    BY ONLY <1>0, <1>1, <1>3, <2>1, FewTogether, Zenon
  <2> QED
    BY <2>2 DEF Names
<1> QED
  BY <1>1, <1>4 DEF m

\* There is a name for a new row ...
LEMMA NewRowIs ==
    ASSUME RowsRight
    PROVE  NewRow \in Nat /\ NewRow \notin Names
<1> DEFINE n == 4 * MaxRows
           T == (0 .. n) \ Names
<1>1. n \in Nat
  BY BoundsAssumption
<1>2. Few(Names, n)
  BY NamesAreFew
<1>3. NewRow = Min(T)
  BY DEF NewRow, Names
<1> HIDE DEF n, T
<1>4. Min(T) \in Nat /\ Min(T) \notin Names
  <2>1. T = (0 .. n) \ Names
    BY DEF T
  <2> QED
    BY ONLY <1>1, <1>2, <2>1, OneLeft
<1> QED
  BY <1>3, <1>4

\* ... and for a second one.
LEMMA SecondRowIs ==
    ASSUME RowsRight, MaxRows > 0, NEW first \in Nat,
           NEW T, T = (0 .. 5 * MaxRows) \ (ToSet(start) \cup ToSet(rows) \cup ToSet(shown)
                                            \cup ToSet(view) \cup {first})
    PROVE  Min(T) \in Nat /\ Min(T) \notin Names /\ Min(T) # first
<1> DEFINE n == 4 * MaxRows
           l == 5 * MaxRows
           S == Names \cup {first}
<1>1. n \in Nat /\ l \in Nat /\ n + 1 \in Nat /\ n + 1 <= l
  BY BoundsAssumption
<1>2. Few(Names, n)
  BY NamesAreFew
<1>3. T = (0 .. l) \ S
  BY DEF Names
<1> HIDE DEF n, l
<1>4. Few({first}, 1)
  <2>1. IsFiniteSet({first}) /\ Cardinality({first}) = 1
    BY FS_Singleton
  <2> QED
    BY <2>1 DEF Few
<1>5. Few(S, n + 1)
  <2>1. 1 \in Nat
    OBVIOUS
  <2> QED
    BY ONLY <1>1, <1>2, <1>4, <2>1, FewTogether, Zenon
<1> HIDE DEF S
<1>6. Few(S, l)
  BY <1>1, <1>5 DEF Few
<1>7. Min(T) \in Nat /\ Min(T) \notin S
  BY ONLY <1>1, <1>3, <1>6, OneLeft
<1> QED
  BY <1>7 DEF S

-----------------------------------------------------------------------------
(* A table that is only linked to.                                         *)

\* swap_rows, untracked.
LEMMA SwapUntracked ==
    ASSUME NEW b \in Builders, NEW row1 \in Nat, NEW row2 \in Nat, row1 # row2
    PROVE  LET c == SwapRows(b, row1, row2, FALSE)
           IN  c \in Builders /\ c.modifications = ModsSwapped(b, row1, row2) /\ c.mapping = b.mapping
<1> DEFINE m == ModsSwapped(b, row1, row2)
           c == SwapRows(b, row1, row2, FALSE)
<1>1. m \in Ranges
  BY ModsSwappedIs
<1>2. c = [b EXCEPT !.modifications = m]
  BY DEF SwapRows, ModsSwapped
<1> HIDE DEF m, c
<1> QED
  BY <1>1, <1>2 DEF Builders, c, m

\* subsume, untracked.
LEMMA SubsumeUntracked ==
    ASSUME NEW b \in Builders, NEW old \in Nat, NEW new \in Nat
    PROVE  LET c == Subsume(b, old, new, FALSE)
           IN  /\ c \in Builders /\ c.mapping = b.mapping
               /\ \A y : y \in Mod(c) <=> y \in Mod(b) \/ (y = new /\ old \in Mod(b))
<1> DEFINE m == IF InSet(b.modifications, old) THEN AddIndex(b.modifications, new) ELSE b.modifications
           c == Subsume(b, old, new, FALSE)
<1>0. b.modifications \in Ranges
  BY BuilderIs
<1>1. m \in Ranges /\ Members(m) = IF old \in Mod(b) THEN Mod(b) \cup {new} ELSE Mod(b)
  BY <1>0, InSetMeans, AddIndexIs DEF Mod
<1>2. c = [b EXCEPT !.modifications = m]
  BY DEF Subsume
<1> HIDE DEF m, c
<1>3. c \in Builders /\ c.mapping = b.mapping /\ c.modifications = m
  BY <1>1, <1>2 DEF Builders
<1>4. \A y : y \in Mod(c) <=> y \in Mod(b) \/ (y = new /\ old \in Mod(b))
  BY <1>1, <1>3 DEF Mod
<1> QED
  BY <1>3, <1>4 DEF c

-----------------------------------------------------------------------------
(* The changes at the end of the log are right.                            *)

\* The inductive invariant of the log.
LogInv ==
    /\ RowsRight
    /\ change \in Builders
    /\ ModsRight(change, rows, fresh)
    /\ kind \in {"query", "sorted"} => TableRight(change, start, rows)
    /\ kind = "list" => ListRight(change, start, rows)
    /\ kind = "linked" => DOMAIN change.mapping = {}

\* The changes of a list apply once the stale moves are gone.
LEMMA ListApplies ==
    ASSUME NEW b \in Builders, NEW old \in Seq(Nat), NEW new \in Seq(Nat), ListRight(b, old, new)
    PROVE  LET c == CleanUpStaleMoves(b)
           IN  /\ c.modifications = b.modifications
               /\ Applies(old, new, c) /\ MovesTrue(old, new, c)
<1> DEFINE c == CleanUpStaleMoves(b)
<1>1. /\ c \in Builders /\ c.modifications = b.modifications
      /\ Places(Del(c), Ins(c), old, new) /\ Known(c.moves, Del(c), Ins(c), old, new)
  BY CleanedIs DEF ListRight
<1> HIDE DEF c
<1>2. c.deletions \in Ranges /\ c.insertions \in Ranges /\ c.moves \in Seq(Moves)
      /\ Del(c) \subseteq Nat /\ Ins(c) \subseteq Nat
  BY <1>1, BuilderIs
<1>3. /\ Rank(Del(c), Len(old)) = Rank(Ins(c), Len(new))
      /\ \A x \in 0 .. Len(old) - 1, y \in 0 .. Len(new) - 1 :
           x \notin Del(c) /\ y \notin Ins(c) /\ Rank(Del(c), x) = Rank(Ins(c), y) => old[x + 1] = new[y + 1]
  BY <1>1 DEF Places
<1>4. Applies(old, new, c)
  BY ONLY old \in Seq(Nat), new \in Seq(Nat), <1>2, <1>3, AppliesIs, Zenon
<1>5. ASSUME NEW e \in ToSet(c.moves)
      PROVE  InSet(c.deletions, e.from) /\ InSet(c.insertions, e.to) /\ old[e.from + 1] = new[e.to + 1]
  <2>1. PICK k \in DOMAIN c.moves : c.moves[k] = e
    BY DEF ToSet
  <2>2. k \in 1 .. Len(c.moves)
    BY <1>2
  <2>3. e.from \in Del(c) /\ e.to \in Ins(c) /\ old[e.from + 1] = new[e.to + 1]
    BY <1>1, <2>1, <2>2 DEF Known
  <2>4. e.from \in Nat /\ e.to \in Nat
    BY <1>2, <2>3
  <2>5. InSet(c.deletions, e.from) /\ InSet(c.insertions, e.to)
    BY <1>2, <2>3, <2>4, InSetMeans DEF Del, Ins
  <2> QED
    BY <2>3, <2>5
<1>6. MovesTrue(old, new, c)
  BY <1>5 DEF MovesTrue
<1> QED
  BY <1>1, <1>4, <1>6 DEF c

\* The modifications are those of the rows in F.
LEMMA InsideIs ==
    ASSUME NEW b \in Builders, NEW s \in Seq(Nat), NoRepeats(s), NEW F, F \subseteq ToSet(s), ModsRight(b, s, F)
    PROVE  Inside(s, b.modifications) = F
<1>0. b.modifications \in Ranges /\ Mod(b) = Members(b.modifications)
  BY BuilderIs DEF Mod
<1>1. ASSUME NEW row \in ToSet(s)
      PROVE  InSet(b.modifications, PosIn(s, row)) <=> row \in F
  <2>1. PICK p \in 1 .. Len(s) : s[p] = row
    BY ToSetIs
  <2> DEFINE x == p - 1
  <2>2. x \in 0 .. Len(s) - 1 /\ x \in Nat /\ x + 1 = p
    OBVIOUS
  <2>3. PosIn(s, row) = x
    BY <2>1, PosInIs
  <2> HIDE DEF x
  <2>4. x \in Mod(b) <=> row \in F
    BY <2>1, <2>2 DEF ModsRight
  <2>5. InSet(b.modifications, x) <=> x \in Mod(b)
    BY <1>0, <2>2, InSetMeans
  <2> QED
    BY <2>3, <2>4, <2>5
<1> QED
  BY <1>1 DEF Inside

\* Without a mapping nothing is parsed.
LEMMA UntrackedParsed ==
    ASSUME NEW b \in Builders, DOMAIN b.mapping = {}
    PROVE  ParseComplete(b).modifications = b.modifications
<1>1. /\ \A x \in DOMAIN b.mapping : x \in 0 .. 0 /\ b.mapping[x] \in 0 .. 0
      /\ \A x, y \in DOMAIN b.mapping : b.mapping[x] = b.mapping[y] => x = y
  OBVIOUS
<1>2. 0 \in Nat
  OBVIOUS
<1> QED
  BY ONLY b \in Builders, <1>1, <1>2, ParsedIs, Zenon

\* LogInv is as strong as LogChangesRight.
LEMMA LogInvMeans == LogInv => LogChangesRight
<1> SUFFICES ASSUME LogInv PROVE LogChangesRight
  OBVIOUS
<1>1. /\ kind \in Kinds /\ start \in Seq(Nat) /\ rows \in Seq(Nat)
      /\ NoRepeats(start) /\ NoRepeats(rows) /\ fresh \subseteq ToSet(rows)
      /\ change \in Builders /\ ModsRight(change, rows, fresh)
  BY DEF LogInv, RowsRight
<1>2. kind \in {"list", "query", "sorted", "linked"}
  BY <1>1, BoundsAssumption
<1>3. CASE kind = "list"
  <2>1. ListRight(change, start, rows) /\ Parsed = CleanUpStaleMoves(change)
    BY <1>3 DEF LogInv, Parsed, Table
  <2>2. /\ Parsed.modifications = change.modifications
        /\ Applies(start, rows, Parsed) /\ MovesTrue(start, rows, Parsed)
    BY ONLY <1>1, <2>1, ListApplies
  <2>3. Inside(rows, Parsed.modifications) = fresh
    BY <1>1, <2>2, InsideIs
  <2> QED
    BY <1>3, <2>2, <2>3 DEF LogChangesRight
<1>4. CASE kind \in {"query", "sorted"}
  <2>1. TableRight(change, start, rows) /\ Parsed = ParseComplete(change)
    BY <1>4 DEF LogInv, Parsed, Table
  <2>2. Parsed.modifications = change.modifications
    BY <1>1, <2>1, ParsedTableIs
  <2>3. Applies(start, rows, Parsed) /\ MovesTrue(start, rows, Parsed)
    BY <1>1, <2>1, TableApplies, TableMoves
  <2>4. Inside(rows, Parsed.modifications) = fresh
    BY <1>1, <2>2, InsideIs
  <2>5. ASSUME NEW i \in DOMAIN start
        PROVE  NumberNow(Parsed, i - 1) = RowNumber(start[i])
    <3> DEFINE o == i - 1
    <3>1. o \in 0 .. Len(start) - 1 /\ o + 1 = i
      BY <1>1
    <3> HIDE DEF o
    <3>2. NumberNow(ParseComplete(change), o) = FoundAt(rows, start[o + 1])
      BY <1>1, <2>1, <3>1, TableNumbers
    <3> QED
      BY <2>1, <3>1, <3>2 DEF RowNumber, FoundAt, o
  <2> QED
    BY <2>3, <2>4, <2>5 DEF LogChangesRight
<1>5. CASE kind = "linked"
  <2>1. DOMAIN change.mapping = {} /\ Parsed = ParseComplete(change)
    BY <1>5 DEF LogInv, Parsed, Table
  <2>2. Parsed.modifications = change.modifications
    BY <1>1, <2>1, UntrackedParsed
  <2>3. Inside(rows, Parsed.modifications) = fresh
    BY <1>1, <2>2, InsideIs
  <2> QED
    BY <1>5, <2>3 DEF LogChangesRight, Track
<1> QED
  BY <1>2, <1>3, <1>4, <1>5

-----------------------------------------------------------------------------
(* A log that is empty.                                                    *)

\* It has no changes, and they are right.
LEMMA EmptyLog ==
    ASSUME NEW s \in Seq(Nat)
    PROVE  /\ NoChange \in Builders /\ ModsRight(NoChange, s, {})
           /\ TableRight(NoChange, s, s) /\ ListRight(NoChange, s, s)
           /\ DOMAIN NoChange.mapping = {}
<1>1. /\ NoChange \in Builders /\ Del(NoChange) = {} /\ Ins(NoChange) = {} /\ Mod(NoChange) = {}
      /\ NoChange.moves = << >> /\ DOMAIN NoChange.mapping = {}
  BY NoChangeIs
<1>2. Places({}, {}, s, s)
  BY PlacesSame
<1>3. Len(NoChange.moves) = 0
  BY <1>1
<1>4. Known(NoChange.moves, {}, {}, s, s) /\ Apart(NoChange.moves)
  BY <1>3 DEF Known, Apart
<1> QED
  BY <1>1, <1>2, <1>4, ModsEmpty, TableUnchanged DEF ListRight

\* LogInv holds at first.
LEMMA LogInvInit == Init => LogInv
<1> SUFFICES ASSUME Init PROVE LogInv
  OBVIOUS
<1>1. PICK n \in 0 .. MaxStart : start = [i \in 1 .. n |-> i - 1]
  BY DEF Init
<1>2. n \in Nat /\ n <= MaxRows
  BY BoundsAssumption
<1>3. start \in Seq(Nat) /\ Len(start) = n
  BY <1>1, <1>2
<1>4. \A p \in 1 .. n : start[p] = p - 1
  BY <1>1
<1>5. NoRepeats(start)
  BY <1>2, <1>3, <1>4 DEF NoRepeats
<1>6. rows = start /\ view = start /\ shown = start /\ fresh = {} /\ change = NoChange /\ kind \in Kinds
  BY DEF Init
<1>7. RowsRight
  BY <1>2, <1>3, <1>5, <1>6 DEF RowsRight
<1>8. /\ NoChange \in Builders /\ ModsRight(NoChange, start, {})
      /\ TableRight(NoChange, start, start) /\ ListRight(NoChange, start, start)
      /\ DOMAIN NoChange.mapping = {}
  BY <1>3, EmptyLog
<1> QED
  BY <1>6, <1>7, <1>8 DEF LogInv

-----------------------------------------------------------------------------
(* The instructions on a list, one by one.                                 *)

\* link_list_set.
LEMMA ListSet ==
    ASSUME NEW b \in Builders, NEW old \in Seq(Nat), NEW s \in Seq(Nat), ListRight(b, old, s),
           NEW i \in 0 .. Len(s) - 1
    PROVE  Modify(b, i) \in Builders /\ ListRight(Modify(b, i), old, s)
<1>1. i \in Nat
  OBVIOUS
<1>2. /\ Modify(b, i) \in Builders
      /\ Del(Modify(b, i)) = Del(b) /\ Ins(Modify(b, i)) = Ins(b) /\ Modify(b, i).moves = b.moves
  BY <1>1, ModifyIs
<1> QED
  BY <1>2 DEF ListRight

\* link_list_insert.
LEMMA ListInserted ==
    ASSUME NEW b \in Builders, NEW old \in Seq(Nat), NEW s \in Seq(Nat), ListRight(b, old, s),
           NEW F, ModsRight(b, s, F), NEW i \in 0 .. Len(s), NEW e \in Nat, e \notin F,
           NEW t, PutInAt(s, t, i, e)
    PROVE  LET c == Insert(b, i, 1, TRUE)
           IN  c \in Builders /\ ModsRight(c, t, F) /\ ListRight(c, old, t)
<1> DEFINE c == Insert(b, i, 1, TRUE)
           S == Ins(b)
           V == Ins(c)
           mv == b.moves
           w == c.moves
<1>0. i \in Nat /\ 1 \in Nat /\ 1 > 0 /\ TRUE \in BOOLEAN
  OBVIOUS
<1>p. Places(Del(b), S, old, s) /\ Known(mv, Del(b), S, old, s) /\ Apart(mv) /\ mv \in Seq(Moves)
  BY BuilderIs DEF ListRight
<1> HIDE DEF c, S, V, mv, w
<1>1. LET d == Insert(b, i, 1, TRUE)
      IN  /\ d \in Builders /\ d.deletions = b.deletions
          /\ \A z \in Nat : z \in Mod(d) <=>
               (z < i /\ z \in Mod(b)) \/ (i <= z - 1 /\ z - 1 \in Mod(b))
          /\ \A z \in Nat : z \in Ins(d) <=>
               \/ z < i /\ z \in Ins(b)
               \/ i <= z - 1 /\ z - 1 \in Ins(b)
               \/ i <= z /\ z < i + 1
          /\ Len(d.moves) = Len(b.moves)
          /\ \A k \in 1 .. Len(b.moves) :
               d.moves[k].from = b.moves[k].from /\ d.moves[k].to = After(b.moves[k].to, i, 1)
  BY ONLY b \in Builders, <1>0, InsertIs, ZenonT(60)
<1>2. /\ c \in Builders /\ c.deletions = b.deletions
      /\ \A z \in Nat : z \in Mod(c) <=> (z < i /\ z \in Mod(b)) \/ (i <= z - 1 /\ z - 1 \in Mod(b))
      /\ \A z \in Nat : z \in V <=>
           \/ z < i /\ z \in S
           \/ i <= z - 1 /\ z - 1 \in S
           \/ i <= z /\ z < i + 1
      /\ Len(w) = Len(mv)
      /\ \A k \in 1 .. Len(mv) : w[k].from = mv[k].from /\ w[k].to = After(mv[k].to, i, 1)
  BY ONLY <1>1 DEF c, S, V, mv, w
<1>3. Del(c) = Del(b)
  BY <1>2 DEF Del
<1>4. w \in Seq(Moves) /\ V \in SUBSET Nat /\ Mod(c) \in SUBSET Nat
  BY ONLY <1>2, BuilderIs DEF w, V
<1>5. Opened(S, V, i)
  BY <1>0, <1>2 DEF Opened
<1>6. Places(Del(b), V, old, t)
  BY ONLY old \in Seq(Nat), s \in Seq(Nat), <1>p, <1>4, <1>5, i \in 0 .. Len(s), e \in Nat,
     PutInAt(s, t, i, e), PlacesInserted, Zenon
<1>7. MovedUpAt(mv, w, i)
  BY <1>2, <1>4 DEF MovedUpAt
<1>8. S \in SUBSET (0 .. Len(s) - 1)
  BY <1>p DEF Places
<1>9. Known(w, Del(b), V, old, t) /\ Apart(w)
  BY ONLY s \in Seq(Nat), <1>p, <1>4, <1>5, <1>7, <1>8, i \in 0 .. Len(s),
     PutInAt(s, t, i, e), KnownInserted, Zenon
<1>10. ListRight(c, old, t)
  BY <1>3, <1>6, <1>9 DEF ListRight, V, w
<1>11. ModsRight(c, t, F)
  <2> DEFINE in == FALSE
             M == Mod(b)
             N == Mod(c)
  <2>1. Marks(M, s, F)
    BY DEF ModsRight, Marks
  <2>2. in \in BOOLEAN /\ (in <=> e \in F)
    OBVIOUS
  <2>3. MarkPut(M, N, i, in)
    BY <1>0, <1>2 DEF MarkPut
  <2> HIDE DEF in, M, N
  <2>4. N \in SUBSET Nat
    BY <1>4 DEF N
  <2>5. Marks(N, t, F)
    BY ONLY s \in Seq(Nat), <2>1, <2>2, <2>3, <2>4, i \in 0 .. Len(s), PutInAt(s, t, i, e), ModsPutIn, Zenon
  <2> QED
    BY <2>5 DEF ModsRight, Marks, N
<1> QED
  BY <1>2, <1>10, <1>11 DEF c

\* link_list_erase.
LEMMA ListErased ==
    ASSUME NEW b \in Builders, NEW old \in Seq(Nat), NEW s \in Seq(Nat), ListRight(b, old, s),
           NEW F, ModsRight(b, s, F), NEW i \in 0 .. Len(s) - 1, NEW t, TakenOutAt(s, t, i)
    PROVE  LET c == Erase(b, i)
           IN  c \in Builders /\ ModsRight(c, t, F) /\ ListRight(c, old, t)
<1> DEFINE c == Erase(b, i)
           S == Ins(b)
           V == Ins(c)
           D == Del(b)
           E == Del(c)
           mv == b.moves
           w == c.moves
           y == Was(b, i)
<1>0. i \in Nat
  OBVIOUS
<1>p. Places(D, S, old, s) /\ Known(mv, D, S, old, s) /\ Apart(mv) /\ mv \in Seq(Moves)
  BY BuilderIs DEF ListRight
<1>1. /\ c \in Builders
      /\ Closed(Mod(b), Mod(c), i) /\ Closed(S, V, i)
      /\ GoneWith(D, S, i, y, E)
      /\ w = KeptOf(mv, i)[Len(mv)]
  <2>1. LET d == Erase(b, i)
        IN  /\ d \in Builders /\ d.mapping = b.mapping
            /\ Closed(Mod(b), Mod(d), i) /\ Closed(Ins(b), Ins(d), i)
            /\ GoneWith(Del(b), Ins(b), i, Was(b, i), Del(d))
            /\ d.moves = KeptOf(b.moves, i)[Len(b.moves)]
    BY ONLY b \in Builders, <1>0, EraseIs, Zenon
  <2> QED
    BY ONLY <2>1
<1>2. y \in Nat
  BY <1>0, WasIs
<1>3. V \in SUBSET Nat /\ Mod(c) \in SUBSET Nat
  BY <1>1, BuilderIs
<1> HIDE DEF c, S, V, D, E, mv, w, y
<1>4. Places(E, V, old, t)
  BY ONLY old \in Seq(Nat), s \in Seq(Nat), <1>p, <1>1, <1>2, <1>3, i \in 0 .. Len(s) - 1,
     TakenOutAt(s, t, i), PlacesErased, Zenon
<1>5. LeftOver(mv, w, Len(mv), i) /\ Apart(w)
  BY <1>0, <1>1, <1>p, KeptIs
<1>6. D \subseteq E
  BY <1>1 DEF GoneWith
<1>7. S \in SUBSET (0 .. Len(s) - 1)
  BY <1>p DEF Places
<1>8. Known(w, E, V, old, t)
  <2>1. /\ Closed(S, V, i) /\ LeftOver(mv, w, Len(mv), i) /\ D \subseteq E
        /\ S \in SUBSET (0 .. Len(s) - 1) /\ V \in SUBSET Nat
        /\ mv \in Seq(Moves) /\ Known(mv, D, S, old, s)
    BY <1>1, <1>3, <1>5, <1>6, <1>7, <1>p
  <2> QED
    BY ONLY s \in Seq(Nat), <2>1, i \in 0 .. Len(s) - 1, TakenOutAt(s, t, i), KnownErased, Zenon
<1>9. ListRight(c, old, t)
  BY <1>4, <1>5, <1>8 DEF ListRight, E, V, w
<1>10. ModsRight(c, t, F)
  <2>1. Marks(Mod(b), s, F)
    BY DEF ModsRight, Marks
  <2>2. Closed(Mod(b), Mod(c), i) /\ Mod(c) \in SUBSET Nat
    BY <1>1, <1>3
  <2>3. Marks(Mod(c), t, F)
    BY ONLY s \in Seq(Nat), <2>1, <2>2, i \in 0 .. Len(s) - 1, TakenOutAt(s, t, i), ModsTakenOut, Zenon
  <2> QED
    BY <2>3 DEF ModsRight, Marks
<1> QED
  BY <1>1, <1>9, <1>10 DEF c

\* link_list_move.
LEMMA ListMoved ==
    ASSUME NEW b \in Builders, NEW old \in Seq(Nat), NEW s \in Seq(Nat), ListRight(b, old, s),
           NEW F, ModsRight(b, s, F), NEW from \in 0 .. Len(s) - 1, NEW to \in 0 .. Len(s) - 1,
           NEW u, TakenOutAt(s, u, from), NEW e, e = s[from + 1], NEW t, PutInAt(u, t, to, e)
    PROVE  LET c == Move(b, from, to)
           IN  c \in Builders /\ ModsRight(c, t, F) /\ ListRight(c, old, t)
<1> DEFINE c == Move(b, from, to)
           M == Members(EraseIndex(b.modifications, from))
           J == Members(EraseIndex(b.insertions, from))
           I == Ins(b)
           V == Ins(c)
           D == Del(b)
           E == Del(c)
           mv == b.moves
           w == c.moves
           y == Was(b, from)
<1>0. from \in Nat /\ to \in Nat
  OBVIOUS
<1>p. Places(D, I, old, s) /\ Known(mv, D, I, old, s) /\ Apart(mv) /\ mv \in Seq(Moves)
  BY BuilderIs DEF ListRight
<1>k. \A k \in 1 .. Len(b.moves) : b.moves[k].to \in Ins(b)
  BY <1>p DEF Known
<1>1. /\ c \in Builders /\ c.mapping = b.mapping
      /\ M \in SUBSET Nat /\ Closed(Mod(b), M, from) /\ ModsMoved(Mod(b), M, Mod(c), from, to)
      /\ J \in SUBSET Nat /\ Closed(I, J, from) /\ Opened(J, V, to)
      /\ GoneWith(D, I, from, y, E)
      /\ MovedBy(mv, w, y, from, to, from \in I)
  BY ONLY b \in Builders, <1>0, <1>k, MoveIs
<1>2. y \in Nat
  BY <1>0, WasIs
<1>3. V \in SUBSET Nat /\ Mod(c) \in SUBSET Nat
  BY <1>1, BuilderIs
<1>u. u \in Seq(Nat) /\ Len(u) = Len(s) - 1 /\ e \in Nat
  <2>1. from + 1 \in 1 .. Len(s)
    OBVIOUS
  <2> QED
    BY <2>1 DEF TakenOutAt
<1>to. to \in 0 .. Len(u)
  BY <1>u
<1> HIDE DEF c, M, J, I, V, D, E, mv, w, y
<1>4. Places(E, J, old, u) /\ (from \notin I => y \in 0 .. Len(old) - 1 /\ old[y + 1] = s[from + 1])
  <2>1. /\ Places(D, I, old, s) /\ J \in SUBSET Nat /\ Closed(I, J, from) /\ y \in Nat
        /\ GoneWith(D, I, from, y, E)
    BY <1>1, <1>2, <1>p
  <2>2. Places(E, J, old, u)
    BY ONLY old \in Seq(Nat), s \in Seq(Nat), <2>1, from \in 0 .. Len(s) - 1,
       TakenOutAt(s, u, from), PlacesErased, Zenon
  <2>3. from \notin I => y \in 0 .. Len(old) - 1 /\ old[y + 1] = s[from + 1]
    BY ONLY old \in Seq(Nat), s \in Seq(Nat), <2>1, from \in 0 .. Len(s) - 1,
       TakenOutAt(s, u, from), PlacesErased, Zenon
  <2> QED
    BY <2>2, <2>3
<1>5. Places(E, V, old, t)
  BY ONLY old \in Seq(Nat), <1>u, <1>to, <1>4, <1>1, <1>3,
     PutInAt(u, t, to, e), PlacesInserted, Zenon
<1>6. D \subseteq E
  BY <1>1 DEF GoneWith
<1>7. I \in SUBSET (0 .. Len(s) - 1)
  BY <1>p DEF Places
<1>8. MovedRow(I, D, E, old, e, y, from)
  BY <1>1, <1>4 DEF GoneWith, MovedRow
<1>m. MovedOf(mv, w, y, from, to, I) /\ PlaceMoved(I, J, V, from, to) /\ RowMoved(s, u, t, from, to, e)
  BY <1>1 DEF MovedOf, PlaceMoved, RowMoved
<1>9. Known(w, E, V, old, t) /\ Apart(w)
  <2>1. Known(mv, D, I, old, s) /\ Apart(mv) /\ mv \in Seq(Moves)
    BY <1>p
  <2>2. MoveMade(old, s, u, t, from, to, e, D, E, I, J, V, y, mv, w)
    BY ONLY <1>6, <1>7, <1>m, <1>2, <1>8, <2>1 DEF MoveMade
  <2> QED
    BY ONLY <2>2, KnownMoved
<1>10. ListRight(c, old, t)
  BY <1>5, <1>9 DEF ListRight, E, V, w
<1>11. ModsRight(c, t, F)
  <2> DEFINE in == from \in Mod(b)
             N == Mod(c)
             S == Mod(b)
  <2>1. Marks(S, s, F)
    BY DEF ModsRight, Marks
  <2>2. Marks(M, u, F)
    <3>1. M \in SUBSET Nat /\ Closed(S, M, from)
      BY <1>1
    <3> HIDE DEF S
    <3> QED
      BY ONLY s \in Seq(Nat), <2>1, <3>1, from \in 0 .. Len(s) - 1, TakenOutAt(s, u, from), ModsTakenOut, Zenon
  <2>3. in \in BOOLEAN /\ (in <=> e \in F)
    BY <2>1 DEF Marks
  <2>4. MarkPut(M, N, to, in)
    BY <1>1 DEF ModsMoved, MarkPut
  <2> HIDE DEF in, N, S
  <2>5. N \in SUBSET Nat
    BY <1>3 DEF N
  <2>6. Marks(N, t, F)
    BY ONLY <1>u, <1>to, <2>2, <2>3, <2>4, <2>5, PutInAt(u, t, to, e), ModsPutIn, Zenon
  <2> QED
    BY <2>6 DEF ModsRight, Marks, N
<1> QED
  BY <1>1, <1>10, <1>11 DEF c

\* link_list_clear.
LEMMA ListCleared ==
    ASSUME NEW b \in Builders, NEW old \in Seq(Nat), NEW s \in Seq(Nat), ListRight(b, old, s),
           Huge \in Nat, Len(old) <= Huge, Len(s) < Huge, NEW t, t = << >>
    PROVE  LET c == Clear(b, Len(s))
           IN  c \in Builders /\ Mod(c) = {} /\ ListRight(c, old, t)
<1> DEFINE c == Clear(b, Len(s))
<1>1. Places(Del(b), Ins(b), old, s)
  BY DEF ListRight
<1>2. /\ c \in Builders /\ Del(c) = 0 .. Len(old) - 1 /\ Ins(c) = {} /\ Mod(c) = {}
      /\ c.moves = << >>
  BY <1>1, ClearListIs
<1> HIDE DEF c
<1>3. Places(Del(c), Ins(c), old, t)
  BY <1>2, PlacesCleared
<1>4. Known(c.moves, Del(c), Ins(c), old, t) /\ Apart(c.moves)
  <2>1. Len(c.moves) = 0
    BY <1>2
  <2> QED
    BY <2>1 DEF Known, Apart
<1> QED
  BY <1>2, <1>3, <1>4 DEF ListRight, c

-----------------------------------------------------------------------------
(* An instruction keeps the changes right.                                 *)

\* The changes c are right for the rows t, of which G were modified as well.
TellsOf(t, G, c) ==
    /\ t \in Seq(Nat) /\ Len(t) <= MaxRows /\ NoRepeats(t)
    /\ c \in Builders
    /\ ModsRight(c, t, fresh \cup G)
    /\ kind \in {"query", "sorted"} => TableRight(c, start, t)
    /\ kind = "list" => ListRight(c, start, t)
    /\ kind = "linked" => DOMAIN c.mapping = {}

\* The observer told of them keeps LogInv.
LEMMA ToldKeeps ==
    ASSUME LogInv, NEW t, NEW G, NEW c, TellsOf(t, G, c), Told(t, G, c)
    PROVE  LogInv'
<1>1. /\ rows' = t /\ change' = c /\ fresh' = (fresh \cup G) \cap ToSet(t)
      /\ kind' = kind /\ start' = start /\ shown' = shown /\ view' = view
  BY DEF Told
<1>2. RowsRight'
  BY <1>1 DEF LogInv, RowsRight, TellsOf
<1>3. ModsRight(c, t, (fresh \cup G) \cap ToSet(t))
  <2>1. t \in Seq(Nat) /\ ModsRight(c, t, fresh \cup G)
    BY DEF TellsOf
  <2> QED
    BY ONLY <2>1, ModsWithin
<1>4. ModsRight(change, rows, fresh)'
  BY <1>1, <1>3 DEF ModsRight, Mod
<1>5. (kind \in {"query", "sorted"} => TableRight(change, start, rows))'
  BY <1>1 DEF TellsOf
<1>6. (kind = "list" => ListRight(change, start, rows))'
  BY <1>1 DEF TellsOf
<1>7. (kind = "linked" => DOMAIN change.mapping = {})'
  BY <1>1 DEF TellsOf
<1>8. change' \in Builders
  BY <1>1 DEF TellsOf
<1> QED
  BY <1>2, <1>4, <1>5, <1>6, <1>7, <1>8 DEF LogInv

\* What LogInv says, together with the bounds.
LEMMA LogRows ==
    ASSUME LogInv
    PROVE  /\ kind \in Kinds /\ kind \in {"list", "query", "sorted", "linked"}
           /\ start \in Seq(Nat) /\ Len(start) <= MaxRows /\ Len(start) \in Nat
           /\ rows \in Seq(Nat) /\ Len(rows) <= MaxRows /\ Len(rows) \in Nat /\ NoRepeats(rows)
           /\ MaxRows \in Nat /\ Huge \in Nat /\ Huge > MaxRows /\ fresh \subseteq ToSet(rows)
           /\ change \in Builders /\ ModsRight(change, rows, fresh)
           /\ (kind \in {"query", "sorted"} => TableRight(change, start, rows))
           /\ (kind = "list" => ListRight(change, start, rows))
           /\ (kind = "linked" => DOMAIN change.mapping = {})
<1>1. /\ kind \in Kinds
      /\ start \in Seq(Nat) /\ Len(start) <= MaxRows
      /\ rows \in Seq(Nat) /\ Len(rows) <= MaxRows /\ NoRepeats(rows)
      /\ fresh \subseteq ToSet(rows)
  BY DEF LogInv, RowsRight
<1>2. /\ MaxRows \in Nat /\ Huge \in Nat /\ MaxOps[kind] \in Nat /\ Huge > MaxRows + MaxOps[kind]
      /\ kind \in {"list", "query", "sorted", "linked"}
  BY <1>1, BoundsAssumption
<1>3. Huge > MaxRows
  <2> DEFINE o == MaxOps[kind]
  <2>1. o \in Nat /\ Huge > MaxRows + o
    BY <1>2
  <2> HIDE DEF o
  <2> QED
    BY ONLY <1>2, <2>1
<1>4. Len(start) \in Nat /\ Len(rows) \in Nat
  BY <1>1
<1> QED
  BY <1>1, <1>2, <1>3, <1>4 DEF LogInv

\* link_list_set.
LEMMA ListSetKeeps ==
    ASSUME LogInv, LinkListSet PROVE LogInv'
<1>1. PICK i \in Positions : Told(rows, {RowAt(i)}, Modify(change, i))
  BY DEF LinkListSet
<1>2. kind = "list" /\ i \in 0 .. Len(rows) - 1
  BY DEF LinkListSet, Table, Positions
<1> DEFINE c == Modify(change, i)
<1>3. /\ rows \in Seq(Nat) /\ Len(rows) <= MaxRows /\ NoRepeats(rows) /\ start \in Seq(Nat)
      /\ change \in Builders /\ ModsRight(change, rows, fresh) /\ ListRight(change, start, rows)
  BY <1>2, LogRows
<1>4. c \in Builders /\ ListRight(c, start, rows)
  BY <1>2, <1>3, ListSet
<1>5. ModsRight(c, rows, fresh \cup {RowAt(i)})
  BY <1>2, <1>3, ModsSet DEF RowAt
<1> HIDE DEF c
<1>6. TellsOf(rows, {RowAt(i)}, c)
  BY <1>2, <1>3, <1>4, <1>5 DEF TellsOf
<1> QED
  BY ONLY <1>1, <1>6, LogInv, ToldKeeps DEF c

\* link_list_swap: two modifications.
LEMMA ListSwapKeeps ==
    ASSUME LogInv, LinkListSwap PROVE LogInv'
<1>1. PICK i \in Positions, j \in Positions :
        Told(rows, {RowAt(i), RowAt(j)}, Modify(Modify(change, i), j))
  BY DEF LinkListSwap
<1>2. kind = "list" /\ i \in 0 .. Len(rows) - 1 /\ j \in 0 .. Len(rows) - 1
  BY DEF LinkListSwap, Table, Positions
<1> DEFINE b == Modify(change, i)
           c == Modify(b, j)
           F == fresh \cup {RowAt(i)}
<1>3. /\ rows \in Seq(Nat) /\ Len(rows) <= MaxRows /\ NoRepeats(rows) /\ start \in Seq(Nat)
      /\ change \in Builders /\ ModsRight(change, rows, fresh) /\ ListRight(change, start, rows)
  BY <1>2, LogRows
<1>4. b \in Builders /\ ListRight(b, start, rows) /\ ModsRight(b, rows, F)
  BY <1>2, <1>3, ListSet, ModsSet DEF RowAt
<1> HIDE DEF b, F
<1>5. c \in Builders /\ ListRight(c, start, rows) /\ ModsRight(c, rows, F \cup {RowAt(j)})
  BY <1>2, <1>3, <1>4, ListSet, ModsSet DEF RowAt
<1>6. F \cup {RowAt(j)} = fresh \cup {RowAt(i), RowAt(j)}
  BY DEF F
<1> HIDE DEF c
<1>7. TellsOf(rows, {RowAt(i), RowAt(j)}, c)
  BY <1>2, <1>3, <1>5, <1>6 DEF TellsOf
<1> QED
  BY ONLY <1>1, <1>7, LogInv, ToldKeeps DEF c, b

\* link_list_insert.
LEMMA ListInsertKeeps ==
    ASSUME LogInv, LinkListInsert PROVE LogInv'
<1>1. PICK i \in 0 .. Len(rows) : Told(InsertAt(rows, i + 1, NewRow), {}, Insert(change, i, 1, TRUE))
  BY DEF LinkListInsert
<1> DEFINE e == NewRow
           p == i + 1
           t == InsertAt(rows, p, e)
           c == Insert(change, i, 1, TRUE)
<1>2. kind = "list" /\ Len(rows) < MaxRows
  BY DEF LinkListInsert, Table
<1>3. /\ rows \in Seq(Nat) /\ Len(rows) \in Nat /\ MaxRows \in Nat /\ NoRepeats(rows) /\ start \in Seq(Nat)
      /\ change \in Builders /\ ModsRight(change, rows, fresh) /\ ListRight(change, start, rows)
      /\ fresh \subseteq ToSet(rows)
  BY <1>2, LogRows
<1>4. e \in Nat /\ e \notin ToSet(rows)
  BY NewRowIs DEF LogInv, Names
<1>5. p = i + 1
  OBVIOUS
<1> HIDE DEF e, p
<1>6. PutInAt(rows, t, i, e)
  BY ONLY <1>3, <1>4, <1>5, i \in 0 .. Len(rows), RowInserted
<1> HIDE DEF t
<1>7. \A x \in 0 .. Len(rows) - 1 : rows[x + 1] # e
  BY <1>3, <1>4, ToSetIs
<1>8. t \in Seq(Nat) /\ Len(t) = Len(rows) + 1 /\ NoRepeats(t)
  BY ONLY <1>3, <1>6, <1>7, i \in 0 .. Len(rows), OncePutIn
<1>9. Len(t) <= MaxRows
  BY ONLY <1>2, <1>3, <1>8
<1>10. e \notin fresh
  BY <1>3, <1>4
<1>11. c \in Builders /\ ModsRight(c, t, fresh) /\ ListRight(c, start, t)
  BY ONLY <1>3, <1>4, <1>6, <1>10, i \in 0 .. Len(rows), ListInserted
<1> HIDE DEF c
<1>12. TellsOf(t, {}, c)
  BY <1>2, <1>8, <1>9, <1>11 DEF TellsOf
<1>13. Told(t, {}, c)
  BY <1>1 DEF t, c, e, p
<1> QED
  BY ONLY <1>12, <1>13, LogInv, ToldKeeps

\* link_list_erase.
LEMMA ListEraseKeeps ==
    ASSUME LogInv, LinkListErase PROVE LogInv'
<1>1. PICK i \in Positions : Told(RemoveAt(rows, i + 1), {}, Erase(change, i))
  BY DEF LinkListErase
<1> DEFINE p == i + 1
           t == RemoveAt(rows, p)
           c == Erase(change, i)
<1>2. kind = "list" /\ i \in 0 .. Len(rows) - 1
  BY DEF LinkListErase, Table, Positions
<1>3. /\ rows \in Seq(Nat) /\ Len(rows) \in Nat /\ MaxRows \in Nat /\ NoRepeats(rows) /\ start \in Seq(Nat)
      /\ change \in Builders /\ ModsRight(change, rows, fresh) /\ ListRight(change, start, rows)
      /\ Len(rows) <= MaxRows
  BY <1>2, LogRows
<1>4. p = i + 1
  OBVIOUS
<1> HIDE DEF p
<1>5. TakenOutAt(rows, t, i)
  BY ONLY <1>2, <1>3, <1>4, RowRemoved
<1> HIDE DEF t
<1>6. t \in Seq(Nat) /\ Len(t) = Len(rows) - 1 /\ NoRepeats(t)
  BY ONLY <1>2, <1>3, <1>5, OnceTakenOut
<1>7. Len(t) <= MaxRows
  BY ONLY <1>3, <1>6
<1>8. c \in Builders /\ ModsRight(c, t, fresh) /\ ListRight(c, start, t)
  BY ONLY <1>2, <1>3, <1>5, ListErased
<1> HIDE DEF c
<1>9. TellsOf(t, {}, c)
  BY <1>2, <1>6, <1>7, <1>8 DEF TellsOf
<1>10. Told(t, {}, c)
  BY <1>1 DEF t, c, p
<1> QED
  BY ONLY <1>9, <1>10, LogInv, ToldKeeps

\* link_list_move: the row is taken out and put in again.
LEMMA ListMoveKeeps ==
    ASSUME LogInv, LinkListMove PROVE LogInv'
<1>1. PICK i \in Positions, j \in Positions :
        Told(InsertAt(RemoveAt(rows, i + 1), j + 1, RowAt(i)), {}, Move(change, i, j))
  BY DEF LinkListMove
<1> DEFINE p == i + 1
           q == j + 1
           e == RowAt(i)
           u == RemoveAt(rows, p)
           t == InsertAt(u, q, e)
           c == Move(change, i, j)
<1>2. kind = "list" /\ i \in 0 .. Len(rows) - 1 /\ j \in 0 .. Len(rows) - 1
  BY DEF LinkListMove, Table, Positions
<1>3. /\ rows \in Seq(Nat) /\ Len(rows) \in Nat /\ MaxRows \in Nat /\ NoRepeats(rows) /\ start \in Seq(Nat)
      /\ change \in Builders /\ ModsRight(change, rows, fresh) /\ ListRight(change, start, rows)
      /\ Len(rows) <= MaxRows
  BY <1>2, LogRows
<1>4. p = i + 1 /\ q = j + 1 /\ e = rows[i + 1] /\ e \in Nat
  BY <1>2, <1>3 DEF RowAt
<1> HIDE DEF p, q, e
<1>5. TakenOutAt(rows, u, i)
  BY ONLY <1>2, <1>3, <1>4, RowRemoved
<1> HIDE DEF u
<1>6. u \in Seq(Nat) /\ Len(u) = Len(rows) - 1 /\ NoRepeats(u) /\ \A x \in 0 .. Len(u) - 1 : u[x + 1] # e
  <2>1. /\ u \in Seq(Nat) /\ Len(u) = Len(rows) - 1 /\ NoRepeats(u)
        /\ \A x \in 0 .. Len(u) - 1 : u[x + 1] # rows[i + 1]
    BY ONLY <1>2, <1>3, <1>5, OnceTakenOut
  <2> QED
    BY ONLY <1>4, <2>1
<1>7. j \in 0 .. Len(u)
  BY <1>2, <1>3, <1>6
<1>8. PutInAt(u, t, j, e)
  BY ONLY <1>4, <1>6, <1>7, RowInserted
<1> HIDE DEF t
<1>9. t \in Seq(Nat) /\ Len(t) = Len(u) + 1 /\ NoRepeats(t)
  BY ONLY <1>6, <1>7, <1>8, OncePutIn
<1>10. Len(t) <= MaxRows
  BY ONLY <1>3, <1>6, <1>9
<1>11. c \in Builders /\ ModsRight(c, t, fresh) /\ ListRight(c, start, t)
  BY ONLY <1>2, <1>3, <1>4, <1>5, <1>8, ListMoved
<1> HIDE DEF c
<1>12. TellsOf(t, {}, c)
  BY <1>2, <1>9, <1>10, <1>11 DEF TellsOf
<1>13. Told(t, {}, c)
  BY <1>1 DEF t, c, p, q, e, u
<1> QED
  BY ONLY <1>12, <1>13, LogInv, ToldKeeps

\* The empty collection.
LEMMA NoRows ==
    << >> \in Seq(Nat) /\ Len(<< >>) = 0 /\ NoRepeats(<< >>)
<1>1. << >> \in Seq(Nat) /\ Len(<< >>) = 0
  OBVIOUS
<1> DEFINE s == << >>
<1>2. s \in Seq(Nat) /\ ~(\E x \in 0 .. Len(s) - 1 : TRUE)
  BY <1>1
<1> HIDE DEF s
<1>3. NoRepeats(s)
  BY ONLY <1>2, NoRepeatsIs
<1> QED
  BY <1>1, <1>3 DEF s

\* link_list_clear.
LEMMA ListClearKeeps ==
    ASSUME LogInv, LinkListClear PROVE LogInv'
<1> DEFINE t == << >>
           c == Clear(change, Len(rows))
<1>1. kind = "list" /\ Told(t, {}, c)
  BY DEF LinkListClear, Table
<1>2. /\ rows \in Seq(Nat) /\ Len(rows) \in Nat /\ MaxRows \in Nat /\ start \in Seq(Nat)
      /\ change \in Builders /\ ListRight(change, start, rows) /\ Huge \in Nat
      /\ Len(start) \in Nat /\ Len(start) <= MaxRows /\ Len(rows) <= MaxRows /\ Huge > MaxRows
  BY <1>1, LogRows
<1>3. Len(start) <= Huge /\ Len(rows) < Huge
  BY ONLY <1>2
<1>4. t = << >>
  OBVIOUS
<1>5. t \in Seq(Nat) /\ Len(t) <= MaxRows /\ NoRepeats(t)
  BY <1>2, NoRows
<1> HIDE DEF t
<1>6. c \in Builders /\ Mod(c) = {} /\ ListRight(c, start, t)
  BY ONLY <1>2, <1>3, <1>4, ListCleared
<1> HIDE DEF c
<1>7. ModsRight(c, t, fresh \cup {})
  BY <1>4, <1>6 DEF ModsRight
<1>8. TellsOf(t, {}, c)
  BY <1>1, <1>5, <1>6, <1>7 DEF TellsOf
<1> QED
  BY ONLY <1>1, <1>8, LogInv, ToldKeeps

\* mark_dirty.
LEMMA DirtyKeeps ==
    ASSUME LogInv, MarkDirty PROVE LogInv'
<1>1. PICK i \in Positions : Told(rows, {RowAt(i)}, Modify(change, i))
  BY DEF MarkDirty
<1>2. kind # "list" /\ i \in 0 .. Len(rows) - 1 /\ i \in Nat
  BY DEF MarkDirty, Table, Positions
<1> DEFINE c == Modify(change, i)
<1>3. /\ rows \in Seq(Nat) /\ Len(rows) <= MaxRows /\ NoRepeats(rows) /\ start \in Seq(Nat)
      /\ change \in Builders /\ ModsRight(change, rows, fresh)
      /\ (kind \in {"query", "sorted"} => TableRight(change, start, rows))
      /\ (kind = "linked" => DOMAIN change.mapping = {})
  BY LogRows
<1>4. /\ c \in Builders /\ c.deletions = change.deletions /\ c.insertions = change.insertions
      /\ c.mapping = change.mapping
  BY <1>2, <1>3, ModifyIs
<1>5. ModsRight(c, rows, fresh \cup {RowAt(i)})
  BY <1>2, <1>3, ModsSet DEF RowAt
<1> HIDE DEF c
<1>6. kind \in {"query", "sorted"} => TableRight(c, start, rows)
  BY <1>3, <1>4, TableModified
<1>7. TellsOf(rows, {RowAt(i)}, c)
  BY <1>2, <1>3, <1>4, <1>5, <1>6 DEF TellsOf
<1> QED
  BY ONLY <1>1, <1>7, LogInv, ToldKeeps DEF c

\* erase_rows.
LEMMA EraseRowsKeeps ==
    ASSUME LogInv, EraseRows PROVE LogInv'
<1>1. PICK i \in Positions : Told(OverLast(rows, i), {}, MoveOver(change, i, Len(rows) - 1, Track))
  BY DEF EraseRows
<1> DEFINE last == Len(rows) - 1
           t == OverLast(rows, i)
           c == MoveOver(change, i, last, Track)
<1>2. kind # "list" /\ i \in 0 .. Len(rows) - 1 /\ i \in Nat /\ i \in 0 .. last /\ last \in Nat
  BY LogRows DEF EraseRows, Table, Positions
<1>3. /\ rows \in Seq(Nat) /\ Len(rows) <= MaxRows /\ Len(rows) \in Nat /\ MaxRows \in Nat /\ NoRepeats(rows)
      /\ start \in Seq(Nat) /\ change \in Builders /\ ModsRight(change, rows, fresh)
      /\ kind \in {"list", "query", "sorted", "linked"}
      /\ (kind \in {"query", "sorted"} => TableRight(change, start, rows))
      /\ (kind = "linked" => DOMAIN change.mapping = {})
  BY LogRows
<1>4. last = Len(rows) - 1
  OBVIOUS
<1>5. Track = (kind # "linked")
  BY DEF Track
<1> HIDE DEF last
<1>6. OverRows(rows, t, i)
  BY ONLY <1>2, <1>3, OverLastIs
<1> HIDE DEF t
<1>7. t \in Seq(Nat) /\ Len(t) = Len(rows) - 1 /\ NoRepeats(t)
  BY ONLY <1>2, <1>3, <1>6, OnceOver
<1>8. /\ c \in Builders /\ c.modifications = ModsOver(change, i, last)
      /\ (kind \in {"query", "sorted"} => TableRight(c, start, t))
      /\ (kind = "linked" => c.mapping = change.mapping)
  <2>1. CASE kind = "linked"
    <3> DEFINE d == MoveOver(change, i, last, FALSE)
    <3>1. /\ d \in Builders /\ d.modifications = ModsOver(change, i, last) /\ d.mapping = change.mapping
      BY ONLY <1>2, <1>3, MovedUntracked
    <3>2. c = d
      BY <1>5, <2>1
    <3> HIDE DEF c, d
    <3> QED
      BY <2>1, <3>1, <3>2
  <2>2. CASE kind \in {"query", "sorted"}
    <3> DEFINE d == MoveOver(change, i, last, TRUE)
    <3>1. /\ d \in Builders /\ d.modifications = ModsOver(change, i, last) /\ TableRight(d, start, t)
      BY ONLY <1>2, <1>3, <1>4, <1>6, <2>2, TableErased
    <3>2. c = d
      BY <1>5, <2>2
    <3> HIDE DEF c, d
    <3> QED
      BY <2>2, <3>1, <3>2
  <2> QED
    BY ONLY <1>2, <1>3, <2>1, <2>2
<1> HIDE DEF c
<1>9. ModsRight(c, t, fresh)
  BY ONLY <1>2, <1>3, <1>4, <1>6, <1>8, ModsErasedRow
<1>10. Len(t) <= MaxRows
  BY ONLY <1>3, <1>7
<1>11. TellsOf(t, {}, c)
  BY <1>2, <1>3, <1>7, <1>8, <1>9, <1>10 DEF TellsOf
<1>12. Told(t, {}, c)
  BY <1>1 DEF t, c, last
<1> QED
  BY ONLY <1>11, <1>12, LogInv, ToldKeeps

\* swap_rows.
LEMMA SwapRowsKeeps ==
    ASSUME LogInv, SwapTableRows PROVE LogInv'
<1>1. PICK i \in Positions, j \in Positions :
        /\ i < j
        /\ Told([rows EXCEPT ![i + 1] = RowAt(j), ![j + 1] = RowAt(i)], {}, SwapRows(change, i, j, Track))
  BY DEF SwapTableRows
<1> DEFINE t == [rows EXCEPT ![i + 1] = RowAt(j), ![j + 1] = RowAt(i)]
           c == SwapRows(change, i, j, Track)
<1>2. /\ kind # "list" /\ i \in 0 .. Len(rows) - 1 /\ i \in Nat /\ j \in 0 .. Len(rows) - 1 /\ j \in Nat
      /\ i # j /\ i < j
  BY <1>1 DEF SwapTableRows, Table, Positions
<1>3. /\ rows \in Seq(Nat) /\ Len(rows) <= MaxRows /\ Len(rows) \in Nat /\ MaxRows \in Nat /\ NoRepeats(rows)
      /\ start \in Seq(Nat) /\ change \in Builders /\ ModsRight(change, rows, fresh)
      /\ kind \in {"list", "query", "sorted", "linked"}
      /\ (kind \in {"query", "sorted"} => TableRight(change, start, rows))
      /\ (kind = "linked" => DOMAIN change.mapping = {})
  BY LogRows
<1>4. Track = (kind # "linked")
  BY DEF Track
<1>5. t \in Seq(Nat) /\ Len(t) = Len(rows)
  BY <1>2, <1>3, SMTT(30) DEF RowAt
<1>6. \A x \in 0 .. Len(rows) - 1 : t[x + 1] = rows[Swapped(x, i, j) + 1]
  <2> TAKE x \in 0 .. Len(rows) - 1
  <2>1. x + 1 \in DOMAIN rows /\ (x + 1 = i + 1 <=> x = i) /\ (x + 1 = j + 1 <=> x = j)
    BY <1>2, <1>3
  <2>2. t[x + 1] = IF x = j THEN rows[i + 1] ELSE IF x = i THEN rows[j + 1] ELSE rows[x + 1]
    BY <2>1 DEF RowAt
  <2>3. Swapped(x, i, j) = IF x = j THEN i ELSE IF x = i THEN j ELSE x
    BY <1>2 DEF Swapped
  <2> HIDE DEF t
  <2> QED
    BY ONLY <2>2, <2>3
<1> HIDE DEF t
<1>7. NoRepeats(t)
  BY ONLY <1>2, <1>3, <1>5, <1>6, OnceSwapped
<1>8. /\ c \in Builders /\ c.modifications = ModsSwapped(change, i, j)
      /\ (kind \in {"query", "sorted"} => TableRight(c, start, t))
      /\ (kind = "linked" => c.mapping = change.mapping)
  <2>1. CASE kind = "linked"
    <3> DEFINE d == SwapRows(change, i, j, FALSE)
    <3>1. /\ d \in Builders /\ d.modifications = ModsSwapped(change, i, j) /\ d.mapping = change.mapping
      BY ONLY <1>2, <1>3, SwapUntracked
    <3>2. c = d
      BY <1>4, <2>1
    <3> HIDE DEF c, d
    <3> QED
      BY <2>1, <3>1, <3>2
  <2>2. CASE kind \in {"query", "sorted"}
    <3> DEFINE d == SwapRows(change, i, j, TRUE)
    <3>1. /\ d \in Builders /\ d.modifications = ModsSwapped(change, i, j) /\ TableRight(d, start, t)
      BY ONLY <1>2, <1>3, <1>5, <1>6, <2>2, TableSwapped
    <3>2. c = d
      BY <1>4, <2>2
    <3> HIDE DEF c, d
    <3> QED
      BY <2>2, <3>1, <3>2
  <2> QED
    BY ONLY <1>2, <1>3, <2>1, <2>2
<1> HIDE DEF c
<1>9. ModsRight(c, t, fresh)
  BY ONLY <1>2, <1>3, <1>5, <1>6, <1>8, ModsSwappedRight
<1>10. TellsOf(t, {}, c)
  BY <1>2, <1>3, <1>5, <1>7, <1>8, <1>9 DEF TellsOf
<1>11. Told(t, {}, c)
  BY <1>1 DEF t, c
<1> QED
  BY ONLY <1>10, <1>11, LogInv, ToldKeeps

\* clear of a table.
LEMMA ClearTableKeeps ==
    ASSUME LogInv, ClearTable PROVE LogInv'
<1> DEFINE t == << >>
           c == Clear(change, Huge)
<1>1. kind # "list" /\ Told(t, {}, c)
  BY DEF ClearTable, Table
<1>2. /\ start \in Seq(Nat) /\ Huge \in Nat /\ MaxRows \in Nat
      /\ Len(start) \in Nat /\ Len(start) <= MaxRows /\ Huge > MaxRows
  BY LogRows
<1>3. Len(start) <= Huge
  BY ONLY <1>2
<1>4. t = << >>
  OBVIOUS
<1>5. t \in Seq(Nat) /\ Len(t) <= MaxRows /\ NoRepeats(t)
  BY <1>2, NoRows
<1> HIDE DEF t
<1>6. c \in Builders /\ Mod(c) = {} /\ TableRight(c, start, t)
  BY ONLY <1>2, <1>3, <1>4, TableCleared
<1>7. DOMAIN c.mapping = {}
  BY ONLY <1>2, ClearTableIs
<1> HIDE DEF c
<1>8. ModsRight(c, t, fresh \cup {})
  BY <1>4, <1>6 DEF ModsRight
<1>9. TellsOf(t, {}, c)
  BY <1>1, <1>5, <1>6, <1>7, <1>8 DEF TellsOf
<1> QED
  BY ONLY <1>1, <1>9, LogInv, ToldKeeps

\* merge_rows and the deletion that follows.
LEMMA MergeKeeps ==
    ASSUME LogInv, MergeRows PROVE LogInv'
<1>1. PICK i \in Positions, j \in Positions :
        /\ i # j /\ RowAt(j) \notin ToSet(start) /\ j \notin DOMAIN change.mapping
        /\ Told(OverLast([rows EXCEPT ![j + 1] = RowAt(i)], i),
                IF RowAt(j) \in fresh THEN {RowAt(i)} ELSE {},
                MoveOver(Subsume(change, i, j, Track), i, Len(rows) - 1, Track))
  BY DEF MergeRows
<1> DEFINE last == Len(rows) - 1
           u == [rows EXCEPT ![j + 1] = RowAt(i)]
           t == OverLast(u, i)
           G == IF RowAt(j) \in fresh THEN {RowAt(i)} ELSE {}
           F == fresh \cup G
           d == Subsume(change, i, j, Track)
           c == MoveOver(d, i, last, Track)
<1>2. /\ kind # "list" /\ i \in 0 .. Len(rows) - 1 /\ i \in Nat /\ j \in 0 .. Len(rows) - 1 /\ j \in Nat
      /\ i # j /\ i \in 0 .. last /\ j \in 0 .. last /\ last \in Nat
  BY <1>1, LogRows DEF MergeRows, Table, Positions
<1>3. /\ rows \in Seq(Nat) /\ Len(rows) <= MaxRows /\ Len(rows) \in Nat /\ MaxRows \in Nat /\ NoRepeats(rows)
      /\ start \in Seq(Nat) /\ change \in Builders /\ ModsRight(change, rows, fresh)
      /\ kind \in {"list", "query", "sorted", "linked"}
      /\ (kind \in {"query", "sorted"} => TableRight(change, start, rows))
      /\ (kind = "linked" => DOMAIN change.mapping = {})
  BY LogRows
<1>4. last = Len(rows) - 1
  OBVIOUS
<1>5. Track = (kind # "linked")
  BY DEF Track
<1>6. rows[j + 1] \notin ToSet(start) /\ j \notin DOMAIN change.mapping
  BY <1>1 DEF RowAt
<1>7. MarksOver(rows, fresh, F, i, j)
  BY DEF RowAt, MarksOver
<1> HIDE DEF last
<1>8. /\ u \in Seq(Nat) /\ Len(u) = Len(rows)
      /\ CopiedTo(rows, u, last, i, j)
  <2>1. u \in Seq(Nat) /\ Len(u) = Len(rows)
    BY <1>2, <1>3 DEF RowAt
  <2>2. ASSUME NEW x \in 0 .. last
        PROVE  u[x + 1] = IF x = j THEN rows[i + 1] ELSE rows[x + 1]
    <3>1. x + 1 \in DOMAIN rows /\ (x + 1 = j + 1 <=> x = j)
      BY <1>2, <1>3, <1>4
    <3> QED
      BY <3>1 DEF RowAt
  <2> HIDE DEF u
  <2> QED
    BY <2>1, <2>2 DEF CopiedTo
<1> HIDE DEF u, F, G
<1>9. OverRows(u, t, i)
  <2>1. i \in 0 .. Len(u) - 1
    BY <1>2, <1>8
  <2> QED
    BY ONLY <1>8, <2>1, OverLastIs
<1> HIDE DEF t
<1>10. t \in Seq(Nat) /\ Len(t) = Len(rows) - 1 /\ NoRepeats(t)
  BY ONLY <1>2, <1>3, <1>4, <1>8, <1>9, OnceMerged
<1>11. /\ d \in Builders /\ TakesOver(change, d, i, j)
       /\ c \in Builders /\ c.modifications = ModsOver(d, i, last)
       /\ (kind \in {"query", "sorted"} => TableRight(c, start, t))
       /\ (kind = "linked" => c.mapping = change.mapping)
  <2>1. CASE kind = "linked"
    <3> DEFINE d1 == Subsume(change, i, j, FALSE)
               c1 == MoveOver(d1, i, last, FALSE)
    <3>1. d1 \in Builders /\ d1.mapping = change.mapping /\ TakesOver(change, d1, i, j)
      BY ONLY <1>2, <1>3, SubsumeUntracked DEF TakesOver
    <3> HIDE DEF d1
    <3>2. c1 \in Builders /\ c1.modifications = ModsOver(d1, i, last) /\ c1.mapping = d1.mapping
      BY ONLY <1>2, <3>1, MovedUntracked
    <3>3. d = d1
      BY <1>5, <2>1 DEF d1
    <3>4. c = c1
      BY <1>5, <2>1, <3>3
    <3> HIDE DEF c, d, c1
    <3> QED
      BY <2>1, <3>1, <3>2, <3>3, <3>4
  <2>2. CASE kind \in {"query", "sorted"}
    <3> DEFINE d1 == Subsume(change, i, j, TRUE)
               c1 == MoveOver(d1, i, last, TRUE)
    <3>1. /\ d1 \in Builders /\ TakesOver(change, d1, i, j)
          /\ c1 \in Builders /\ c1.modifications = ModsOver(d1, i, last)
          /\ TableRight(c1, start, t)
      <4>1. MergedIn(change, start, rows, last, i, j, u, t)
        BY ONLY <1>2, <1>3, <1>4, <1>6, <1>8, <1>9, <2>2 DEF MergedIn
      <4> QED
        BY ONLY <4>1, TableMerged
    <3> HIDE DEF d1
    <3>2. d = d1
      BY <1>5, <2>2 DEF d1
    <3>3. c = c1
      BY <1>5, <2>2, <3>2
    <3> HIDE DEF c, d, c1
    <3> QED
      BY <2>2, <3>1, <3>2, <3>3
  <2> QED
    BY ONLY <1>2, <1>3, <2>1, <2>2
<1> HIDE DEF c, d
<1>12. ModsRight(c, t, F)
  BY ONLY <1>2, <1>3, <1>4, <1>7, <1>8, <1>9, <1>11, ModsMergedRight
<1>13. Len(t) <= MaxRows
  BY ONLY <1>3, <1>10
<1>14. TellsOf(t, G, c)
  BY <1>2, <1>3, <1>10, <1>11, <1>12, <1>13 DEF TellsOf, F
<1>15. Told(t, G, c)
  BY <1>1 DEF t, u, G, c, d, last
<1> QED
  BY ONLY <1>14, <1>15, LogInv, ToldKeeps

\* The rows that come to the end of a table: e1, and then e2 if n is 2.
GrownBy(s, t, n, e1, e2) ==
    /\ t \in Seq(Nat) /\ Len(t) = Len(s) + n
    /\ \A x \in 0 .. Len(s) - 1 : t[x + 1] = s[x + 1]
    /\ \A x \in Len(s) .. Len(t) - 1 : t[x + 1] = IF x = Len(s) THEN e1 ELSE e2

\* insert_empty_rows appends such rows.
LEMMA NewRowsAre ==
    ASSUME NEW s \in Seq(Nat), NEW e1 \in Nat, NEW e2 \in Nat, NEW n \in 1 .. 2,
           NEW t, t = s \o SubSeq(<<e1, e2>>, 1, n)
    PROVE  GrownBy(s, t, n, e1, e2)
<1> DEFINE p == <<e1, e2>>
           q == SubSeq(p, 1, n)
           m == Len(s)
<1>1. q \in Seq(Nat) /\ Len(q) = n /\ \A y \in 1 .. n : q[y] = p[y]
  <2>1. \A y \in 1 .. n : p[y] \in Nat
    BY SMTT(30)
  <2>2. n \in Int /\ 1 \in Int /\ 1 <= n /\ n - 1 + 1 = n /\ \A y \in Int : 1 + y - 1 = y
    OBVIOUS
  <2> HIDE DEF p
  <2>3. q \in Seq(Nat) /\ Len(q) = n /\ \A y \in 1 .. n : q[y] = p[1 + y - 1]
    BY <2>1, <2>2, SubSeqProperties
  <2> QED
    BY <2>2, <2>3
<1>2. p[1] = e1 /\ p[2] = e2
  OBVIOUS
<1> HIDE DEF p, q
<1>3. t = s \o q
  BY DEF q, p
<1>4. /\ t \in Seq(Nat) /\ Len(t) = m + n /\ m \in Nat
      /\ \A y \in 1 .. m : t[y] = s[y]
      /\ \A y \in m + 1 .. m + n : t[y] = q[y - m]
  BY <1>1, <1>3, SMTT(30)
<1> HIDE DEF m
<1>5. ASSUME NEW x \in 0 .. m - 1 PROVE t[x + 1] = s[x + 1]
  <2>1. x + 1 \in 1 .. m
    BY <1>4
  <2> QED
    BY <1>4, <2>1
<1>6. ASSUME NEW x \in m .. m + n - 1 PROVE t[x + 1] = IF x = m THEN e1 ELSE e2
  <2> DEFINE y == x + 1
             z == y - m
  <2>1. y \in m + 1 .. m + n /\ z \in 1 .. n /\ (x = m => z = 1) /\ (x # m => z = 2)
    BY <1>4
  <2> HIDE DEF z
  <2>2. t[y] = q[z]
    BY <1>4, <2>1 DEF z
  <2>3. q[z] = p[z]
    BY <1>1, <2>1
  <2> QED
    BY <1>2, <2>1, <2>2, <2>3
<1> QED
  BY ONLY <1>4, <1>5, <1>6 DEF m, GrownBy

\* insert_empty_rows.
LEMMA InsertRowsKeeps ==
    ASSUME LogInv, InsertEmptyRows PROVE LogInv'
<1> DEFINE e1 == NewRow
           T == (0 .. 5 * MaxRows) \ (ToSet(start) \cup ToSet(rows) \cup ToSet(shown)
                                      \cup ToSet(view) \cup {e1})
           e2 == Min(T)
<1>1. PICK n \in 1 .. 2 :
        /\ Len(rows) + n <= MaxRows
        /\ Told(rows \o SubSeq(<<e1, e2>>, 1, n), {}, Insert(change, Len(rows), n, Track))
  BY DEF InsertEmptyRows
<1> DEFINE t == rows \o SubSeq(<<e1, e2>>, 1, n)
           c == Insert(change, Len(rows), n, Track)
<1>2. kind # "list" /\ n \in Nat /\ n > 0 /\ Len(rows) + n <= MaxRows
  BY <1>1 DEF InsertEmptyRows, Table
<1>3. /\ rows \in Seq(Nat) /\ Len(rows) \in Nat /\ MaxRows \in Nat /\ NoRepeats(rows)
      /\ start \in Seq(Nat) /\ change \in Builders /\ ModsRight(change, rows, fresh)
      /\ kind \in {"list", "query", "sorted", "linked"} /\ fresh \subseteq ToSet(rows)
      /\ (kind \in {"query", "sorted"} => TableRight(change, start, rows))
      /\ (kind = "linked" => DOMAIN change.mapping = {})
  BY LogRows
<1>4. RowsRight /\ MaxRows > 0
  <2>1. MaxRows > 0
    BY ONLY <1>2, <1>3
  <2> QED
    BY <2>1 DEF LogInv
<1>5. e1 \in Nat /\ e1 \notin Names
  BY <1>4, NewRowIs
<1> HIDE DEF e1
<1>6. e2 \in Nat /\ e2 \notin Names /\ e2 # e1
  BY <1>4, <1>5, SecondRowIs
<1> HIDE DEF e2
<1>7. /\ t \in Seq(Nat) /\ Len(t) = Len(rows) + n
      /\ \A x \in 0 .. Len(rows) - 1 : t[x + 1] = rows[x + 1]
      /\ \A x \in Len(rows) .. Len(t) - 1 : t[x + 1] = IF x = Len(rows) THEN e1 ELSE e2
  <2>1. t = rows \o SubSeq(<<e1, e2>>, 1, n)
    OBVIOUS
  <2> HIDE DEF t
  <2>2. GrownBy(rows, t, n, e1, e2)
    BY ONLY <1>3, <1>5, <1>6, n \in 1 .. 2, <2>1, NewRowsAre
  <2> QED
    BY ONLY <2>2 DEF GrownBy
<1> HIDE DEF t
<1>8. ASSUME NEW x \in Len(rows) .. Len(t) - 1
      PROVE  t[x + 1] \notin ToSet(start) /\ t[x + 1] \notin ToSet(rows) /\ t[x + 1] \notin fresh
  BY <1>3, <1>5, <1>6, <1>7 DEF Names
<1>9. ASSUME NEW x \in Len(rows) .. Len(t) - 1, NEW y \in Len(rows) .. Len(t) - 1, t[x + 1] = t[y + 1]
      PROVE  x = y
  <2>1. /\ t[x + 1] = IF x = Len(rows) THEN e1 ELSE e2
        /\ t[y + 1] = IF y = Len(rows) THEN e1 ELSE e2
    BY ONLY <1>7, x \in Len(rows) .. Len(t) - 1, y \in Len(rows) .. Len(t) - 1
  <2>2. x = Len(rows) <=> y = Len(rows)
    BY <1>6, <1>9, <2>1
  <2>3. x \in Nat /\ y \in Nat /\ x <= Len(rows) + 1 /\ y <= Len(rows) + 1 /\ x >= Len(rows) /\ y >= Len(rows)
    BY ONLY <1>3, <1>7, n \in 1 .. 2, x \in Len(rows) .. Len(t) - 1, y \in Len(rows) .. Len(t) - 1
  <2> QED
    BY ONLY <1>3, <2>2, <2>3
<1>10. NoRepeats(t)
  BY ONLY <1>2, <1>3, <1>7, <1>8, <1>9, OnceGrown
<1>11. Track \in BOOLEAN /\ Track = (kind # "linked")
  BY DEF Track
<1>12. ModsRight(c, t, fresh)
  <2> DEFINE b == Track
  <2>1. b \in BOOLEAN
    BY <1>11
  <2> HIDE DEF b
  <2>2. \A x \in Len(rows) .. Len(t) - 1 : t[x + 1] \notin fresh
    BY <1>8
  <2>3. ModsRight(Insert(change, Len(rows), n, b), t, fresh)
    BY ONLY <1>2, <1>3, <1>7, <2>1, <2>2, ModsGrown
  <2> QED
    BY <2>3 DEF b
<1>13. /\ c \in Builders
       /\ (kind \in {"query", "sorted"} => TableRight(c, start, t))
       /\ (kind = "linked" => c.mapping = change.mapping)
  <2>1. CASE kind = "linked"
    <3> DEFINE c1 == Insert(change, Len(rows), n, FALSE)
    <3>1. c1 \in Builders /\ c1.mapping = change.mapping
      BY <1>2, <1>3, InsertIs
    <3>2. c = c1
      BY <1>11, <2>1
    <3> HIDE DEF c, c1
    <3> QED
      BY <2>1, <3>1, <3>2
  <2>2. CASE kind \in {"query", "sorted"}
    <3> DEFINE c1 == Insert(change, Len(rows), n, TRUE)
    <3>1. \A x \in Len(rows) .. Len(t) - 1 : t[x + 1] \notin ToSet(start)
      BY <1>8
    <3>2. c1 \in Builders /\ TableRight(c1, start, t)
      BY ONLY <1>2, <1>3, <1>7, <2>2, <3>1, TableGrown
    <3>3. c = c1
      BY <1>11, <2>2
    <3> HIDE DEF c, c1
    <3> QED
      BY <2>2, <3>2, <3>3
  <2> QED
    BY ONLY <1>2, <1>3, <2>1, <2>2
<1> HIDE DEF c
<1>14. Len(t) <= MaxRows
  BY <1>2, <1>7
<1>15. TellsOf(t, {}, c)
  BY <1>2, <1>3, <1>7, <1>10, <1>12, <1>13, <1>14 DEF TellsOf
<1>16. Told(t, {}, c)
  BY <1>1 DEF t, c
<1> QED
  BY ONLY <1>15, <1>16, LogInv, ToldKeeps

-----------------------------------------------------------------------------
(* The notifier runs, and the theorem.                                     *)

\* What a query returns are rows, each at most once.
LEMMA ResultsAre ==
    ASSUME LogInv, kind # "linked", NEW next \in Results
    PROVE  next \in Seq(Nat) /\ Len(next) <= MaxRows
<1>1. /\ rows \in Seq(Nat) /\ Len(rows) <= MaxRows /\ MaxRows \in Nat
      /\ kind \in {"list", "query", "sorted", "linked"}
  BY LogRows
<1>2. CASE kind = "list"
  <2>1. Results = {rows}
    BY <1>2 DEF Results
  <2> QED
    BY <1>1, <2>1
<1>3. CASE kind \in {"query", "sorted"}
  <2>1. PICK S \in SUBSET ToSet(rows) : next \in Orders(S)
    <3>1. next \in UNION {Orders(S) : S \in SUBSET ToSet(rows)}
      <4>1. CASE kind = "query"
        BY <4>1, Zenon DEF Results
      <4>2. CASE kind = "sorted"
        BY <4>2, Zenon DEF Results
      <4> QED
        BY <1>3, <4>1, <4>2
    <3> QED
      BY <3>1
  <2> DEFINE T == ToSet(rows)
             k == Cardinality(S)
  <2>2. IsFiniteSet(T) /\ Cardinality(T) \in Nat /\ Cardinality(T) <= MaxRows /\ T \subseteq Nat
    BY <1>1, FewRows DEF Few
  <2> HIDE DEF T
  <2>3. IsFiniteSet(S) /\ k <= Cardinality(T) /\ k \in Nat
    BY <2>1, <2>2, FS_Subset, FS_CardinalityType DEF T
  <2> HIDE DEF k
  <2>4. next \in [1 .. k -> S] /\ S \subseteq Nat
    BY <2>1, <2>2 DEF Orders, k, T
  <2>5. next \in Seq(Nat) /\ Len(next) = k
    <3>1. next \in [1 .. k -> Nat]
      BY ONLY <2>4
    <3>2. next \in Seq(Nat)
      BY ONLY <2>3, <3>1
    <3> QED
      BY ONLY <2>3, <3>1, <3>2
  <2> QED
    BY ONLY <1>1, <2>2, <2>3, <2>5
<1> QED
  BY <1>1, <1>2, <1>3

\* A run takes the changes and begins the next log.
LEMMA RunKeeps ==
    ASSUME LogInv, Run PROVE LogInv'
<1>1. /\ kind # "linked" /\ start' = rows /\ fresh' = {} /\ change' = NoChange
      /\ kind' = kind /\ rows' = rows /\ shown' = shown /\ view' \in Results
  BY DEF Run
<1>2. view' \in Seq(Nat) /\ Len(view') <= MaxRows
  BY <1>1, ResultsAre
<1>3. RowsRight'
  BY <1>1, <1>2 DEF LogInv, RowsRight
<1>4. rows \in Seq(Nat)
  BY LogRows
<1>5. /\ NoChange \in Builders /\ ModsRight(NoChange, rows, {})
      /\ TableRight(NoChange, rows, rows) /\ ListRight(NoChange, rows, rows)
      /\ DOMAIN NoChange.mapping = {}
  BY ONLY <1>4, EmptyLog
<1>6. ModsRight(change, rows, fresh)'
  BY <1>1, <1>5 DEF ModsRight, Mod
<1> QED
  BY <1>1, <1>3, <1>5, <1>6 DEF LogInv

\* LogInv is inductive.
LEMMA LogInvNext == LogInv /\ [Next]_vars => LogInv'
<1> SUFFICES ASSUME LogInv, [Next]_vars PROVE LogInv'
  OBVIOUS
<1>1. CASE LinkListSet
  BY <1>1, ListSetKeeps
<1>2. CASE LinkListSwap
  BY <1>2, ListSwapKeeps
<1>3. CASE LinkListInsert
  BY <1>3, ListInsertKeeps
<1>4. CASE LinkListErase
  BY <1>4, ListEraseKeeps
<1>5. CASE LinkListMove
  BY <1>5, ListMoveKeeps
<1>6. CASE LinkListClear
  BY <1>6, ListClearKeeps
<1>7. CASE MarkDirty
  BY <1>7, DirtyKeeps
<1>8. CASE InsertEmptyRows
  BY <1>8, InsertRowsKeeps
<1>9. CASE EraseRows
  BY <1>9, EraseRowsKeeps
<1>10. CASE SwapTableRows
  BY <1>10, SwapRowsKeeps
<1>11. CASE MergeRows
  BY <1>11, MergeKeeps
<1>12. CASE ClearTable
  BY <1>12, ClearTableKeeps
<1>13. CASE Run
  BY <1>13, RunKeeps
<1>14. CASE UNCHANGED vars
  <2>1. /\ kind' = kind /\ start' = start /\ rows' = rows /\ fresh' = fresh /\ change' = change
        /\ shown' = shown /\ view' = view
    BY <1>14 DEF vars
  <2>2. RowsRight'
    BY <2>1 DEF LogInv, RowsRight
  <2>3. ModsRight(change, rows, fresh)'
    BY <2>1 DEF LogInv, ModsRight, Mod
  <2> QED
    BY <2>1, <2>2, <2>3 DEF LogInv
<1> QED
  BY <1>1, <1>2, <1>3, <1>4, <1>5, <1>6, <1>7, <1>8, <1>9, <1>10, <1>11, <1>12, <1>13, <1>14
  DEF Next

\* Whatever is inserted, moved, swapped, merged, deleted and modified in a
\* transaction, and in whatever order, the changes that TransactLogObserver
\* makes of its log turn the rows before it into the rows now, and mark
\* exactly the modified rows.
THEOREM LogChanges == Spec => []LogChangesRight
<1>1. Init => LogInv
  BY LogInvInit
<1>2. LogInv /\ [Next]_vars => LogInv'
  BY LogInvNext
<1>3. LogInv => LogChangesRight
  BY LogInvMeans
<1> QED
  BY <1>1, <1>2, <1>3, PTL DEF Spec

(***************************************************************************)
(* The rows two results keep in the same order correspond when all others  *)
(* are deleted and inserted (KeepingPlaces).                               *)
(***************************************************************************)

\* The rows of K occur at most once.
Once(s, K) == \A i, j \in 1 .. Len(s) : s[i] = s[j] /\ s[i] \in K => i = j
\* Those that come before a position.
RowsBefore(s, K, x) == {r \in K : \E p \in 0 .. x - 1 : s[p + 1] = r}
\* The positions of the others.
Others(s, K) == {x \in 0 .. Len(s) - 1 : s[x + 1] \notin K}

\* The rows of K before a position are as many as the positions not among the others.
LEMMA RowsCount ==
    ASSUME NEW s \in Seq(Int), NEW K, Once(s, K), NEW x \in 0 .. Len(s)
    PROVE  /\ IsFiniteSet(RowsBefore(s, K, x)) /\ Cardinality(RowsBefore(s, K, x)) \in Nat
           /\ Rank(Others(s, K), x) = Cardinality(RowsBefore(s, K, x))
<1> DEFINE n == Len(s)
           D == Others(s, K)
           B(k) == RowsBefore(s, K, k)
           T == {k \in Nat : k <= n => IsFiniteSet(B(k)) /\ Cardinality(B(k)) \in Nat /\ Rank(D, k) = Cardinality(B(k))}
<1>0. n \in Nat
  OBVIOUS
<1>r. /\ Rank(D, 0) = 0
      /\ \A k \in Nat : Rank(D, k) \in Nat
      /\ \A k \in Nat : Rank(D, k + 1) = IF k \in D THEN Rank(D, k) ELSE Rank(D, k) + 1
  BY RankSteps
<1>1. 0 \in T
  <2>1. B(0) = {}
    BY DEF RowsBefore
  <2>2. IsFiniteSet({}) /\ Cardinality({}) = 0
    BY FS_EmptySet
  <2>3. IsFiniteSet(B(0)) /\ Cardinality(B(0)) = 0
    BY <2>1, <2>2
  <2> HIDE DEF B, D
  <2> QED
    BY <1>r, <2>3
<1>2. ASSUME NEW k \in 0 .. n - 1, k \in T PROVE k + 1 \in T
  <2> DEFINE r == s[k + 1]
  <2>1. IsFiniteSet(B(k)) /\ Cardinality(B(k)) \in Nat /\ Rank(D, k) = Cardinality(B(k)) /\ k \in Nat
    BY <1>0, <1>2
  <2>2. k + 1 \in 1 .. n
    BY <1>0
  <2>3. \A p \in 0 .. (k + 1) - 1 : p \in 0 .. k - 1 \/ p = k
    BY <1>0
  <2>4. \A p \in 0 .. k - 1 : p \in 0 .. (k + 1) - 1
    BY <1>0
  <2>4k. k \in 0 .. (k + 1) - 1
    BY <1>0
  <2>5. CASE r \in K
    <3>1. B(k + 1) = B(k) \cup {r}
      BY <2>3, <2>4, <2>4k, <2>5 DEF RowsBefore
    <3>2. r \notin B(k)
      <4> SUFFICES ASSUME NEW p \in 0 .. k - 1, s[p + 1] = r PROVE FALSE
        BY DEF RowsBefore
      <4>1. p + 1 \in 1 .. n /\ p + 1 # k + 1
        BY <1>0, <2>1
      <4> QED
        BY <2>2, <2>5, <4>1 DEF Once
    <3>3. k \notin D
      BY <2>5 DEF Others
    <3> HIDE DEF B, D, r
    <3>4. IsFiniteSet(B(k) \cup {r}) /\ Cardinality(B(k) \cup {r}) = Cardinality(B(k)) + 1
      BY <2>1, <3>2, FS_AddElement
    <3>5. Rank(D, k + 1) = Rank(D, k) + 1
      BY <1>r, <2>1, <3>3
    <3>6. IsFiniteSet(B(k + 1)) /\ Cardinality(B(k + 1)) = Cardinality(B(k)) + 1
      BY ONLY <3>1, <3>4, Zenon
    <3>7. Cardinality(B(k + 1)) \in Nat /\ Rank(D, k + 1) = Cardinality(B(k + 1))
      BY <2>1, <3>5, <3>6
    <3> QED
      BY <2>1, <3>6, <3>7
  <2>6. CASE r \notin K
    <3>1. B(k + 1) = B(k)
      BY <2>3, <2>4, <2>6 DEF RowsBefore
    <3>2. k \in D
      BY <2>6 DEF Others
    <3> HIDE DEF B, D, r
    <3>5. Rank(D, k + 1) = Rank(D, k)
      BY <1>r, <2>1, <3>2
    <3> QED
      BY <2>1, <3>1, <3>5
  <2> QED
    BY <2>5, <2>6
<1>x. x \in Nat /\ x <= n /\ x \in 0 .. x /\ \A k \in 0 .. x - 1 : k \in 0 .. n - 1
  BY <1>0
<1> HIDE DEF T, n
<1>3. 0 .. x \subseteq T
  BY <1>1, <1>2, <1>x, UpTo
<1>4. x \in T
  BY <1>3, <1>x
<1> QED
  BY <1>4, <1>x DEF T

\* What is left of two collections when all but K goes.
Keeping(prev, next, K) ==
    /\ prev \in Seq(Int) /\ next \in Seq(Int)
    /\ Once(prev, K) /\ Once(next, K)
    /\ \A r \in K : /\ \E p \in 0 .. Len(prev) - 1 : prev[p + 1] = r
                    /\ \E p \in 0 .. Len(next) - 1 : next[p + 1] = r
\* And it is in the same order.
SameOrder(prev, next, K) ==
    \A i, j \in 0 .. Len(prev) - 1, k, l \in 0 .. Len(next) - 1 :
      prev[i + 1] \in K /\ prev[j + 1] \in K /\ next[k + 1] = prev[i + 1] /\ next[l + 1] = prev[j + 1]
        => (i < j => k < l)

\* Both sequences have the same number of rows of K.
LEMMA KeepingRanks ==
    ASSUME NEW prev, NEW next, NEW K, Keeping(prev, next, K)
    PROVE  Rank(Others(prev, K), Len(prev)) = Rank(Others(next, K), Len(next))
<1>1. /\ prev \in Seq(Int) /\ next \in Seq(Int)
      /\ Once(prev, K) /\ Once(next, K)
      /\ \A r \in K : /\ \E p \in 0 .. Len(prev) - 1 : prev[p + 1] = r
                      /\ \E p \in 0 .. Len(next) - 1 : next[p + 1] = r
  BY DEF Keeping
<1>2. RowsBefore(prev, K, Len(prev)) = K /\ RowsBefore(next, K, Len(next)) = K
  BY <1>1 DEF RowsBefore
<1>3. Len(prev) \in 0 .. Len(prev) /\ Len(next) \in 0 .. Len(next)
  BY <1>1
<1>4. Rank(Others(prev, K), Len(prev)) = Cardinality(RowsBefore(prev, K, Len(prev)))
  BY <1>1, <1>3, RowsCount
<1>5. Rank(Others(next, K), Len(next)) = Cardinality(RowsBefore(next, K, Len(next)))
  BY <1>1, <1>3, RowsCount
<1> QED
  BY <1>2, <1>4, <1>5

\* One row more before one position than before another.
LEMMA RowsMore ==
    ASSUME NEW A, NEW B, NEW r, IsFiniteSet(B), A \subseteq B, r \in B, r \notin A
    PROVE  Cardinality(A) # Cardinality(B)
<1>1. IsFiniteSet(A) /\ Cardinality(A) \in Nat /\ Cardinality(B) \in Nat
  BY FS_Subset, FS_CardinalityType
<1>2. IsFiniteSet(A \cup {r}) /\ Cardinality(A \cup {r}) = Cardinality(A) + 1
  BY <1>1, FS_AddElement
<1>3. A \cup {r} \subseteq B
  OBVIOUS
<1>4. Cardinality(A \cup {r}) <= Cardinality(B)
  BY <1>3, FS_Subset
<1> QED
  BY <1>1, <1>2, <1>4

\* What two sequences keep in order corresponds, when the others are deleted and inserted.
LEMMA KeepingPlaces ==
    ASSUME NEW prev, NEW next, NEW K, Keeping(prev, next, K), SameOrder(prev, next, K)
    PROVE  Places(Others(prev, K), Others(next, K), prev, next)
<1>1. /\ prev \in Seq(Int) /\ next \in Seq(Int)
      /\ Once(prev, K) /\ Once(next, K)
      /\ \A r \in K : /\ \E p \in 0 .. Len(prev) - 1 : prev[p + 1] = r
                      /\ \E p \in 0 .. Len(next) - 1 : next[p + 1] = r
      /\ Len(prev) \in Nat /\ Len(next) \in Nat
  BY DEF Keeping
<1>2. Others(prev, K) \subseteq 0 .. Len(prev) - 1 /\ Others(next, K) \subseteq 0 .. Len(next) - 1
  BY DEF Others
<1>3. Rank(Others(prev, K), Len(prev)) = Rank(Others(next, K), Len(next))
  BY KeepingRanks
<1>o. /\ \A i, j \in 0 .. Len(prev) - 1 : prev[i + 1] = prev[j + 1] /\ prev[i + 1] \in K => i = j
      /\ \A i, j \in 0 .. Len(next) - 1 : next[i + 1] = next[j + 1] /\ next[i + 1] \in K => i = j
  <2>1. ASSUME NEW i \in 0 .. Len(prev) - 1, NEW j \in 0 .. Len(prev) - 1,
               prev[i + 1] = prev[j + 1], prev[i + 1] \in K
        PROVE  i = j
    <3>1. i + 1 \in 1 .. Len(prev) /\ j + 1 \in 1 .. Len(prev)
      BY <1>1
    <3>2. i + 1 = j + 1
      BY <1>1, <2>1, <3>1 DEF Once
    <3> QED
      BY <3>2
  <2>2. ASSUME NEW i \in 0 .. Len(next) - 1, NEW j \in 0 .. Len(next) - 1,
               next[i + 1] = next[j + 1], next[i + 1] \in K
        PROVE  i = j
    <3>1. i + 1 \in 1 .. Len(next) /\ j + 1 \in 1 .. Len(next)
      BY <1>1
    <3>2. i + 1 = j + 1
      BY <1>1, <2>2, <3>1 DEF Once
    <3> QED
      BY <3>2
  <2> QED
    BY <2>1, <2>2
<1>4. ASSUME NEW x \in 0 .. Len(prev) - 1, NEW y \in 0 .. Len(next) - 1,
             x \notin Others(prev, K), y \notin Others(next, K),
             Rank(Others(prev, K), x) = Rank(Others(next, K), y), prev[x + 1] # next[y + 1]
      PROVE  FALSE
  <2> DEFINE r == prev[x + 1]
             t == next[y + 1]
             A == RowsBefore(prev, K, x)
             B == RowsBefore(next, K, y)
  <2>1. r \in K /\ t \in K
    BY <1>4 DEF Others
  <2>2. x \in 0 .. Len(prev) /\ y \in 0 .. Len(next)
    BY <1>1
  <2>3. IsFiniteSet(A) /\ IsFiniteSet(B) /\ Cardinality(A) = Cardinality(B)
    BY <1>1, <1>4, <2>2, RowsCount
  <2>4. PICK i \in 0 .. Len(prev) - 1 : prev[i + 1] = t
    BY <1>1, <2>1
  <2>5. PICK k \in 0 .. Len(next) - 1 : next[k + 1] = r
    BY <1>1, <2>1
  <2>6. /\ \A q \in K : q \in A <=> \E p \in 0 .. x - 1 : prev[p + 1] = q
        /\ \A q \in K : q \in B <=> \E p \in 0 .. y - 1 : next[p + 1] = q
        /\ A \subseteq K /\ B \subseteq K
    BY DEF RowsBefore
  <2> HIDE DEF A, B
  <2>7. x # i
    BY <1>4, <2>4
  <2>8. CASE x < i
    <3>1. k < y
      BY <2>1, <2>4, <2>5, <2>8 DEF SameOrder
    <3>2. r \in B /\ r \notin A
      <4>1. k \in 0 .. y - 1
        BY <1>1, <3>1
      <4>2. \A p \in 0 .. x - 1 : p \in 0 .. Len(prev) - 1 /\ p # x
        BY <1>1
      <4> QED
        BY <1>o, <2>1, <2>5, <2>6, <4>1, <4>2
    <3>3. ASSUME NEW q \in A PROVE q \in B
      <4>1. PICK p \in 0 .. x - 1 : prev[p + 1] = q
        BY <2>6
      <4>2. PICK l \in 0 .. Len(next) - 1 : next[l + 1] = q
        BY <1>1, <2>6
      <4>3. p \in 0 .. Len(prev) - 1 /\ p < i /\ q \in K
        BY <1>1, <2>6, <2>8
      <4>4. l < y
        BY <2>1, <2>4, <4>1, <4>2, <4>3 DEF SameOrder
      <4>5. l \in 0 .. y - 1
        BY <1>1, <4>4
      <4> QED
        BY <2>6, <4>2, <4>3, <4>5
    <3> QED
      BY <2>3, <3>2, <3>3, RowsMore
  <2>9. CASE i < x
    <3>1. y < k
      BY <2>1, <2>4, <2>5, <2>9 DEF SameOrder
    <3>2. t \in A /\ t \notin B
      <4>1. i \in 0 .. x - 1
        BY <1>1, <2>9
      <4>2. \A p \in 0 .. y - 1 : p \in 0 .. Len(next) - 1 /\ p # y
        BY <1>1
      <4> QED
        BY <1>o, <2>1, <2>4, <2>6, <4>1, <4>2
    <3>3. ASSUME NEW q \in B PROVE q \in A
      <4>1. PICK l \in 0 .. y - 1 : next[l + 1] = q
        BY <2>6
      <4>2. PICK p \in 0 .. Len(prev) - 1 : prev[p + 1] = q
        BY <1>1, <2>6
      <4>3. l \in 0 .. Len(next) - 1 /\ q \in K /\ l < k
        BY <1>1, <2>6, <3>1
      <4>4. p # x
        BY <1>o, <2>1, <2>5, <4>1, <4>2, <4>3
      <4>5. ~(x < p)
        <5> SUFFICES ASSUME x < p PROVE FALSE
          OBVIOUS
        <5>1. k < l
          BY <2>1, <2>5, <4>1, <4>2, <4>3 DEF SameOrder
        <5> QED
          BY <1>1, <4>3, <5>1
      <4>6. p \in 0 .. x - 1
        BY <1>1, <4>4, <4>5
      <4> QED
        BY <2>6, <4>2, <4>3, <4>6
    <3> QED
      BY <2>3, <3>2, <3>3, RowsMore
  <2> QED
    BY <1>1, <2>7, <2>8, <2>9
<1> QED
  BY <1>2, <1>3, <1>4 DEF Places

\* What is known of a collection without its rows: how many there are.
Zeros(n) == [k \in 1 .. n |-> 0]

\* A sequence of zeros.
LEMMA ZerosAre ==
    ASSUME NEW n \in Nat
    PROVE  Zeros(n) \in Seq(Nat) /\ Len(Zeros(n)) = n /\ \A k \in 1 .. n : Zeros(n)[k] = 0
  BY DEF Zeros

\* Out of order, the numbers of positions still correspond.
LEMMA KeepingCounts ==
    ASSUME NEW prev, NEW next, NEW K, Keeping(prev, next, K)
    PROVE  Places(Others(prev, K), Others(next, K), Zeros(Len(prev)), Zeros(Len(next)))
<1>1. Len(prev) \in Nat /\ Len(next) \in Nat
  BY DEF Keeping
<1>2. Others(prev, K) \subseteq 0 .. Len(prev) - 1 /\ Others(next, K) \subseteq 0 .. Len(next) - 1
  BY DEF Others
<1>3. Rank(Others(prev, K), Len(prev)) = Rank(Others(next, K), Len(next))
  BY KeepingRanks
<1>4. /\ Zeros(Len(prev)) \in Seq(Nat) /\ Len(Zeros(Len(prev))) = Len(prev)
      /\ \A k \in 1 .. Len(prev) : Zeros(Len(prev))[k] = 0
      /\ Zeros(Len(next)) \in Seq(Nat) /\ Len(Zeros(Len(next))) = Len(next)
      /\ \A k \in 1 .. Len(next) : Zeros(Len(next))[k] = 0
  BY <1>1, ZerosAre
<1>5. \A x \in 0 .. Len(prev) - 1, y \in 0 .. Len(next) - 1 : Zeros(Len(prev))[x + 1] = Zeros(Len(next))[y + 1]
  BY <1>1, <1>4
<1> QED
  BY <1>2, <1>3, <1>4, <1>5 DEF Places

(***************************************************************************)
(* calculate_moves_unsorted: every row is accepted where it is or moved;   *)
(* the rows that stay are in order when the candidates name all rows whose *)
(* order can change (Steady).                                              *)
(***************************************************************************)

-----------------------------------------------------------------------------
(* calculate, for a query in table order.                                   *)

\* Deleted rows before a position do not count.
Gone(prev) == {x \in 0 .. Len(prev) - 1 : prev[x + 1] = NPos}
\* shifted_tv_index of a row: its old position without those deleted.
ShiftedAt(prev, row) == Cardinality({i \in 1 .. PosIn(prev, row) : prev[i] # NPos})

\* PosIn finds the only place of a row.
LEMMA PosInOnce ==
    ASSUME NEW s \in Seq(Int), Once(s, Nat), NEW p \in 0 .. Len(s) - 1, s[p + 1] \in Nat
    PROVE  PosIn(s, s[p + 1]) = p /\ s[p + 1] \in ToSet(s)
<1> DEFINE row == s[p + 1]
           q == CHOOSE i \in DOMAIN s : s[i] = row
<1>1. DOMAIN s = 1 .. Len(s) /\ p + 1 \in 1 .. Len(s)
  OBVIOUS
<1>2. q \in 1 .. Len(s) /\ s[q] = row
  BY <1>1
<1>3. q = p + 1
  BY <1>1, <1>2 DEF Once
<1>4. PosIn(s, row) = q - 1
  BY DEF PosIn
<1>5. row \in ToSet(s)
  BY <1>1 DEF ToSet
<1> HIDE DEF row, q
<1>6. p \in Nat
  OBVIOUS
<1>7. PosIn(s, row) = p
  BY <1>3, <1>4, <1>6
<1> QED
  BY <1>5, <1>7 DEF row

\* How many of the rows up to a position are in a set.
LEMMA RowsAmong ==
    ASSUME NEW s \in Seq(Int), NEW C, NEW x \in 0 .. Len(s)
    PROVE  /\ IsFiniteSet({i \in 1 .. x : s[i] \in C}) /\ Cardinality({i \in 1 .. x : s[i] \in C}) \in Nat
           /\ Cardinality({i \in 1 .. x : s[i] \in C}) = Rank(Others(s, C), x)
<1> DEFINE n == Len(s)
           D == Others(s, C)
           B(k) == {i \in 1 .. k : s[i] \in C}
           Fits(k) == IsFiniteSet(B(k)) /\ Cardinality(B(k)) \in Nat /\ Cardinality(B(k)) = Rank(D, k)
           T == {k \in Nat : k <= n => Fits(k)}
<1>0. n \in Nat
  OBVIOUS
<1>r. /\ Rank(D, 0) = 0
      /\ \A k \in Nat : Rank(D, k) \in Nat
      /\ \A k \in Nat : Rank(D, k + 1) = IF k \in D THEN Rank(D, k) ELSE Rank(D, k) + 1
  BY RankSteps
<1>1. 0 \in T
  <2>1. B(0) = {}
    OBVIOUS
  <2>2. IsFiniteSet(B(0)) /\ Cardinality(B(0)) = 0
    BY <2>1, FS_EmptySet
  <2> HIDE DEF B, D
  <2>3. Fits(0)
    BY <1>r, <2>2
  <2> QED
    BY <2>3
<1>2. ASSUME NEW k \in 0 .. n - 1, k \in T PROVE k + 1 \in T
  <2>1. Fits(k) /\ k \in Nat
    BY <1>0, <1>2
  <2>2. \A i \in 1 .. k + 1 : i \in 1 .. k \/ i = k + 1
    BY <1>0
  <2>3. k + 1 \in 1 .. k + 1 /\ k + 1 \notin 1 .. k /\ \A i \in 1 .. k : i \in 1 .. k + 1
    BY <1>0
  <2>5. CASE s[k + 1] \in C
    <3>1. B(k + 1) = B(k) \cup {k + 1} /\ k + 1 \notin B(k)
      BY <2>2, <2>3, <2>5
    <3>3. k \notin D
      BY <2>5 DEF Others
    <3> HIDE DEF B, D
    <3>4. IsFiniteSet(B(k) \cup {k + 1}) /\ Cardinality(B(k) \cup {k + 1}) = Cardinality(B(k)) + 1
      BY <2>1, <3>1, FS_AddElement
    <3>5. Rank(D, k + 1) = Rank(D, k) + 1
      BY <1>r, <2>1, <3>3
    <3>6. IsFiniteSet(B(k + 1)) /\ Cardinality(B(k + 1)) = Cardinality(B(k)) + 1
      BY ONLY <3>1, <3>4, Zenon
    <3>7. Fits(k + 1)
      BY <2>1, <3>5, <3>6
    <3> HIDE DEF Fits
    <3> QED
      BY <2>1, <3>7
  <2>6. CASE s[k + 1] \notin C
    <3>1. B(k + 1) = B(k)
      BY <2>2, <2>3, <2>6
    <3>3. k \in D
      BY <1>2, <2>6 DEF Others
    <3> HIDE DEF B, D
    <3>5. Rank(D, k + 1) = Rank(D, k)
      BY <1>r, <2>1, <3>3
    <3>7. Fits(k + 1)
      BY <2>1, <3>1, <3>5
    <3> HIDE DEF Fits
    <3> QED
      BY <2>1, <3>7
  <2> QED
    BY <2>5, <2>6
<1>x. x \in Nat /\ x <= n /\ x \in 0 .. x /\ \A k \in 0 .. x - 1 : k \in 0 .. n - 1
  BY <1>0
<1> HIDE DEF T, n
<1>3. 0 .. x \subseteq T
  BY <1>1, <1>2, <1>x, UpTo
<1>4. x \in T
  BY <1>3, <1>x
<1> HIDE DEF Fits
<1>5. Fits(x)
  BY <1>4, <1>x DEF T
<1> QED
  BY <1>5 DEF Fits

\* The rows before a position that are not gone are counted by Rank.
LEMMA ShiftedCount ==
    ASSUME NEW s \in Seq(Int), NEW x \in 0 .. Len(s)
    PROVE  /\ IsFiniteSet({i \in 1 .. x : s[i] # NPos}) /\ Cardinality({i \in 1 .. x : s[i] # NPos}) \in Nat
           /\ Cardinality({i \in 1 .. x : s[i] # NPos}) = Rank(Gone(s), x)
<1> DEFINE C == Int \ {NPos}
<1>1. /\ IsFiniteSet({i \in 1 .. x : s[i] \in C}) /\ Cardinality({i \in 1 .. x : s[i] \in C}) \in Nat
      /\ Cardinality({i \in 1 .. x : s[i] \in C}) = Rank(Others(s, C), x)
  BY RowsAmong
<1>2. {i \in 1 .. x : s[i] \in C} = {i \in 1 .. x : s[i] # NPos}
  OBVIOUS
<1>3. Others(s, C) = Gone(s)
  BY DEF Others, Gone
<1> QED
  BY <1>1, <1>2, <1>3

\* Positions that are in neither of two sets.
LEMMA RankApart ==
    ASSUME NEW A, NEW B, A \cap B = {}, NEW x \in Nat
    PROVE  Rank(A \cup B, x) = Rank(A, x) + Rank(B, x) - x
<1> DEFINE C == A \cup B
           T == {k \in Nat : Rank(C, k) = Rank(A, k) + Rank(B, k) - k}
<1>0. /\ Rank(A, 0) = 0 /\ Rank(B, 0) = 0 /\ Rank(C, 0) = 0
      /\ \A k \in Nat : Rank(A, k) \in Nat /\ Rank(B, k) \in Nat /\ Rank(C, k) \in Nat
      /\ \A k \in Nat : Rank(A, k + 1) = IF k \in A THEN Rank(A, k) ELSE Rank(A, k) + 1
      /\ \A k \in Nat : Rank(B, k + 1) = IF k \in B THEN Rank(B, k) ELSE Rank(B, k) + 1
      /\ \A k \in Nat : Rank(C, k + 1) = IF k \in C THEN Rank(C, k) ELSE Rank(C, k) + 1
  BY RankSteps
<1>c. \A k : k \in C <=> k \in A \/ k \in B
  OBVIOUS
<1>d. \A k : ~(k \in A /\ k \in B)
  OBVIOUS
<1> HIDE DEF C
<1>1. 0 \in T
  BY <1>0
<1>2. ASSUME NEW k \in 0 .. x - 1, k \in T PROVE k + 1 \in T
  <2>1. k \in Nat /\ Rank(C, k) = Rank(A, k) + Rank(B, k) - k
    BY <1>2
  <2>2. Rank(A, k) \in Nat /\ Rank(B, k) \in Nat /\ Rank(C, k) \in Nat
    BY <1>0, <2>1
  <2>3. /\ Rank(A, k + 1) = IF k \in A THEN Rank(A, k) ELSE Rank(A, k) + 1
        /\ Rank(B, k + 1) = IF k \in B THEN Rank(B, k) ELSE Rank(B, k) + 1
        /\ Rank(C, k + 1) = IF k \in C THEN Rank(C, k) ELSE Rank(C, k) + 1
    BY <1>0, <2>1
  <2>4. Rank(C, k + 1) = Rank(A, k + 1) + Rank(B, k + 1) - (k + 1)
    <3>1. CASE k \in A
      BY <1>c, <1>d, <2>1, <2>2, <2>3, <3>1
    <3>2. CASE k \in B
      BY <1>c, <1>d, <2>1, <2>2, <2>3, <3>2
    <3>3. CASE k \notin A /\ k \notin B
      BY <1>c, <2>1, <2>2, <2>3, <3>3
    <3> QED
      BY <3>1, <3>2, <3>3
  <2> QED
    BY <2>1, <2>4
<1> HIDE DEF T
<1>3. 0 .. x \subseteq T
  BY <1>1, <1>2, UpTo
<1>4. x \in T
  BY <1>3
<1> QED
  BY <1>4 DEF T, C

\* A row looked at, and the function that looks at them all.
CalcAt(prev, next, acc, row) ==
    PosIn(next, row) - CountIn(acc.change.insertions, 0, PosIn(next, row))
      + CountIn(acc.removed, 0, PosIn(prev, row))
\* One row of calculate_moves_unsorted.
UnsortedAt(prev, next, candidates, acc, row) ==
    CASE ShiftedAt(prev, row) = acc.expected -> [acc EXCEPT !.expected = @ + 1]
      [] ShiftedAt(prev, row) # acc.expected /\ (~InSet(candidates, row) \/ ShiftedAt(prev, row) = CalcAt(prev, next, acc, row)) ->
           [acc EXCEPT !.expected = ShiftedAt(prev, row) + 1]
      [] OTHER ->
           [acc EXCEPT !.removed = AddIndex(@, PosIn(prev, row)),
                       !.change.insertions = AddIndex(@, PosIn(next, row)),
                       !.change.moves = Append(@, [from |-> PosIn(prev, row), to |-> PosIn(next, row)])]
\* After the first k rows, for every k.
UnsortedOf(b, prev, next, removed, candidates) ==
    CHOOSE f : f = [k \in 0 .. Len(next) |->
                      IF k = 0 THEN [expected |-> 0, removed |-> removed, change |-> b]
                      ELSE IF next[k] \in ToSet(prev) THEN UnsortedAt(prev, next, candidates, f[k - 1], next[k])
                      ELSE f[k - 1]]
\* What is carried from one row to the next.
Unsorteds == [expected : Int, removed : Ranges, change : Builders]

\* The row is left where it is.
Accepts(prev, candidates, acc, row, x, k) ==
    LET shifted == Rank(Gone(prev), x)
    IN  \/ shifted = acc.expected
        \/ row \notin Members(candidates)
        \/ shifted = Rank(Ins(acc.change), k) + x - Rank(Members(acc.removed), x)

\* The rows and candidates of a calculation, and where one of the rows is.
Looking(prev, next, candidates, x, k) ==
    /\ prev \in Seq(Int) /\ next \in Seq(Nat) /\ Once(prev, Nat) /\ Once(next, Nat)
    /\ candidates \in Ranges
    /\ x \in 0 .. Len(prev) - 1 /\ k \in 0 .. Len(next) - 1
    /\ prev[x + 1] = next[k + 1]

\* What becomes of it.
UnsortedDoes(prev, candidates, acc, row, x, k, c) ==
    /\ Accepts(prev, candidates, acc, row, x, k) =>
         c = [acc EXCEPT !.expected = Rank(Gone(prev), x) + 1]
    /\ ~Accepts(prev, candidates, acc, row, x, k) =>
         c = [acc EXCEPT !.removed = AddIndex(@, x),
                         !.change.insertions = AddIndex(@, k),
                         !.change.moves = Append(@, [from |-> x, to |-> k])]

\* UnsortedAt accepts the row where it is or moves it.
LEMMA UnsortedCases ==
    ASSUME NEW prev, NEW next, NEW candidates, NEW x, NEW k, Looking(prev, next, candidates, x, k),
           NEW acc \in Unsorteds
    PROVE  UnsortedDoes(prev, candidates, acc, next[k + 1], x, k, UnsortedAt(prev, next, candidates, acc, next[k + 1]))
<1> DEFINE row == next[k + 1]
<1>1. /\ prev \in Seq(Int) /\ next \in Seq(Nat) /\ next \in Seq(Int) /\ Once(prev, Nat) /\ Once(next, Nat)
      /\ candidates \in Ranges
      /\ x \in 0 .. Len(prev) - 1 /\ k \in 0 .. Len(next) - 1
      /\ prev[x + 1] = row
  BY DEF Looking
<1>2. row \in Nat /\ x \in Nat /\ k \in Nat
  BY <1>1
<1>3. PosIn(prev, row) = x
  BY <1>1, <1>2, PosInOnce
<1>4. PosIn(next, row) = k
  BY <1>1, <1>2, PosInOnce
<1>5. ShiftedAt(prev, row) = Rank(Gone(prev), x) /\ Rank(Gone(prev), x) \in Nat
  <2>1. x \in 0 .. Len(prev)
    BY <1>1
  <2> QED
    BY <1>1, <1>3, <2>1, ShiftedCount DEF ShiftedAt
<1>6. InSet(candidates, row) <=> row \in Members(candidates)
  BY <1>1, <1>2, InSetMeans
<1>7. CalcAt(prev, next, acc, row) = Rank(Ins(acc.change), k) + x - Rank(Members(acc.removed), x)
  <2> DEFINE i == acc.change.insertions
             d == acc.removed
  <2>1. i \in Ranges /\ d \in Ranges
    BY BuilderIs DEF Unsorteds
  <2>i. Ins(acc.change) = Members(i)
    BY DEF Ins
  <2> HIDE DEF i, d
  <2>2. UnshiftIndex(i, k) = Rank(Members(i), k) /\ UnshiftIndex(d, x) = Rank(Members(d), x)
    BY <1>2, <2>1, UnshiftIs
  <2>3. Rank(Members(i), k) \in Nat /\ Rank(Members(d), x) \in Nat
    BY <1>2, RankSteps
  <2>4. CountIn(d, 0, x) = Cardinality({y \in Members(d) : y < x})
    BY <1>2, <2>1, CountIs
  <2>5. CountIn(d, 0, x) \in Int
    <3> DEFINE V == {y \in Members(d) : y < x}
    <3>1. Members(d) \subseteq Nat
      BY <2>1, InMembers
    <3>2. V \subseteq 0 .. x
      BY <1>2, <3>1
    <3>3. IsFiniteSet(0 .. x)
      BY <1>2, FS_Interval
    <3> HIDE DEF V
    <3>4. IsFiniteSet(V)
      BY <3>2, <3>3, FS_Subset
    <3>5. Cardinality(V) \in Nat
      BY <3>4, FS_CardinalityType
    <3>6. CountIn(d, 0, x) = Cardinality(V)
      BY <2>4 DEF V
    <3> QED
      BY <3>5, <3>6
  <2>6. k - CountIn(i, 0, k) = Rank(Members(i), k) /\ x - CountIn(d, 0, x) = Rank(Members(d), x)
    BY <2>2 DEF UnshiftIndex
  <2>7. CountIn(d, 0, x) = x - Rank(Members(d), x)
    BY <1>2, <2>3, <2>5, <2>6
  <2>8. CalcAt(prev, next, acc, row) = k - CountIn(i, 0, k) + CountIn(d, 0, x)
    BY <1>3, <1>4 DEF CalcAt, i, d
  <2>9. CalcAt(prev, next, acc, row) = Rank(Members(i), k) + (x - Rank(Members(d), x))
    BY ONLY <2>6, <2>7, <2>8
  <2> QED
    BY <1>2, <2>3, <2>9, <2>i DEF d
<1> HIDE DEF row
<1> DEFINE sh == Rank(Gone(prev), x)
           calc == Rank(Ins(acc.change), k) + x - Rank(Members(acc.removed), x)
           c == UnsortedAt(prev, next, candidates, acc, row)
<1>8. c = CASE sh = acc.expected -> [acc EXCEPT !.expected = @ + 1]
            [] sh # acc.expected /\ (row \notin Members(candidates) \/ sh = calc) ->
                 [acc EXCEPT !.expected = sh + 1]
            [] OTHER ->
                 [acc EXCEPT !.removed = AddIndex(@, x),
                             !.change.insertions = AddIndex(@, k),
                             !.change.moves = Append(@, [from |-> x, to |-> k])]
  BY <1>3, <1>4, <1>5, <1>6, <1>7 DEF UnsortedAt
<1>9. Accepts(prev, candidates, acc, row, x, k) <=> sh = acc.expected \/ row \notin Members(candidates) \/ sh = calc
  BY DEF Accepts
<1> HIDE DEF sh, calc, c
<1>10. CASE sh = acc.expected
  BY <1>8, <1>9, <1>10 DEF sh, c, row, UnsortedDoes
<1>11. CASE sh # acc.expected /\ (row \notin Members(candidates) \/ sh = calc)
  BY <1>8, <1>9, <1>11 DEF sh, c, row, UnsortedDoes
<1>12. CASE sh # acc.expected /\ ~(row \notin Members(candidates) \/ sh = calc)
  BY <1>8, <1>9, <1>12 DEF sh, c, row, UnsortedDoes
<1> QED
  BY <1>10, <1>11, <1>12

\* The rows in both collections.
Both(prev, next) == ToSet(prev) \cap ToSet(next)

\* The rows of which fewer than e come before, deleted ones not counted, are
\* all before position j now.
Seen(prev, next, j, e) ==
    \A x \in 0 .. Len(prev) - 1, p \in 0 .. Len(next) - 1 :
      prev[x + 1] = next[p + 1] /\ Rank(Gone(prev), x) < e => p < j

\* A row that is no candidate has not been passed.
Steady(prev, next, candidates) ==
    \A x, z \in 0 .. Len(prev) - 1, p, q \in 0 .. Len(next) - 1 :
      prev[x + 1] = next[p + 1] /\ prev[z + 1] = next[q + 1] /\ next[q + 1] \notin Members(candidates)
        => (x < z => p < q)

\* What is true when the first k rows were looked at and of the rows in both
\* collections K were left where they are.
Looked(b, prev, next, k, acc, K) ==
    /\ acc \in Unsorteds
    /\ K \subseteq Both(prev, next)
    /\ acc.change.deletions = b.deletions /\ acc.change.modifications = b.modifications
    /\ Members(acc.removed) = Others(prev, K) \ Gone(prev)
    /\ Ins(acc.change) = Others(next, K)
    /\ \A p \in 0 .. Len(next) - 1 : next[p + 1] \in Both(prev, next) \ K => p < k
    /\ Apart(acc.change.moves)
    /\ \A j \in 1 .. Len(acc.change.moves) :
         /\ acc.change.moves[j].from \in 0 .. Len(prev) - 1 /\ acc.change.moves[j].to \in 0 .. Len(next) - 1
         /\ prev[acc.change.moves[j].from + 1] = next[acc.change.moves[j].to + 1]
         /\ next[acc.change.moves[j].to + 1] \in Both(prev, next) \ K
\* The kept rows so far come in the order of their old positions.
InOrder(prev, next, k, e, K) ==
    /\ Seen(prev, next, k, e)
    /\ \A x \in 0 .. Len(prev) - 1, p \in 0 .. Len(next) - 1 :
         p < k /\ prev[x + 1] = next[p + 1] /\ next[p + 1] \in K => Seen(prev, next, p, Rank(Gone(prev), x))

\* A row is in both sequences when both have a position for it.
LEMMA RowsBoth ==
    ASSUME NEW prev \in Seq(Int), NEW next \in Seq(Nat)
    PROVE  \A r : r \in Both(prev, next) <=>
             /\ \E x \in 0 .. Len(prev) - 1 : prev[x + 1] = r
             /\ \E p \in 0 .. Len(next) - 1 : next[p + 1] = r
<1>1. Len(prev) \in Nat /\ Len(next) \in Nat /\ DOMAIN prev = 1 .. Len(prev) /\ DOMAIN next = 1 .. Len(next)
  OBVIOUS
<1>2. ASSUME NEW r PROVE r \in ToSet(prev) <=> \E x \in 0 .. Len(prev) - 1 : prev[x + 1] = r
  <2>1. ASSUME r \in ToSet(prev) PROVE \E x \in 0 .. Len(prev) - 1 : prev[x + 1] = r
    <3>1. PICK i \in 1 .. Len(prev) : prev[i] = r
      BY <1>1, <2>1 DEF ToSet
    <3>2. i - 1 \in 0 .. Len(prev) - 1 /\ (i - 1) + 1 = i
      BY <1>1
    <3> QED
      BY <3>1, <3>2
  <2>2. ASSUME NEW x \in 0 .. Len(prev) - 1, prev[x + 1] = r PROVE r \in ToSet(prev)
    <3>1. x + 1 \in DOMAIN prev
      BY <1>1
    <3> QED
      BY <2>2, <3>1 DEF ToSet
  <2> QED
    BY <2>1, <2>2
<1>3. ASSUME NEW r PROVE r \in ToSet(next) <=> \E x \in 0 .. Len(next) - 1 : next[x + 1] = r
  <2>1. ASSUME r \in ToSet(next) PROVE \E x \in 0 .. Len(next) - 1 : next[x + 1] = r
    <3>1. PICK i \in 1 .. Len(next) : next[i] = r
      BY <1>1, <2>1 DEF ToSet
    <3>2. i - 1 \in 0 .. Len(next) - 1 /\ (i - 1) + 1 = i
      BY <1>1
    <3> QED
      BY <3>1, <3>2
  <2>2. ASSUME NEW x \in 0 .. Len(next) - 1, next[x + 1] = r PROVE r \in ToSet(next)
    <3>1. x + 1 \in DOMAIN next
      BY <1>1
    <3> QED
      BY <2>2, <3>1 DEF ToSet
  <2> QED
    BY <2>1, <2>2
<1> QED
  BY <1>2, <1>3 DEF Both

\* Rows in a collection are in one place, and not deleted.
LEMMA RowsApart ==
    ASSUME NEW prev, NEW next, NEW candidates, NEW x, NEW k, Looking(prev, next, candidates, x, k)
    PROVE  /\ x \in Nat /\ k \in Nat /\ x \notin Gone(prev)
           /\ next[k + 1] \in Both(prev, next)
           /\ \A z \in 0 .. Len(prev) - 1 : prev[z + 1] = next[k + 1] => z = x
           /\ \A p \in 0 .. Len(next) - 1 : next[p + 1] = next[k + 1] => p = k
<1>1. /\ prev \in Seq(Int) /\ next \in Seq(Nat) /\ Once(prev, Nat) /\ Once(next, Nat)
      /\ x \in 0 .. Len(prev) - 1 /\ k \in 0 .. Len(next) - 1
      /\ prev[x + 1] = next[k + 1] /\ Len(prev) \in Nat /\ Len(next) \in Nat
  BY DEF Looking
<1>2. next[k + 1] \in Nat
  BY <1>1
<1>3. NPos \notin Nat
  BY DEF NPos
<1>4. x \notin Gone(prev)
  BY <1>1, <1>2, <1>3 DEF Gone
<1>5. next[k + 1] \in Both(prev, next)
  BY <1>1, RowsBoth
<1>6. ASSUME NEW z \in 0 .. Len(prev) - 1, prev[z + 1] = next[k + 1] PROVE z = x
  <2>1. z + 1 \in 1 .. Len(prev) /\ x + 1 \in 1 .. Len(prev)
    BY <1>1
  <2>2. z + 1 = x + 1
    BY <1>1, <1>2, <1>6, <2>1 DEF Once
  <2> QED
    BY <1>1, <2>2
<1>7. ASSUME NEW p \in 0 .. Len(next) - 1, next[p + 1] = next[k + 1] PROVE p = k
  <2>1. p + 1 \in 1 .. Len(next) /\ k + 1 \in 1 .. Len(next)
    BY <1>1
  <2>2. p + 1 = k + 1
    BY <1>1, <1>2, <1>7, <2>1 DEF Once
  <2> QED
    BY <1>1, <2>2
<1> QED
  BY <1>1, <1>4, <1>5, <1>6, <1>7

\* A row before another that is in both counts.
LEMMA RankBefore ==
    ASSUME NEW prev, NEW next, NEW candidates, NEW x, NEW k, Looking(prev, next, candidates, x, k),
           NEW z \in Nat
    PROVE  x < z <=> Rank(Gone(prev), x) < Rank(Gone(prev), z)
<1>1. x \in Nat /\ x \notin Gone(prev)
  BY RowsApart
<1>2. Rank(Gone(prev), x) \in Nat /\ Rank(Gone(prev), z) \in Nat
  BY <1>1, RankSteps
<1>3. x < z => Rank(Gone(prev), x) < Rank(Gone(prev), z)
  BY <1>1, RankGrows
<1>4. z <= x => Rank(Gone(prev), z) <= Rank(Gone(prev), x)
  BY <1>1, RankGrows
<1> QED
  BY <1>1, <1>2, <1>3, <1>4

\* When a row is left where it is, those before it have all been seen.
LEMMA SeenBefore ==
    ASSUME NEW prev, NEW next, NEW candidates, NEW x, NEW k, Looking(prev, next, candidates, x, k),
           NEW b, NEW acc, NEW K, Looked(b, prev, next, k, acc, K), InOrder(prev, next, k, acc.expected, K),
           Steady(prev, next, candidates), Accepts(prev, candidates, acc, next[k + 1], x, k)
    PROVE  Seen(prev, next, k, Rank(Gone(prev), x))
<1> DEFINE G == Gone(prev)
           row == next[k + 1]
<1>1. /\ prev \in Seq(Int) /\ next \in Seq(Nat) /\ next \in Seq(Int) /\ Once(prev, Nat) /\ Once(next, Nat)
      /\ x \in 0 .. Len(prev) - 1 /\ k \in 0 .. Len(next) - 1 /\ candidates \in Ranges
      /\ prev[x + 1] = row /\ Len(prev) \in Nat /\ Len(next) \in Nat
  BY DEF Looking
<1>2. ASSUME NEW z \in 0 .. Len(prev) - 1, NEW p \in 0 .. Len(next) - 1, prev[z + 1] = next[p + 1]
      PROVE  Looking(prev, next, candidates, z, p)
  BY <1>1, <1>2 DEF Looking
<1>3. CASE Rank(G, x) = acc.expected
  BY <1>3 DEF InOrder
<1>4. CASE row \notin Members(candidates)
  <2> SUFFICES ASSUME NEW z \in 0 .. Len(prev) - 1, NEW p \in 0 .. Len(next) - 1,
                      prev[z + 1] = next[p + 1], Rank(G, z) < Rank(G, x)
               PROVE  p < k
    BY DEF Seen
  <2>1. Looking(prev, next, candidates, z, p) /\ x \in Nat
    BY <1>1, <1>2
  <2> HIDE DEF G
  <2>2. z < x
    BY <2>1, RankBefore DEF G
  <2> QED
    BY <1>1, <1>4, <2>2 DEF Steady
<1>5. CASE Rank(G, x) = Rank(Ins(acc.change), k) + x - Rank(Members(acc.removed), x)
  <2> DEFINE R == Members(acc.removed)
             P == RowsBefore(prev, K, x)
             N == RowsBefore(next, K, k)
  <2>1. /\ K \subseteq Both(prev, next) /\ R = Others(prev, K) \ G /\ Ins(acc.change) = Others(next, K)
        /\ \A p \in 0 .. Len(next) - 1 : next[p + 1] \in Both(prev, next) \ K => p < k
    BY DEF Looked
  <2>n. K \subseteq Nat
    <3>1. ASSUME NEW r \in K PROVE r \in Nat
      <4>1. PICK p \in 0 .. Len(next) - 1 : next[p + 1] = r
        BY <1>1, <2>1, RowsBoth
      <4> QED
        BY <1>1, <4>1
    <3> QED
      BY <3>1
  <2>2. Once(prev, K) /\ Once(next, K)
    BY <1>1, <2>n DEF Once
  <2>3. x \in 0 .. Len(prev) /\ k \in 0 .. Len(next) /\ x \in Nat /\ k \in Nat
    BY <1>1
  <2>4. Rank(Others(prev, K), x) = Cardinality(P) /\ IsFiniteSet(P)
    BY <1>1, <2>2, <2>3, RowsCount
  <2>5. Rank(Others(next, K), k) = Cardinality(N)
    BY <1>1, <2>2, <2>3, RowsCount
  <2>6. G \cup R = Others(prev, K) /\ G \cap R = {}
    <3>1. NPos \notin K
      BY <2>n DEF NPos
    <3>2. G \subseteq Others(prev, K)
      BY <3>1 DEF Gone, Others
    <3> HIDE DEF G, R
    <3> QED
      BY <2>1, <3>2
  <2> HIDE DEF R, P, N, G
  <2>7. Rank(Others(prev, K), x) = Rank(G, x) + Rank(R, x) - x
    BY <2>3, <2>6, RankApart
  <2>8. Rank(G, x) \in Nat /\ Rank(R, x) \in Nat /\ Rank(Others(next, K), k) \in Nat
    BY <2>3, RankSteps
  <2>9. Cardinality(P) = Cardinality(N)
    <3>1. Rank(G, x) = Rank(Others(next, K), k) + x - Rank(R, x)
      BY <1>5, <2>1 DEF R, G
    <3>2. Rank(Others(prev, K), x) = Rank(Others(next, K), k)
      BY <2>3, <2>7, <2>8, <3>1
    <3> QED
      BY <2>4, <2>5, <3>2
  <2>10. ASSUME NEW r \in N PROVE r \in P
    <3>1. r \in K /\ \E p \in 0 .. k - 1 : next[p + 1] = r
      BY DEF N, RowsBefore
    <3>2. PICK p \in 0 .. k - 1 : next[p + 1] = r
      BY <3>1
    <3>3. PICK z \in 0 .. Len(prev) - 1 : prev[z + 1] = r
      BY <1>1, <2>1, <3>1, RowsBoth
    <3>4. p \in 0 .. Len(next) - 1 /\ p < k
      BY <1>1
    <3>5. Seen(prev, next, p, Rank(G, z))
      BY <3>1, <3>2, <3>3, <3>4 DEF InOrder, G
    <3>6. ~(Rank(G, x) < Rank(G, z))
      BY <1>1, <3>4, <3>5 DEF Seen, G
    <3>7. ~(x < z)
      BY <3>3, <3>6, RankBefore DEF G
    <3>8. x # z
      <4>1. \A q \in 0 .. Len(next) - 1 : next[q + 1] = next[k + 1] => q = k
        BY RowsApart
      <4> QED
        BY <1>1, <3>2, <3>3, <3>4, <4>1
    <3>9. z \in 0 .. x - 1
      BY <1>1, <3>7, <3>8
    <3> QED
      BY <3>1, <3>3, <3>9 DEF P, RowsBefore
  <2>11. P = N
    <3> SUFFICES ASSUME NEW r \in P, r \notin N PROVE FALSE
      BY <2>10
    <3> QED
      BY <2>4, <2>9, <2>10, RowsMore
  <2> SUFFICES ASSUME NEW z \in 0 .. Len(prev) - 1, NEW p \in 0 .. Len(next) - 1,
                      prev[z + 1] = next[p + 1], Rank(G, z) < Rank(G, x)
               PROVE  p < k
    BY DEF Seen, G
  <2>12. Looking(prev, next, candidates, z, p)
    BY <1>2
  <2>13. z < x
    BY <2>3, <2>12, RankBefore DEF G
  <2>14. next[p + 1] \in Both(prev, next)
    BY <2>12, RowsApart
  <2>15. CASE next[p + 1] \notin K
    BY <2>1, <2>14, <2>15
  <2>16. CASE next[p + 1] \in K
    <3>1. z \in 0 .. x - 1
      BY <2>3, <2>13
    <3>2. next[p + 1] \in P
      BY <2>16, <3>1 DEF P, RowsBefore
    <3>3. PICK q \in 0 .. k - 1 : next[q + 1] = next[p + 1]
      BY <2>11, <3>2 DEF N, RowsBefore
    <3>4. q \in 0 .. Len(next) - 1 /\ q < k
      BY <1>1
    <3>5. q = p
      BY <2>12, <3>3, <3>4, RowsApart
    <3> QED
      BY <3>4, <3>5
  <2> QED
    BY <2>15, <2>16
<1> QED
  BY <1>3, <1>4, <1>5 DEF Accepts

\* The next row is new, or stays, or moves.
LEMMA LookedNew ==
    ASSUME NEW prev \in Seq(Int), NEW next \in Seq(Nat), NEW k \in 0 .. Len(next) - 1,
           next[k + 1] \notin Both(prev, next),
           NEW b, NEW acc, NEW K, Looked(b, prev, next, k, acc, K)
    PROVE  /\ Looked(b, prev, next, k + 1, acc, K)
           /\ InOrder(prev, next, k, acc.expected, K) => InOrder(prev, next, k + 1, acc.expected, K)
<1>0. Len(prev) \in Nat /\ Len(next) \in Nat /\ k \in Nat
  OBVIOUS
<1>1. Looked(b, prev, next, k + 1, acc, K)
  <2>1. \A p \in 0 .. Len(next) - 1 : p < k => p < k + 1
    BY <1>0
  <2> QED
    BY <2>1 DEF Looked
<1>2. ASSUME InOrder(prev, next, k, acc.expected, K) PROVE InOrder(prev, next, k + 1, acc.expected, K)
  <2>1. \A p \in 0 .. Len(next) - 1 : p < k => p < k + 1
    BY <1>0
  <2>2. \A p \in 0 .. Len(next) - 1 : p < k + 1 /\ p # k => p < k
    BY <1>0
  <2>3. next[k + 1] \notin K
    BY DEF Looked
  <2>4. Seen(prev, next, k + 1, acc.expected)
    BY <1>2, <2>1 DEF InOrder, Seen
  <2>5. ASSUME NEW x \in 0 .. Len(prev) - 1, NEW p \in 0 .. Len(next) - 1, p < k + 1,
               prev[x + 1] = next[p + 1], next[p + 1] \in K
        PROVE  Seen(prev, next, p, Rank(Gone(prev), x))
    <3>1. p < k
      BY <2>2, <2>3, <2>5
    <3> QED
      BY <1>2, <2>5, <3>1 DEF InOrder
  <2> QED
    BY <2>4, <2>5 DEF InOrder
<1> QED
  BY <1>1, <1>2

\* A row that is accepted: in order, if the result is steady.
LEMMA LookedStays ==
    ASSUME NEW prev, NEW next, NEW candidates, NEW x, NEW k, Looking(prev, next, candidates, x, k),
           NEW b, NEW acc, NEW K, Looked(b, prev, next, k, acc, K),
           Accepts(prev, candidates, acc, next[k + 1], x, k),
           NEW c, c = [acc EXCEPT !.expected = Rank(Gone(prev), x) + 1]
    PROVE  /\ Looked(b, prev, next, k + 1, c, K)
           /\ Steady(prev, next, candidates) /\ InOrder(prev, next, k, acc.expected, K) =>
                InOrder(prev, next, k + 1, c.expected, K)
<1> DEFINE R(z) == Rank(Gone(prev), z)
<1>0. /\ x \in Nat /\ k \in Nat /\ R(x) \in Nat
      /\ \A p \in 0 .. Len(next) - 1 : next[p + 1] = next[k + 1] => p = k
  <2>1. x \in Nat /\ k \in Nat /\ \A p \in 0 .. Len(next) - 1 : next[p + 1] = next[k + 1] => p = k
    BY RowsApart
  <2> QED
    BY <2>1, RankSteps
<1>1. acc \in Unsorteds /\ c \in Unsorteds /\ c.expected = R(x) + 1 /\ c.removed = acc.removed /\ c.change = acc.change
  <2>1. acc \in Unsorteds
    BY DEF Looked
  <2> QED
    BY <1>0, <2>1 DEF Unsorteds
<1>l. Len(prev) \in Nat /\ Len(next) \in Nat
  BY DEF Looking
<1>2. \A p \in 0 .. Len(next) - 1 : p < k => p < k + 1
  BY <1>0, <1>l
<1>3. Looked(b, prev, next, k + 1, c, K)
  BY <1>1, <1>2 DEF Looked
<1>4. ASSUME Steady(prev, next, candidates), InOrder(prev, next, k, acc.expected, K)
      PROVE  InOrder(prev, next, k + 1, c.expected, K)
  <2>1. Seen(prev, next, k, R(x))
    BY <1>4, SeenBefore
  <2>2. ASSUME NEW z \in 0 .. Len(prev) - 1, NEW p \in 0 .. Len(next) - 1,
               prev[z + 1] = next[p + 1], R(z) < R(x) + 1
        PROVE  p < k + 1
    <3>1. Looking(prev, next, candidates, z, p)
      BY <2>2 DEF Looking
    <3>2. z < x => R(z) < R(x)
      BY <1>0, <3>1, RankBefore
    <3>z. z \in Nat
      BY <1>l
    <3>3. z \in Nat /\ R(z) \in Nat
      BY <3>z, RankSteps
    <3>4. x < z => R(x) < R(z)
      BY <3>3, RankBefore
    <3>5. CASE z < x
      BY <1>2, <2>1, <2>2, <3>2, <3>5 DEF Seen
    <3>6. CASE z = x
      <4>1. next[p + 1] = next[k + 1]
        BY <2>2, <3>6 DEF Looking
      <4>2. p = k
        BY <1>0, <4>1
      <4> QED
        BY <1>0, <4>2
    <3> QED
      BY <1>0, <2>2, <3>3, <3>4, <3>5, <3>6
  <2>3. Seen(prev, next, k + 1, c.expected)
    BY <1>1, <2>2 DEF Seen
  <2>4. ASSUME NEW z \in 0 .. Len(prev) - 1, NEW p \in 0 .. Len(next) - 1, p < k + 1,
               prev[z + 1] = next[p + 1], next[p + 1] \in K
        PROVE  Seen(prev, next, p, R(z))
    <3>1. CASE p < k
      BY <1>4, <2>4, <3>1 DEF InOrder
    <3>2. CASE p = k
      <4>1. \A y \in 0 .. Len(prev) - 1 : prev[y + 1] = next[k + 1] => y = x
        BY RowsApart
      <4>2. z = x
        BY <2>4, <3>2, <4>1
      <4> QED
        BY <2>1, <3>2, <4>2
    <3> QED
      BY <1>0, <1>l, <2>4, <3>1, <3>2
  <2> QED
    BY <2>3, <2>4 DEF InOrder
<1> QED
  BY <1>3, <1>4

\* A row that is moved: no longer among those kept.
LEMMA LookedMoves ==
    ASSUME NEW prev, NEW next, NEW candidates, NEW x, NEW k, Looking(prev, next, candidates, x, k),
           NEW b, NEW acc, NEW K, Looked(b, prev, next, k, acc, K),
           NEW c, c = [acc EXCEPT !.removed = AddIndex(@, x),
                                  !.change.insertions = AddIndex(@, k),
                                  !.change.moves = Append(@, [from |-> x, to |-> k])]
    PROVE  /\ Looked(b, prev, next, k + 1, c, K \ {next[k + 1]})
           /\ InOrder(prev, next, k, acc.expected, K) =>
                InOrder(prev, next, k + 1, c.expected, K \ {next[k + 1]})
<1> DEFINE G == Gone(prev)
           row == next[k + 1]
           N == K \ {row}
           B == Both(prev, next)
           m == [from |-> x, to |-> k]
           mv == acc.change.moves
           w == Append(mv, m)
           e == AddIndex(acc.removed, x)
           i == AddIndex(acc.change.insertions, k)
           g == [acc.change EXCEPT !.insertions = i, !.moves = w]
<1>0. /\ x \in Nat /\ k \in Nat /\ x \notin G /\ row \in B
      /\ \A z \in 0 .. Len(prev) - 1 : prev[z + 1] = row => z = x
      /\ \A p \in 0 .. Len(next) - 1 : next[p + 1] = row => p = k
  BY RowsApart
<1>l. /\ Len(prev) \in Nat /\ Len(next) \in Nat /\ x \in 0 .. Len(prev) - 1 /\ k \in 0 .. Len(next) - 1
      /\ prev[x + 1] = row
  BY DEF Looking
<1>1. /\ acc \in Unsorteds /\ acc.change \in Builders /\ acc.removed \in Ranges /\ acc.expected \in Int
      /\ K \subseteq B
      /\ acc.change.deletions = b.deletions /\ acc.change.modifications = b.modifications
      /\ Members(acc.removed) = Others(prev, K) \ G
      /\ Ins(acc.change) = Others(next, K)
      /\ \A p \in 0 .. Len(next) - 1 : next[p + 1] \in B \ K => p < k
      /\ Apart(mv)
  BY DEF Looked, Unsorteds
<1>m. \A j \in 1 .. Len(mv) :
         /\ mv[j].from \in 0 .. Len(prev) - 1 /\ mv[j].to \in 0 .. Len(next) - 1
         /\ prev[mv[j].from + 1] = next[mv[j].to + 1] /\ next[mv[j].to + 1] \in B \ K
  BY DEF Looked
<1>2. mv \in Seq(Moves) /\ acc.change.insertions \in Ranges
  BY <1>1, BuilderIs
<1>3. m \in Moves /\ m.from = x /\ m.to = k
  BY <1>0 DEF Moves
<1>4. row \in K
  BY <1>0, <1>1, <1>l
<1>5. e \in Ranges /\ Members(e) = Members(acc.removed) \cup {x}
  BY <1>0, <1>1, AddIndexIs
<1>6. i \in Ranges /\ Members(i) = Members(acc.change.insertions) \cup {k}
  BY <1>0, <1>2, AddIndexIs
<1>7. w \in Seq(Moves)
  BY <1>2, <1>3
<1>8. c = [acc EXCEPT !.removed = e, !.change = g]
  BY <1>1 DEF Unsorteds, Builders
<1> HIDE DEF w, e, i
<1>9. g \in Builders /\ g.insertions = i /\ g.moves = w /\ g.deletions = acc.change.deletions /\ g.modifications = acc.change.modifications
  BY <1>1, <1>6, <1>7 DEF Builders
<1> HIDE DEF g
<1>10. c \in Unsorteds /\ c.removed = e /\ c.change = g /\ c.expected = acc.expected
  BY <1>1, <1>5, <1>8, <1>9 DEF Unsorteds
<1>11. Others(prev, N) = Others(prev, K) \cup {x}
  BY <1>0, <1>l DEF Others
<1>12. Others(next, N) = Others(next, K) \cup {k}
  BY <1>0, <1>l DEF Others
<1>13. Members(c.removed) = Others(prev, N) \ G
  BY <1>0, <1>1, <1>5, <1>10, <1>11
<1>14. Ins(c.change) = Others(next, N)
  BY <1>1, <1>6, <1>9, <1>10, <1>12 DEF Ins
<1>15. \A p \in 0 .. Len(next) - 1 : next[p + 1] \in B \ N => p < k + 1
  <2> SUFFICES ASSUME NEW p \in 0 .. Len(next) - 1, next[p + 1] \in B, next[p + 1] \notin N PROVE p < k + 1
    OBVIOUS
  <2>1. CASE next[p + 1] = row
    BY <1>0, <2>1
  <2>2. CASE next[p + 1] # row
    BY <1>0, <1>1, <1>l, <2>2
  <2> QED
    BY <2>1, <2>2
<1>16. \A j \in 1 .. Len(mv) : mv[j].from # x /\ mv[j].to # k
  <2> SUFFICES ASSUME NEW j \in 1 .. Len(mv) PROVE mv[j].from # x /\ mv[j].to # k
    OBVIOUS
  <2>1. prev[mv[j].from + 1] = next[mv[j].to + 1] /\ next[mv[j].to + 1] # row
    BY <1>4, <1>m
  <2> QED
    BY <1>l, <2>1
<1>17. Apart(w)
  <2> HIDE DEF m, mv
  <2>1. \A j \in 1 .. Len(mv) : mv[j].from # m.from /\ mv[j].to # m.to
    BY <1>3, <1>16
  <2> QED
    BY <1>1, <1>2, <1>3, <2>1, ApartMore DEF w
<1>18. \A j \in 1 .. Len(w) :
         /\ w[j].from \in 0 .. Len(prev) - 1 /\ w[j].to \in 0 .. Len(next) - 1
         /\ prev[w[j].from + 1] = next[w[j].to + 1] /\ next[w[j].to + 1] \in B \ N
  <2>1. Len(mv) \in Nat /\ Len(w) = Len(mv) + 1 /\ w[Len(mv) + 1] = m /\ \A j \in 1 .. Len(mv) : w[j] = mv[j]
    BY <1>2, <1>3 DEF w
  <2> SUFFICES ASSUME NEW j \in 1 .. Len(w)
               PROVE  /\ w[j].from \in 0 .. Len(prev) - 1 /\ w[j].to \in 0 .. Len(next) - 1
                      /\ prev[w[j].from + 1] = next[w[j].to + 1] /\ next[w[j].to + 1] \in B \ N
    OBVIOUS
  <2>2. CASE j \in 1 .. Len(mv)
    <3> DEFINE v == mv[j]
    <3>1. /\ v.from \in 0 .. Len(prev) - 1 /\ v.to \in 0 .. Len(next) - 1
          /\ prev[v.from + 1] = next[v.to + 1] /\ next[v.to + 1] \in B \ K
      BY <1>m, <2>2
    <3>2. w[j] = v
      BY <2>1, <2>2
    <3> HIDE DEF v
    <3> QED
      BY <3>1, <3>2
  <2>3. CASE j = Len(mv) + 1
    BY <1>0, <1>3, <1>l, <2>1, <2>3
  <2> QED
    BY <2>1, <2>2, <2>3
<1>19. Looked(b, prev, next, k + 1, c, N)
  <2> HIDE DEF N, B, G
  <2>1. N \subseteq B
    BY <1>1 DEF N
  <2>2. /\ c \in Unsorteds /\ c.change.moves = w
        /\ c.change.deletions = b.deletions /\ c.change.modifications = b.modifications
    BY <1>1, <1>9, <1>10
  <2> HIDE DEF mv
  <2> QED
    BY <1>13, <1>14, <1>15, <1>17, <1>18, <2>1, <2>2 DEF Looked, B, G
<1>20. ASSUME InOrder(prev, next, k, acc.expected, K)
       PROVE  InOrder(prev, next, k + 1, c.expected, N)
  <2>1. \A p \in 0 .. Len(next) - 1 : p < k => p < k + 1
    BY <1>0, <1>l
  <2>2. \A p \in 0 .. Len(next) - 1 : p < k + 1 /\ p # k => p < k
    BY <1>0, <1>l
  <2>4. Seen(prev, next, k + 1, c.expected)
    BY <1>10, <1>20, <2>1 DEF InOrder, Seen
  <2>5. ASSUME NEW z \in 0 .. Len(prev) - 1, NEW p \in 0 .. Len(next) - 1, p < k + 1,
               prev[z + 1] = next[p + 1], next[p + 1] \in N
        PROVE  Seen(prev, next, p, Rank(Gone(prev), z))
    <3>1. p < k /\ next[p + 1] \in K
      BY <2>2, <2>5
    <3> QED
      BY <1>20, <2>5, <3>1 DEF InOrder
  <2> QED
    BY <2>4, <2>5 DEF InOrder
<1> QED
  BY <1>19, <1>20

\* What calculate begins with.
Started(b, prev, next, removed, candidates) ==
    /\ prev \in Seq(Int) /\ next \in Seq(Nat) /\ Once(prev, Nat) /\ Once(next, Nat)
    /\ candidates \in Ranges
    /\ b \in Builders /\ b.moves = << >>
    /\ Del(b) = Gone(prev) /\ Ins(b) = Others(next, Both(prev, next))
    /\ removed \in Ranges /\ Members(removed) = Others(prev, Both(prev, next)) \ Gone(prev)

\* And ends with: the rows K have been left where they are, all others are
\* deleted or inserted, or both, and then perhaps moved.
Kept(r, b, prev, next, K) ==
    /\ r \in Builders /\ r.modifications = b.modifications
    /\ K \subseteq Both(prev, next)
    /\ Del(r) = Others(prev, K) /\ Ins(r) = Others(next, K)
    /\ Apart(r.moves)
    /\ \A j \in 1 .. Len(r.moves) :
         /\ r.moves[j].from \in 0 .. Len(prev) - 1 /\ r.moves[j].to \in 0 .. Len(next) - 1
         /\ prev[r.moves[j].from + 1] = next[r.moves[j].to + 1]
         /\ next[r.moves[j].to + 1] \in Both(prev, next) \ K

\* Where a row that is in both is now.
LEMMA LookingAt ==
    ASSUME NEW b, NEW prev, NEW next, NEW removed, NEW candidates, Started(b, prev, next, removed, candidates),
           NEW k \in 0 .. Len(next) - 1, next[k + 1] \in ToSet(prev)
    PROVE  \E x \in 0 .. Len(prev) - 1 : Looking(prev, next, candidates, x, k)
<1>1. prev \in Seq(Int) /\ next \in Seq(Nat)
  BY DEF Started
<1>2. PICK i \in 1 .. Len(prev) : prev[i] = next[k + 1]
  BY <1>1 DEF ToSet
<1> DEFINE x == i - 1
<1>3. x \in 0 .. Len(prev) - 1 /\ x + 1 = i
  BY <1>1
<1> HIDE DEF x
<1>4. Looking(prev, next, candidates, x, k)
  BY <1>2, <1>3 DEF Looking, Started
<1> QED
  BY <1>3, <1>4

\* UnsortedAt gives numbers and ranges.
LEMMA UnsortedType ==
    ASSUME NEW prev, NEW next, NEW candidates, NEW x, NEW k, Looking(prev, next, candidates, x, k),
           NEW acc \in Unsorteds
    PROVE  UnsortedAt(prev, next, candidates, acc, next[k + 1]) \in Unsorteds
<1> DEFINE row == next[k + 1]
           c == UnsortedAt(prev, next, candidates, acc, row)
           m == [from |-> x, to |-> k]
           e == AddIndex(acc.removed, x)
           i == AddIndex(acc.change.insertions, k)
           w == Append(acc.change.moves, m)
<1>1. x \in Nat /\ k \in Nat
  BY RowsApart
<1>r. Rank(Gone(prev), x) + 1 \in Int
  BY <1>1, RankSteps
<1>2. /\ Accepts(prev, candidates, acc, row, x, k) => c = [acc EXCEPT !.expected = Rank(Gone(prev), x) + 1]
      /\ ~Accepts(prev, candidates, acc, row, x, k) =>
           c = [acc EXCEPT !.removed = AddIndex(@, x), !.change.insertions = AddIndex(@, k), !.change.moves = Append(@, m)]
  <2>1. UnsortedDoes(prev, candidates, acc, next[k + 1], x, k, UnsortedAt(prev, next, candidates, acc, next[k + 1]))
    BY UnsortedCases
  <2> QED
    BY <2>1 DEF UnsortedDoes
<1>3. /\ acc.change \in Builders /\ acc.removed \in Ranges /\ acc.expected \in Int
      /\ acc.change.insertions \in Ranges /\ acc.change.moves \in Seq(Moves) /\ m \in Moves
  BY <1>1, BuilderIs DEF Unsorteds, Moves
<1>4. e \in Ranges /\ i \in Ranges /\ w \in Seq(Moves)
  BY <1>1, <1>3, AddIndexIs
<1> HIDE DEF c
<1>5. CASE Accepts(prev, candidates, acc, row, x, k)
  <2> DEFINE q == Rank(Gone(prev), x) + 1
  <2>1. c = [acc EXCEPT !.expected = q] /\ q \in Int
    BY <1>2, <1>5, <1>r
  <2> HIDE DEF q
  <2>2. c \in Unsorteds
    BY <2>1 DEF Unsorteds
  <2> QED
    BY <2>2 DEF c
<1>6. CASE ~Accepts(prev, candidates, acc, row, x, k)
  <2> DEFINE g == [acc.change EXCEPT !.insertions = i, !.moves = w]
  <2>1. c = [acc EXCEPT !.removed = e, !.change = g]
    BY <1>2, <1>3, <1>6 DEF Unsorteds, Builders
  <2> HIDE DEF e, i, w
  <2>2. g \in Builders
    BY <1>3, <1>4 DEF Builders
  <2> HIDE DEF g
  <2>3. c \in Unsorteds
    BY <1>4, <2>1, <2>2 DEF Unsorteds
  <2> QED
    BY <2>3 DEF c
<1> QED
  BY <1>5, <1>6

\* The function p goes through the rows.
UnsortedLooks(b, prev, next, removed, candidates, p) ==
    /\ MovesUnsorted(b, prev, next, removed, candidates) =
         [p[Len(next)].change EXCEPT !.deletions = AddIndexes(@, p[Len(next)].removed)]
    /\ p[0] = [expected |-> 0, removed |-> removed, change |-> b]
    /\ \A k \in 1 .. Len(next) :
         p[k] = IF next[k] \in ToSet(prev) THEN UnsortedAt(prev, next, candidates, p[k - 1], next[k])
                ELSE p[k - 1]

\* MovesUnsorted is the last of the steps of UnsortedOf.
LEMMA UnsortedRuns ==
    ASSUME NEW b, NEW prev, NEW next, NEW removed, NEW candidates, Started(b, prev, next, removed, candidates)
    PROVE  UnsortedLooks(b, prev, next, removed, candidates, UnsortedOf(b, prev, next, removed, candidates))
<1> DEFINE n == Len(next)
           V == Unsorteds
           none == [expected |-> 0, removed |-> removed, change |-> b]
           At(k, u) == IF next[k] \in ToSet(prev) THEN UnsortedAt(prev, next, candidates, u, next[k]) ELSE u
           step == [k \in 1 .. n |-> [u \in V |-> At(k, u)]]
<1>0. n \in Nat /\ removed \in Ranges /\ b \in Builders
  BY DEF Started
<1>1. step \in Steps(n, V)
  <2>1. ASSUME NEW k \in 1 .. n, NEW u \in V
        PROVE  At(k, u) \in V
    <3>1. CASE next[k] \in ToSet(prev)
      <4> DEFINE j == k - 1
      <4>1. j \in 0 .. n - 1 /\ j + 1 = k
        BY <1>0
      <4> HIDE DEF j
      <4>2. PICK x \in 0 .. Len(prev) - 1 : Looking(prev, next, candidates, x, j)
        BY <3>1, <4>1, LookingAt
      <4>3. UnsortedAt(prev, next, candidates, u, next[j + 1]) \in V
        BY <4>2, UnsortedType
      <4> QED
        BY <3>1, <4>1, <4>3
    <3> QED
      BY <3>1
  <2> HIDE DEF V, n, At
  <2> QED
    BY <2>1 DEF Steps
<1>2. none \in V
  BY <1>0 DEF Unsorteds
<1> DEFINE p == UnsortedOf(b, prev, next, removed, candidates)
<1>c. MovesUnsorted(b, prev, next, removed, candidates) = [p[n].change EXCEPT !.deletions = AddIndexes(@, p[n].removed)]
  BY DEF MovesUnsorted, UnsortedOf, UnsortedAt, ShiftedAt, CalcAt
<1>d. p = CHOOSE f : f = [k \in 0 .. n |-> IF k = 0 THEN none ELSE At(k, f[k - 1])]
  BY DEF UnsortedOf
<1> HIDE DEF n, V, step, none, p, At
<1>l. PICK f : IsLoop(f, n, V, none, step)
  BY <1>0, <1>1, <1>2, LoopRuns
<1>3. f \in [0 .. n -> V] /\ f[0] = none /\ \A k \in 1 .. n : f[k] = step[k][f[k - 1]]
  BY <1>l DEF IsLoop
<1>4. ASSUME NEW k \in 0 .. n
      PROVE  f[k] = IF k = 0 THEN none ELSE At(k, f[k - 1])
  <2>1. CASE k = 0
    BY <1>3, <2>1
  <2>2. CASE k # 0
    <3>1. k \in 1 .. n /\ k - 1 \in 0 .. n
      BY <1>0, <2>2
    <3>2. f[k] = step[k][f[k - 1]] /\ f[k - 1] \in V
      BY <1>3, <3>1
    <3>3. f[k] = At(k, f[k - 1])
      BY <3>1, <3>2 DEF step
    <3> QED
      BY <2>2, <3>3
  <2> QED
    BY <2>1, <2>2
<1>5. f = [k \in 0 .. n |-> IF k = 0 THEN none ELSE At(k, f[k - 1])]
  BY <1>3, <1>4
<1>6. p = [k \in 0 .. n |-> IF k = 0 THEN none ELSE At(k, p[k - 1])]
  BY <1>5, <1>d, Zenon
<1>7. p[0] = none /\ \A k \in 1 .. n : p[k] = At(k, p[k - 1])
  <2>1. \A k \in 0 .. n : p[k] = IF k = 0 THEN none ELSE At(k, p[k - 1])
    BY <1>6, Zenon
  <2>2. 0 \in 0 .. n /\ \A k \in 1 .. n : k \in 0 .. n /\ k # 0
    BY <1>0
  <2> QED
    BY <2>1, <2>2, Zenon
<1> QED
  BY <1>7, <1>c DEF p, n, none, At, UnsortedLooks

\* Some rows are left where they are; if no row has passed one that is no
\* candidate, they are in the order they were in.
LEMMA UnsortedIs ==
    ASSUME NEW b, NEW prev, NEW next, NEW removed, NEW candidates, Started(b, prev, next, removed, candidates)
    PROVE  \E K : /\ Kept(MovesUnsorted(b, prev, next, removed, candidates), b, prev, next, K)
                  /\ Steady(prev, next, candidates) => SameOrder(prev, next, K)
<1> DEFINE n == Len(next)
           p == UnsortedOf(b, prev, next, removed, candidates)
           Good(k, K) == /\ Looked(b, prev, next, k, p[k], K)
                         /\ Steady(prev, next, candidates) => InOrder(prev, next, k, p[k].expected, K)
           T == {k \in Nat : k <= n => \E K : Good(k, K)}
<1>0. /\ prev \in Seq(Int) /\ next \in Seq(Nat) /\ Once(prev, Nat) /\ Once(next, Nat) /\ n \in Nat /\ Len(prev) \in Nat
      /\ candidates \in Ranges /\ removed \in Ranges /\ b \in Builders /\ b.moves = << >>
      /\ Del(b) = Gone(prev) /\ Ins(b) = Others(next, Both(prev, next))
      /\ Members(removed) = Others(prev, Both(prev, next)) \ Gone(prev)
  BY DEF Started
<1>p. /\ MovesUnsorted(b, prev, next, removed, candidates) = [p[n].change EXCEPT !.deletions = AddIndexes(@, p[n].removed)]
      /\ p[0] = [expected |-> 0, removed |-> removed, change |-> b]
      /\ \A k \in 1 .. n :
           p[k] = IF next[k] \in ToSet(prev) THEN UnsortedAt(prev, next, candidates, p[k - 1], next[k]) ELSE p[k - 1]
  <2>1. UnsortedLooks(b, prev, next, removed, candidates, p)
    BY UnsortedRuns
  <2> QED
    BY <2>1 DEF UnsortedLooks
<1>nn. n \in Nat
  BY <1>0
<1> HIDE DEF p
<1>1. 0 \in T
  <2> DEFINE K == Both(prev, next)
  <2>1. p[0] \in Unsorteds /\ p[0].expected = 0 /\ p[0].removed = removed /\ p[0].change = b
    BY <1>0, <1>p DEF Unsorteds
  <2>2. Len(b.moves) = 0
    BY <1>0
  <2>3. Apart(b.moves)
    BY <2>2 DEF Apart
  <2>4. Looked(b, prev, next, 0, p[0], K)
    BY <1>0, <2>1, <2>2, <2>3 DEF Looked
  <2>5. \A x \in 0 .. Len(prev) - 1 : ~(Rank(Gone(prev), x) < 0)
    <3>1. \A x \in Nat : Rank(Gone(prev), x) \in Nat
      BY RankSteps
    <3> QED
      BY <1>0, <3>1
  <2>6. \A q \in 0 .. n - 1 : ~(q < 0)
    BY <1>0
  <2>7. InOrder(prev, next, 0, 0, K)
    BY <2>5, <2>6 DEF InOrder, Seen
  <2>8. Good(0, K)
    BY <2>1, <2>4, <2>7
  <2> HIDE DEF Good, K
  <2> QED
    BY <2>8
<1>2. ASSUME NEW k \in 0 .. n - 1, k \in T PROVE k + 1 \in T
  <2> DEFINE row == next[k + 1]
             acc == p[k]
             c == p[k + 1]
  <2> HIDE DEF n
  <2>1. k + 1 \in 1 .. n /\ (k + 1) - 1 = k /\ k \in Nat /\ k <= n /\ k + 1 \in Nat
    BY <1>nn
  <2> USE DEF n
  <2>2. c = IF row \in ToSet(prev) THEN UnsortedAt(prev, next, candidates, acc, row) ELSE acc
    BY <1>p, <2>1
  <2>3. PICK K : Good(k, K)
    BY <1>2, <2>1
  <2>4. Looked(b, prev, next, k, acc, K) /\ (Steady(prev, next, candidates) => InOrder(prev, next, k, acc.expected, K))
    BY <2>3
  <2>5. \E N : Looked(b, prev, next, k + 1, c, N) /\ (Steady(prev, next, candidates) => InOrder(prev, next, k + 1, c.expected, N))
    <3>1. CASE row \notin ToSet(prev)
      <4>1. row \notin Both(prev, next)
        BY <3>1 DEF Both
      <4>2. c = acc
        BY <2>2, <3>1
      <4> HIDE DEF acc, c
      <4>3. /\ Looked(b, prev, next, k + 1, acc, K)
            /\ InOrder(prev, next, k, acc.expected, K) => InOrder(prev, next, k + 1, acc.expected, K)
        BY <1>0, <2>4, <4>1, LookedNew
      <4> QED
        BY <2>4, <4>2, <4>3
    <3>2. CASE row \in ToSet(prev)
      <4>1. PICK x \in 0 .. Len(prev) - 1 : Looking(prev, next, candidates, x, k)
        BY <3>2, LookingAt
      <4>2. acc \in Unsorteds
        BY <2>4 DEF Looked
      <4>3. c = UnsortedAt(prev, next, candidates, acc, row)
        BY <2>2, <3>2
      <4> HIDE DEF acc, c
      <4>4. /\ Accepts(prev, candidates, acc, row, x, k) => c = [acc EXCEPT !.expected = Rank(Gone(prev), x) + 1]
            /\ ~Accepts(prev, candidates, acc, row, x, k) =>
                 c = [acc EXCEPT !.removed = AddIndex(@, x), !.change.insertions = AddIndex(@, k),
                                 !.change.moves = Append(@, [from |-> x, to |-> k])]
        <5>1. UnsortedDoes(prev, candidates, acc, next[k + 1], x, k, UnsortedAt(prev, next, candidates, acc, next[k + 1]))
          BY <4>1, <4>2, UnsortedCases
        <5> QED
          BY <4>3, <5>1 DEF UnsortedDoes
      <4>5. CASE Accepts(prev, candidates, acc, row, x, k)
        <5>1. c = [acc EXCEPT !.expected = Rank(Gone(prev), x) + 1]
          BY <4>4, <4>5
        <5>2. /\ Looked(b, prev, next, k + 1, c, K)
              /\ Steady(prev, next, candidates) /\ InOrder(prev, next, k, acc.expected, K) =>
                   InOrder(prev, next, k + 1, c.expected, K)
          BY <2>4, <4>1, <4>5, <5>1, LookedStays
        <5> QED
          BY <2>4, <5>2
      <4>6. CASE ~Accepts(prev, candidates, acc, row, x, k)
        <5>1. c = [acc EXCEPT !.removed = AddIndex(@, x), !.change.insertions = AddIndex(@, k),
                              !.change.moves = Append(@, [from |-> x, to |-> k])]
          BY <4>4, <4>6
        <5>2. /\ Looked(b, prev, next, k + 1, c, K \ {row})
              /\ InOrder(prev, next, k, acc.expected, K) => InOrder(prev, next, k + 1, c.expected, K \ {row})
          BY <2>4, <4>1, <5>1, LookedMoves
        <5> QED
          BY <2>4, <5>2
      <4> QED
        BY <4>5, <4>6
    <3> QED
      BY <3>1, <3>2
  <2>6. PICK N : Good(k + 1, N)
    BY <2>5
  <2> HIDE DEF Good
  <2> QED
    BY <2>1, <2>6
<1>n. n \in 0 .. n
  BY <1>0
<1> HIDE DEF T, n
<1>3. 0 .. n \subseteq T
  BY <1>0, <1>1, <1>2, UpTo
<1>4. n \in T
  BY <1>3, <1>n
<1> HIDE DEF Good
<1>5. PICK K : Good(n, K)
  BY <1>0, <1>4 DEF T
<1> DEFINE acc == p[n]
           a == acc.change
           r == [a EXCEPT !.deletions = AddIndexes(@, acc.removed)]
<1>6. Looked(b, prev, next, n, acc, K) /\ (Steady(prev, next, candidates) => InOrder(prev, next, n, acc.expected, K))
  BY <1>5 DEF Good
<1>7. /\ acc \in Unsorteds /\ a \in Builders /\ acc.removed \in Ranges
      /\ K \subseteq Both(prev, next)
      /\ a.deletions = b.deletions /\ a.modifications = b.modifications
      /\ Members(acc.removed) = Others(prev, K) \ Gone(prev)
      /\ Ins(a) = Others(next, K)
      /\ Apart(a.moves)
  BY <1>6 DEF Looked, Unsorteds
<1>m. \A j \in 1 .. Len(a.moves) :
         /\ a.moves[j].from \in 0 .. Len(prev) - 1 /\ a.moves[j].to \in 0 .. Len(next) - 1
         /\ prev[a.moves[j].from + 1] = next[a.moves[j].to + 1]
         /\ next[a.moves[j].to + 1] \in Both(prev, next) \ K
  BY <1>6 DEF Looked
<1> HIDE DEF a, acc
<1>8. a.deletions \in Ranges
  BY <1>7, BuilderIs
<1>9. AddIndexes(a.deletions, acc.removed) \in Ranges /\ Members(AddIndexes(a.deletions, acc.removed)) = Del(a) \cup Members(acc.removed)
  BY <1>7, <1>8, AddIndexesIs DEF Del
<1>10. /\ r \in Builders /\ r.deletions = AddIndexes(a.deletions, acc.removed)
       /\ r.insertions = a.insertions /\ r.modifications = a.modifications /\ r.moves = a.moves
  BY <1>7, <1>9 DEF Builders
<1>11. Gone(prev) \subseteq Others(prev, K)
  <2>1. NPos \notin Both(prev, next)
    <3>1. NPos \notin Nat
      BY DEF NPos
    <3>2. \A r1 : r1 \in Both(prev, next) => \E q \in 0 .. Len(next) - 1 : next[q + 1] = r1
      BY <1>0, RowsBoth
    <3>3. \A q \in 0 .. Len(next) - 1 : next[q + 1] \in Nat
      BY <1>0
    <3> QED
      BY <3>1, <3>2, <3>3
  <2> QED
    BY <1>7, <2>1 DEF Gone, Others
<1>12. Del(a) = Gone(prev)
  BY <1>0, <1>7 DEF Del
<1>13. Del(r) = Others(prev, K) /\ Ins(r) = Others(next, K)
  <2>1. Del(r) = Del(a) \cup Members(acc.removed)
    BY <1>9, <1>10 DEF Del
  <2>2. Ins(r) = Ins(a)
    BY <1>10 DEF Ins
  <2> HIDE DEF r
  <2> QED
    BY <1>7, <1>11, <1>12, <2>1, <2>2
<1>14. Kept(r, b, prev, next, K)
  <2> HIDE DEF r
  <2> QED
    BY <1>7, <1>10, <1>13, <1>m DEF Kept
<1>15. ASSUME Steady(prev, next, candidates) PROVE SameOrder(prev, next, K)
  <2> SUFFICES ASSUME NEW i \in 0 .. Len(prev) - 1, NEW j \in 0 .. Len(prev) - 1,
                      NEW k \in 0 .. Len(next) - 1, NEW l \in 0 .. Len(next) - 1,
                      prev[i + 1] \in K, prev[j + 1] \in K,
                      next[k + 1] = prev[i + 1], next[l + 1] = prev[j + 1], i < j
               PROVE  k < l
    BY DEF SameOrder
  <2>1. Looking(prev, next, candidates, i, k) /\ Looking(prev, next, candidates, j, l)
    BY <1>0 DEF Looking
  <2>2. l < n /\ j \in Nat
    BY <1>0 DEF n
  <2>3. Seen(prev, next, l, Rank(Gone(prev), j))
    BY <1>6, <1>15, <2>2 DEF InOrder
  <2>4. Rank(Gone(prev), i) < Rank(Gone(prev), j)
    BY <2>1, <2>2, RankBefore
  <2> QED
    BY <2>3, <2>4 DEF Seen
<1>16. r = MovesUnsorted(b, prev, next, removed, candidates)
  BY <1>p DEF acc, a
<1> HIDE DEF r
<1> QED
  BY <1>14, <1>15, <1>16

(***************************************************************************)
(* calculate_moves_sorted: the longest matches are runs of equal rows in   *)
(* the same order in both results.                                         *)
(***************************************************************************)

-----------------------------------------------------------------------------
(* calculate, for sorted results.                                           *)

\* w is s without the positions in D.
Shortened(s, D, w) ==
    /\ w \in Seq(Int) /\ Len(w) = Rank(D, Len(s))
    /\ \A x \in 0 .. Len(s) - 1 : x \notin D =>
         Rank(D, x) \in 0 .. Len(w) - 1 /\ w[Rank(D, x) + 1] = s[x + 1]
    /\ \A y \in 0 .. Len(w) - 1 : \E x \in 0 .. Len(s) - 1 :
         x \notin D /\ Rank(D, x) = y /\ w[y + 1] = s[x + 1]

\* Survivors is the sequence without the others.
LEMMA SurvivorsIs ==
    ASSUME NEW s \in Seq(Int), NEW others
    PROVE  Shortened(s, Others(s, ToSet(others)), Survivors(s, others))
<1> DEFINE C == ToSet(others)
           D == Others(s, C)
           n == Len(s)
           at == {k \in DOMAIN s : s[k] \in C}
           Nth(k) == CHOOSE p \in at : Cardinality({q \in at : q < p}) = k - 1
           N == Cardinality(at)
           w == [k \in 1 .. N |-> s[Nth(k)]]
<1>0. n \in Nat /\ DOMAIN s = 1 .. n
  OBVIOUS
<1>w. Survivors(s, others) = w
  BY DEF Survivors
<1>1. N = Rank(D, n)
  <2>1. at = {i \in 1 .. n : s[i] \in C} /\ n \in 0 .. n
    BY <1>0
  <2>2. Cardinality({i \in 1 .. n : s[i] \in C}) = Rank(D, n)
    <3> HIDE DEF C
    <3> QED
      BY <2>1, RowsAmong DEF D
  <2> QED
    BY <2>1, <2>2
<1>2. ASSUME NEW p \in at PROVE p \in 1 .. n /\ p - 1 \in 0 .. n - 1 /\ p - 1 \notin D /\ Cardinality({q \in at : q < p}) = Rank(D, p - 1)
  <2>1. p \in 1 .. n /\ s[p] \in C /\ p - 1 \in 0 .. n - 1 /\ p - 1 \in 0 .. n /\ (p - 1) + 1 = p
    BY <1>0
  <2>2. {q \in at : q < p} = {i \in 1 .. p - 1 : s[i] \in C}
    BY <1>0, <2>1
  <2> DEFINE y == p - 1
  <2>3. y \in 0 .. n
    BY <2>1
  <2> HIDE DEF C, y
  <2>4. Cardinality({i \in 1 .. y : s[i] \in C}) = Rank(D, y)
    BY <2>3, RowsAmong DEF D
  <2>5. y \notin D
    BY <2>1 DEF D, Others, y
  <2> QED
    BY <2>1, <2>2, <2>4, <2>5 DEF y
<1>3. ASSUME NEW y \in 0 .. n - 1, y \notin D PROVE y + 1 \in at
  BY <1>0, <1>3 DEF D, Others
<1>r. \A x \in Nat : Rank(D, x) \in Nat
  BY RankSteps
<1> HIDE DEF at, D, n, N
<1>4. ASSUME NEW x \in 0 .. n - 1, x \notin D
      PROVE  Rank(D, x) \in 0 .. N - 1 /\ Nth(Rank(D, x) + 1) = x + 1
  <2>1. x \in Nat /\ n \in Nat /\ x < n /\ x <= n
    BY <1>0
  <2>2. Rank(D, x) \in Nat /\ Rank(D, n) \in Nat /\ Rank(D, x) < Rank(D, n)
    BY <1>4, <2>1, RankGrows
  <2>3. x + 1 \in at
    BY <1>3, <1>4
  <2>4. Cardinality({q \in at : q < x + 1}) = Rank(D, x)
    <3>1. (x + 1) - 1 = x
      BY <2>1
    <3> QED
      BY <1>2, <2>3, <3>1
  <2> DEFINE k == Rank(D, x) + 1
  <2>5. k - 1 = Rank(D, x)
    BY <2>2
  <2>6. ASSUME NEW p \in at, Cardinality({q \in at : q < p}) = k - 1 PROVE p = x + 1
    <3> DEFINE z == p - 1
    <3>1. z \in 0 .. n - 1 /\ z \notin D /\ Rank(D, z) = Rank(D, x) /\ p = z + 1
      BY <1>2, <2>5, <2>6
    <3>2. z \in Nat
      BY <2>1, <3>1
    <3> HIDE DEF z
    <3>3. ~(z < x)
      <4> SUFFICES ASSUME z < x PROVE FALSE
        OBVIOUS
      <4>1. Rank(D, z) < Rank(D, x)
        BY <2>1, <3>1, <3>2, RankGrows
      <4> QED
        BY <2>2, <3>1, <4>1
    <3>4. ~(x < z)
      <4> SUFFICES ASSUME x < z PROVE FALSE
        OBVIOUS
      <4>1. Rank(D, x) < Rank(D, z)
        BY <1>4, <2>1, <3>2, RankGrows
      <4> QED
        BY <2>2, <3>1, <4>1
    <3> QED
      BY <2>1, <3>1, <3>2, <3>3, <3>4
  <2>7. Cardinality({q \in at : q < x + 1}) = k - 1
    BY <2>4, <2>5
  <2> HIDE DEF k
  <2>8. Nth(k) = x + 1
    BY <2>3, <2>6, <2>7
  <2>9. Rank(D, x) \in 0 .. N - 1
    BY ONLY <1>1, <2>2
  <2> HIDE DEF Nth
  <2> QED
    BY <2>8, <2>9 DEF k
<1>5. N \in Nat
  BY <1>0, <1>1, <1>r
<1>6. ASSUME NEW y \in 0 .. N - 1
      PROVE  \E x \in 0 .. n - 1 : x \notin D /\ Rank(D, x) = y
  <2>1. n \in Nat /\ y \in Nat /\ y < Rank(D, n)
    BY <1>0, <1>1, <1>5
  <2> QED
    BY ONLY <2>1, RankHits
<1>7. ASSUME NEW k \in 1 .. N PROVE Nth(k) \in 1 .. n
  <2>1. k - 1 \in 0 .. N - 1 /\ (k - 1) + 1 = k
    BY <1>5
  <2>2. PICK x \in 0 .. n - 1 : x \notin D /\ Rank(D, x) = k - 1
    BY <1>6, <2>1
  <2>3. Nth(Rank(D, x) + 1) = x + 1
    BY <1>4, <2>2
  <2>4. Nth(k) = x + 1
    BY <2>1, <2>2, <2>3
  <2> HIDE DEF Nth
  <2> QED
    BY <1>0, <2>4
<1> HIDE DEF Nth
<1>8. w \in Seq(Int) /\ Len(w) = N /\ \A k \in 1 .. N : w[k] = s[Nth(k)]
  <2>1. \A k \in 1 .. N : s[Nth(k)] \in Int
    BY <1>7 DEF n
  <2> QED
    BY <1>5, <2>1
<1> HIDE DEF w
<1>9. ASSUME NEW x \in 0 .. n - 1, x \notin D
      PROVE  Rank(D, x) \in 0 .. N - 1 /\ w[Rank(D, x) + 1] = s[x + 1]
  <2>1. Rank(D, x) \in 0 .. N - 1 /\ Nth(Rank(D, x) + 1) = x + 1
    BY <1>4, <1>9
  <2>2. Rank(D, x) + 1 \in 1 .. N
    BY <1>5, <2>1
  <2> QED
    BY <1>8, <2>1, <2>2
<1>10. ASSUME NEW y \in 0 .. N - 1
       PROVE  \E x \in 0 .. n - 1 : x \notin D /\ Rank(D, x) = y /\ w[y + 1] = s[x + 1]
  BY <1>6, <1>9
<1> QED
  BY <1>1, <1>8, <1>9, <1>10, <1>w DEF Shortened, n, D

\* The greatest of some numbers up to n is one of them.
LEMMA MaxIs ==
    ASSUME NEW n \in Nat, NEW T \in SUBSET (1 .. n), T # {}
    PROVE  Max(T) \in T
<1> DEFINE V == {n - y : y \in T}
<1>0. \A y \in T : y \in Int /\ 1 <= y /\ y <= n /\ n - y \in Nat
  <2>1. \A y \in 1 .. n : y \in Int /\ 1 <= y /\ y <= n /\ n - y \in Nat
    OBVIOUS
  <2> QED
    BY <2>1
<1>1. V \in SUBSET Nat /\ V # {}
  BY <1>0
<1>2. PICK v \in V : \A y \in V : ~(y < v)
  BY <1>1, LeastNumber
<1>3. PICK x \in T : v = n - x
  BY <1>2
<1>4. ASSUME NEW y \in T PROVE x >= y
  <2>1. n - y \in V /\ x \in Int /\ y \in Int
    BY <1>0
  <2>2. ~(n - y < n - x)
    BY <1>2, <1>3, <2>1
  <2> QED
    BY <2>1, <2>2
<1> QED
  BY <1>4 DEF Max

\* The run of equal rows that ends at two positions with the same row.
RunOf(a, b, b1, b2, i, j, size) ==
    /\ size \in Nat /\ size >= 1 /\ size <= i - b1 + 1 /\ size <= j - b2 + 1
    /\ \A k \in 0 .. size - 1 : a[i - k + 1] = b[j - k + 1]

\* RunEnding is the length of a run of equal rows that ends there.
LEMMA RunIs ==
    ASSUME NEW a, NEW b, NEW b1 \in Nat, NEW b2 \in Nat, NEW i \in Nat, NEW j \in Nat,
           b1 <= i, b2 <= j, a[i + 1] = b[j + 1]
    PROVE  RunOf(a, b, b1, b2, i, j, RunEnding(a, b, b1, b2, i, j))
<1> DEFINE m == Min({i - b1, j - b2})
           size == RunEnding(a, b, b1, b2, i, j)
           S == {n \in 1 .. m + 1 : \A k \in 0 .. n - 1 : a[i - k + 1] = b[j - k + 1]}
<1>1. {i - b1, j - b2} \in SUBSET Nat /\ {i - b1, j - b2} # {}
  OBVIOUS
<1>2. m \in {i - b1, j - b2} /\ \A y \in {i - b1, j - b2} : m <= y
  BY <1>1, MinIs
<1>3. m \in Nat /\ m <= i - b1 /\ m <= j - b2
  BY <1>1, <1>2
<1> HIDE DEF m
<1>4. 1 \in S
  <2>1. \A k \in 0 .. 1 - 1 : a[i - k + 1] = b[j - k + 1]
    <3>1. \A k \in 0 .. 1 - 1 : k = 0
      OBVIOUS
    <3>2. i - 0 = i /\ j - 0 = j
      OBVIOUS
    <3> QED
      BY <3>1, <3>2
  <2> QED
    BY <1>3, <2>1
<1>5. size = Max(S)
  BY DEF RunEnding, m
<1>6. S \in SUBSET (1 .. m + 1) /\ S # {} /\ m + 1 \in Nat
  <2>1. S \subseteq 1 .. m + 1
    OBVIOUS
  <2> HIDE DEF S, m
  <2>2. m + 1 \in Nat
    BY <1>3
  <2> QED
    BY <1>4, <2>1, <2>2
<1> HIDE DEF S
<1>7. size \in S
  BY <1>5, <1>6, MaxIs
<1>8. size \in 1 .. m + 1 /\ \A k \in 0 .. size - 1 : a[i - k + 1] = b[j - k + 1]
  BY <1>7 DEF S
<1> HIDE DEF size
<1>9. RunOf(a, b, b1, b2, i, j, size)
  BY <1>3, <1>8 DEF RunOf
<1> QED
  BY <1>9 DEF size

\* Stretches of two collections, and what a match is made of.
Stretches(a, b) == {s \in [b1 : Nat, e1 : Nat, b2 : Nat, e2 : Nat] : s.e1 <= Len(a) /\ s.e2 <= Len(b)}
\* Counts of modified rows in a window, and the mark that none was taken.
WindowCounts(mods) == {NPos, 0} \cup {CountIn(mods, f, t) : f, t \in Int}
\* What LongestMatch carries.
MatchesFor(mods) == [i : Int, j : Int, size : Nat, modified : WindowCounts(mods)]

\* The match is a run of the same rows that lies in the stretch.
Matching(a, b, s, m) ==
    m.size > 0 =>
      /\ s.b1 <= m.i /\ m.i + m.size <= s.e1 /\ s.b2 <= m.j /\ m.j + m.size <= s.e2
      /\ \A t \in 0 .. m.size - 1 : a[m.i + t + 1] = b[m.j + t + 1]

\* Modified rows in a window.
WindowAt(mods, from, to) == IF from < 0 THEN 0 ELSE CountIn(mods, from, to)
\* One row of the first sequence, as LongestMatch looks at it.
MatchAt(a, b, mods, s, best, i) ==
    LET j == PosIn(b, a[i + 1])
        size == RunEnding(a, b, s.b1, s.b2, i, j)
        Run1(modified) == [i |-> i - size + 1, j |-> j - size + 1, size |-> size, modified |-> modified]
        count == WindowAt(mods, j - size + 1, j + 1)
        old == IF best.modified = NPos THEN WindowAt(mods, best.j - size + 1, best.j + 1) ELSE best.modified
    IN  CASE j < s.b2 \/ j >= s.e2 -> best
          [] j \in s.b2 .. s.e2 - 1 /\ size > best.size -> Run1(NPos)
          [] j \in s.b2 .. s.e2 - 1 /\ size = best.size ->
               IF count < old THEN Run1(count) ELSE [best EXCEPT !.modified = old]
          [] OTHER -> best
\* The best match after each row.
MatchOf(a, b, mods, s) ==
    CHOOSE f : f = [i \in 0 .. s.e1 |->
                      IF i <= s.b1 THEN [i |-> s.b1, j |-> s.b2, size |-> 0, modified |-> 0]
                      ELSE MatchAt(a, b, mods, s, f[i - 1], i - 1)]

\* Every row of a is in b.
Covered(a, b) == \A x \in 1 .. Len(a) : \E y \in 1 .. Len(b) : b[y] = a[x]

\* Each row keeps the best match a run of equal rows inside both stretches.
LEMMA MatchAtIs ==
    ASSUME NEW a \in Seq(Int), NEW b \in Seq(Int), Covered(a, b), NEW mods, NEW s \in Stretches(a, b),
           NEW best \in MatchesFor(mods), NEW i \in Nat, s.b1 <= i, i < s.e1
    PROVE  /\ MatchAt(a, b, mods, s, best, i) \in MatchesFor(mods)
           /\ Matching(a, b, s, best) => Matching(a, b, s, MatchAt(a, b, mods, s, best, i))
<1> DEFINE j == PosIn(b, a[i + 1])
           size == RunEnding(a, b, s.b1, s.b2, i, j)
           Run1(modified) == [i |-> i - size + 1, j |-> j - size + 1, size |-> size, modified |-> modified]
           count == WindowAt(mods, j - size + 1, j + 1)
           old == IF best.modified = NPos THEN WindowAt(mods, best.j - size + 1, best.j + 1) ELSE best.modified
           c == MatchAt(a, b, mods, s, best, i)
<1>0. /\ s.b1 \in Nat /\ s.e1 \in Nat /\ s.b2 \in Nat /\ s.e2 \in Nat /\ s.e1 <= Len(a) /\ s.e2 <= Len(b)
      /\ Len(a) \in Nat /\ Len(b) \in Nat
  BY DEF Stretches
<1>1. i + 1 \in 1 .. Len(a)
  BY <1>0
<1>2. j \in Int /\ j + 1 \in 1 .. Len(b) /\ b[j + 1] = a[i + 1]
  <2> DEFINE q == CHOOSE k \in DOMAIN b : b[k] = a[i + 1]
  <2>0. DOMAIN b = 1 .. Len(b)
    OBVIOUS
  <2>1. \E k \in DOMAIN b : b[k] = a[i + 1]
    BY <1>1, <2>0 DEF Covered
  <2>2. q \in DOMAIN b /\ b[q] = a[i + 1]
    BY <2>1
  <2>3. q \in 1 .. Len(b) /\ j = q - 1
    BY <2>0, <2>2 DEF PosIn
  <2>4. q \in Int /\ q = (q - 1) + 1
    BY <1>0, <2>3
  <2> HIDE DEF q, j
  <2> QED
    BY <2>2, <2>3, <2>4
<1>i. j \in Int
  BY <1>2
<1>n. s.b1 \in Nat /\ s.e1 \in Nat /\ s.b2 \in Nat /\ s.e2 \in Nat
  BY <1>0
<1>3. c = CASE j < s.b2 \/ j >= s.e2 -> best
            [] j \in s.b2 .. s.e2 - 1 /\ size > best.size -> Run1(NPos)
            [] j \in s.b2 .. s.e2 - 1 /\ size = best.size ->
                 IF count < old THEN Run1(count) ELSE [best EXCEPT !.modified = old]
            [] OTHER -> best
  BY DEF MatchAt
<1> HIDE DEF j, c
<1>4. /\ best.i \in Int /\ best.j \in Int /\ best.size \in Nat /\ best.modified \in WindowCounts(mods)
  BY DEF MatchesFor
<1>5. CASE j < s.b2 \/ j >= s.e2
  <2>1. ~(j \in s.b2 .. s.e2 - 1)
    BY <1>5, <1>i, <1>n
  <2>2. c = best
    BY <1>3, <1>5, <2>1
  <2> QED
    BY <2>2 DEF c
<1>6. CASE ~(j < s.b2 \/ j >= s.e2)
  <2>1. j \in Nat /\ s.b2 <= j /\ j < s.e2 /\ j \in s.b2 .. s.e2 - 1
    BY <1>i, <1>n, <1>6
  <2>2. /\ size \in Nat /\ size >= 1 /\ size <= i - s.b1 + 1 /\ size <= j - s.b2 + 1
        /\ \A k \in 0 .. size - 1 : a[i - k + 1] = b[j - k + 1]
    <3>1. j \in Nat /\ s.b2 <= j /\ a[i + 1] = b[j + 1] /\ s.b1 \in Nat /\ s.b2 \in Nat
      BY <1>2, <1>n, <2>1
    <3>2. size = RunEnding(a, b, s.b1, s.b2, i, j)
      OBVIOUS
    <3> HIDE DEF size
    <3> DEFINE b1 == s.b1
               b2 == s.b2
    <3>3. b1 \in Nat /\ b2 \in Nat /\ b1 <= i /\ b2 <= j /\ size = RunEnding(a, b, b1, b2, i, j)
      BY <3>1, <3>2
    <3> HIDE DEF b1, b2
    <3>4. RunOf(a, b, b1, b2, i, j, RunEnding(a, b, b1, b2, i, j))
      BY ONLY i \in Nat, <3>1, <3>3, RunIs
    <3>5. RunOf(a, b, b1, b2, i, j, size)
      BY <3>3, <3>4
    <3> QED
      BY <3>5 DEF RunOf, b1, b2
  <2>3. c = CASE size > best.size -> Run1(NPos)
              [] size = best.size -> IF count < old THEN Run1(count) ELSE [best EXCEPT !.modified = old]
              [] OTHER -> best
    BY <1>3, <1>6, <2>1
  <2> HIDE DEF size
  <2>4. \A f, t \in Int : WindowAt(mods, f, t) \in WindowCounts(mods)
    BY DEF WindowAt, WindowCounts
  <2>5. count \in WindowCounts(mods) /\ old \in WindowCounts(mods) /\ NPos \in WindowCounts(mods)
    <3>1. j - size + 1 \in Int /\ j + 1 \in Int /\ best.j - size + 1 \in Int /\ best.j + 1 \in Int
      <4>1. j \in Int /\ size \in Int /\ best.j \in Int
        BY <1>4, <2>1, <2>2
      <4>2. \A x, y \in Int : x - y + 1 \in Int /\ x + 1 \in Int
        OBVIOUS
      <4> QED
        BY ONLY <4>1, <4>2, Zenon
    <3>2. WindowAt(mods, j - size + 1, j + 1) \in WindowCounts(mods)
      BY <2>4, <3>1
    <3>3. WindowAt(mods, best.j - size + 1, best.j + 1) \in WindowCounts(mods)
      BY <2>4, <3>1
    <3>4. NPos \in WindowCounts(mods)
      BY DEF WindowCounts
    <3> QED
      BY <1>4, <3>2, <3>3, <3>4
  <2> HIDE DEF count, old
  <2>6. ASSUME NEW w \in WindowCounts(mods)
        PROVE  Run1(w) \in MatchesFor(mods) /\ Matching(a, b, s, Run1(w))
    <3>1. i - size + 1 \in Int /\ j - size + 1 \in Int
      BY <2>1, <2>2
    <3>2. Run1(w) \in MatchesFor(mods)
      BY <2>2, <3>1 DEF MatchesFor
    <3>3. s.b1 <= i - size + 1 /\ (i - size + 1) + size <= s.e1 /\ s.b2 <= j - size + 1 /\ (j - size + 1) + size <= s.e2
      <4>1. \A x, y \in Int : x - y + 1 + y = x + 1
        OBVIOUS
      <4>2. (i - size + 1) + size = i + 1 /\ (j - size + 1) + size = j + 1
        BY <1>i, <2>2, <4>1
      <4>3. s.b1 <= i - size + 1 /\ s.b2 <= j - size + 1
        <5>1. \A x, y, z \in Int : y <= x - z + 1 => z <= x - y + 1
          OBVIOUS
        <5>2. s.b1 \in Int /\ s.b2 \in Int /\ i \in Int /\ j \in Int /\ size \in Int
          BY <1>i, <1>n, <2>2
        <5>3. size <= i - s.b1 + 1 /\ size <= j - s.b2 + 1
          BY <2>2
        <5> QED
          BY ONLY <5>1, <5>2, <5>3, Zenon
      <4> QED
        BY <1>i, <1>n, <2>1, <4>2, <4>3
    <3>4. ASSUME NEW t \in 0 .. size - 1 PROVE a[(i - size + 1) + t + 1] = b[(j - size + 1) + t + 1]
      <4> DEFINE k == size - 1 - t
      <4>1. k \in 0 .. size - 1 /\ i - k + 1 = (i - size + 1) + t + 1 /\ j - k + 1 = (j - size + 1) + t + 1
        BY <2>1, <2>2
      <4> HIDE DEF k
      <4>2. a[i - k + 1] = b[j - k + 1]
        BY <2>2, <4>1
      <4> QED
        BY <4>1, <4>2
    <3>5. Matching(a, b, s, Run1(w))
      BY <3>3, <3>4 DEF Matching
    <3> QED
      BY <3>2, <3>5
  <2>7. ASSUME NEW w \in WindowCounts(mods)
        PROVE  /\ [best EXCEPT !.modified = w] \in MatchesFor(mods)
               /\ Matching(a, b, s, best) => Matching(a, b, s, [best EXCEPT !.modified = w])
    <3> DEFINE d == [best EXCEPT !.modified = w]
    <3>1. d \in MatchesFor(mods) /\ d.i = best.i /\ d.j = best.j /\ d.size = best.size
      BY DEF MatchesFor
    <3> HIDE DEF d
    <3>2. Matching(a, b, s, best) => Matching(a, b, s, d)
      BY <3>1 DEF Matching
    <3> QED
      BY <3>1, <3>2 DEF d
  <2> HIDE DEF Run1
  <2>8. CASE size > best.size
    <3>0. size # best.size
      BY <1>4, <2>2, <2>8
    <3>1. c = Run1(NPos)
      BY <2>3, <2>8, <3>0
    <3> QED
      BY <2>5, <2>6, <3>1 DEF c
  <2>9. CASE size = best.size
    <3>1. c = IF count < old THEN Run1(count) ELSE [best EXCEPT !.modified = old]
      BY <1>4, <2>2, <2>3, <2>9
    <3> QED
      BY <2>5, <2>6, <2>7, <3>1 DEF c
  <2>10. CASE size < best.size
    <3>1. c = best
      BY <1>4, <2>2, <2>3, <2>10
    <3> QED
      BY <3>1 DEF c
  <2> QED
    BY <1>4, <2>2, <2>8, <2>9, <2>10
<1> QED
  BY <1>5, <1>6

\* ... and so does the search for the longest.
LEMMA LongestMatchIs ==
    ASSUME NEW a \in Seq(Int), NEW b \in Seq(Int), Covered(a, b), NEW mods, NEW s \in Stretches(a, b)
    PROVE  LET m == LongestMatch(a, b, mods, s.b1, s.e1, s.b2, s.e2)
           IN  m \in MatchesFor(mods) /\ Matching(a, b, s, m)
<1> DEFINE n == s.e1
           V == MatchesFor(mods)
           none == [i |-> s.b1, j |-> s.b2, size |-> 0, modified |-> 0]
           At(k, u) == IF k <= s.b1 THEN none ELSE MatchAt(a, b, mods, s, u, k - 1)
           step == [k \in 1 .. n |-> [u \in V |-> At(k, u)]]
           p == MatchOf(a, b, mods, s)
<1>0. n \in Nat /\ s.b1 \in Nat /\ s.b2 \in Nat
  BY DEF Stretches
<1>2. none \in V /\ none.size = 0
  BY <1>0 DEF MatchesFor, WindowCounts
<1>1. ASSUME NEW k \in 1 .. n, NEW u \in V
      PROVE  At(k, u) \in V /\ (Matching(a, b, s, u) => Matching(a, b, s, At(k, u)))
  <2>1. CASE k <= s.b1
    <3>1. Matching(a, b, s, none)
      BY <1>2 DEF Matching
    <3> HIDE DEF none, V
    <3> QED
      BY <1>2, <2>1, <3>1
  <2>2. CASE ~(k <= s.b1)
    <3> DEFINE i == k - 1
    <3>1. i \in Nat /\ s.b1 <= i /\ i < s.e1
      BY <1>0, <2>2
    <3> HIDE DEF i
    <3>2. MatchAt(a, b, mods, s, u, i) \in V /\ (Matching(a, b, s, u) => Matching(a, b, s, MatchAt(a, b, mods, s, u, i)))
      BY <3>1, MatchAtIs
    <3> QED
      BY <2>2, <3>2 DEF i
  <2> QED
    BY <2>1, <2>2
<1>c. LongestMatch(a, b, mods, s.b1, s.e1, s.b2, s.e2) = p[n]
  BY DEF LongestMatch, MatchOf, MatchAt, WindowAt
<1>d. p = CHOOSE f : f = [k \in 0 .. n |-> IF k <= s.b1 THEN none ELSE MatchAt(a, b, mods, s, f[k - 1], k - 1)]
  BY DEF MatchOf
<1>s. step \in Steps(n, V)
  <2> HIDE DEF V, n, At
  <2> QED
    BY <1>1 DEF Steps
<1>z. 0 <= s.b1 /\ Matching(a, b, s, none)
  BY <1>0, <1>2 DEF Matching
<1> HIDE DEF n, V, step, none, p
<1>l. PICK f : IsLoop(f, n, V, none, step)
  BY <1>0, <1>2, <1>s, LoopRuns
<1>3. f \in [0 .. n -> V] /\ f[0] = none /\ \A k \in 1 .. n : f[k] = step[k][f[k - 1]]
  BY <1>l DEF IsLoop
<1>4. ASSUME NEW k \in 0 .. n
      PROVE  f[k] = IF k <= s.b1 THEN none ELSE MatchAt(a, b, mods, s, f[k - 1], k - 1)
  <2>1. CASE k = 0
    BY <1>3, <1>z, <2>1
  <2>2. CASE k # 0
    <3>1. k \in 1 .. n /\ k - 1 \in 0 .. n
      BY <1>0, <2>2
    <3>2. f[k] = step[k][f[k - 1]] /\ f[k - 1] \in V
      BY <1>3, <3>1
    <3>3. f[k] = At(k, f[k - 1])
      <4> HIDE DEF At
      <4> QED
        BY <3>1, <3>2 DEF step
    <3> QED
      BY <3>3
  <2> QED
    BY <2>1, <2>2
<1>5. f = [k \in 0 .. n |-> IF k <= s.b1 THEN none ELSE MatchAt(a, b, mods, s, f[k - 1], k - 1)]
  BY <1>3, <1>4
<1>6. p = [k \in 0 .. n |-> IF k <= s.b1 THEN none ELSE MatchAt(a, b, mods, s, p[k - 1], k - 1)]
  BY <1>5, <1>d, Zenon
<1>7. \A k \in 0 .. n : p[k] = IF k <= s.b1 THEN none ELSE MatchAt(a, b, mods, s, p[k - 1], k - 1)
  BY <1>6, Zenon
<1> DEFINE T == {k \in Nat : k <= n => p[k] \in V /\ Matching(a, b, s, p[k])}
<1>8. 0 \in T
  <2>1. p[0] = none
    BY <1>0, <1>7, <1>z
  <2> QED
    BY <1>2, <1>z, <2>1
<1>9. ASSUME NEW k \in 0 .. n - 1, k \in T PROVE k + 1 \in T
  <2>1. k + 1 \in 1 .. n /\ k + 1 \in 0 .. n /\ (k + 1) - 1 = k /\ k \in Nat /\ k <= n
    BY <1>0
  <2>2. p[k] \in V /\ Matching(a, b, s, p[k])
    BY <1>9, <2>1
  <2>3. p[k + 1] = At(k + 1, p[k])
    BY <1>7, <2>1
  <2> HIDE DEF At
  <2>4. At(k + 1, p[k]) \in V /\ Matching(a, b, s, At(k + 1, p[k]))
    BY <1>1, <2>1, <2>2
  <2> QED
    BY <2>1, <2>3, <2>4
<1>10. n \in 0 .. n
  BY <1>0
<1> HIDE DEF T
<1>11. 0 .. n \subseteq T
  BY <1>0, <1>8, <1>9, UpTo
<1>12. p[n] \in V /\ Matching(a, b, s, p[n])
  BY <1>0, <1>10, <1>11 DEF T
<1> QED
  BY <1>12, <1>c DEF V

\* Two boxes of positions of the two collections: one lies in the other, or
\* one comes before the other in both.
Boxes == [b1 : Int, e1 : Int, b2 : Int, e2 : Int]
\* A box lies within another.
Within(t, s) == s.b1 <= t.b1 /\ t.e1 <= s.e1 /\ s.b2 <= t.b2 /\ t.e2 <= s.e2
\* A box comes before another in both sequences.
Precedes(s, t) == s.e1 <= t.b1 /\ s.e2 <= t.b2
\* Two boxes are in the same order in both sequences.
Clear2(s, t) == Precedes(s, t) \/ Precedes(t, s)
\* The box of a match.
BoxOf(m) == [b1 |-> m.i, e1 |-> m.i + m.size, b2 |-> m.j, e2 |-> m.j + m.size]

\* What is inside two boxes that are in order is in order.
LEMMA ClearWithin ==
    ASSUME NEW s \in Boxes, NEW t \in Boxes, NEW s1 \in Boxes, NEW t1 \in Boxes,
           Clear2(s, t), Within(s1, s), Within(t1, t)
    PROVE  Clear2(s1, t1)
  BY DEF Boxes, Clear2, Within, Precedes

\* Within is transitive.
LEMMA WithinAll ==
    ASSUME NEW s \in Boxes, NEW t \in Boxes, NEW u \in Boxes, Within(s, t), Within(t, u)
    PROVE  Within(s, u)
  BY DEF Boxes, Within

\* What a match leaves of its stretch.
SidesOf(s, m) ==
    LET i == m.i + m.size
        j == m.j + m.size
    IN  IF m.size = 0 THEN {}
        ELSE (IF m.i > s.b1 /\ m.j > s.b2 THEN {[s EXCEPT !.e1 = m.i, !.e2 = m.j]} ELSE {})
             \cup (IF i < s.e2 /\ j < s.e2 THEN {[s EXCEPT !.b1 = i, !.b2 = j]} ELSE {})

\* Stretches and the boxes of matches are boxes.
LEMMA StretchBoxes ==
    ASSUME NEW a, NEW b, NEW mods
    PROVE  Stretches(a, b) \subseteq Boxes /\ \A m \in MatchesFor(mods) : BoxOf(m) \in Boxes
  BY DEF Stretches, Boxes, MatchesFor, BoxOf

\* A run of n numbers from i on lies between b and e.
LEMMA RunWithin ==
    \A b, e, n \in Nat, i \in Int :
      b <= i /\ i + n <= e => i \in Nat /\ i + n \in Nat /\ i <= e /\ b <= i + n
  OBVIOUS

\* The two sides of a match are stretches of the same stretch, in order with it and each other.
LEMMA SidesAre ==
    ASSUME NEW a \in Seq(Int), NEW b \in Seq(Int), NEW mods, NEW s \in Stretches(a, b),
           NEW m \in MatchesFor(mods), Matching(a, b, s, m), NEW t \in SidesOf(s, m)
    PROVE  /\ t \in Stretches(a, b) /\ Within(t, s) /\ Clear2(t, BoxOf(m))
           /\ \A u \in SidesOf(s, m) : u # t => Clear2(t, u)
<1> DEFINE l == [s EXCEPT !.e1 = m.i, !.e2 = m.j]
           r == [s EXCEPT !.b1 = m.i + m.size, !.b2 = m.j + m.size]
           o == BoxOf(m)
<1>1. /\ s.b1 \in Nat /\ s.e1 \in Nat /\ s.b2 \in Nat /\ s.e2 \in Nat /\ s.e1 <= Len(a) /\ s.e2 <= Len(b)
      /\ m.i \in Int /\ m.j \in Int /\ m.size \in Nat /\ Len(a) \in Nat /\ Len(b) \in Nat
  BY DEF Stretches, MatchesFor
<1>2. m.size # 0 /\ t \in {l, r} /\ SidesOf(s, m) \subseteq {l, r}
  BY DEF SidesOf
<1>3. s.b1 <= m.i /\ m.i + m.size <= s.e1 /\ s.b2 <= m.j /\ m.j + m.size <= s.e2
  BY <1>1, <1>2 DEF Matching
<1>4. /\ l.b1 = s.b1 /\ l.e1 = m.i /\ l.b2 = s.b2 /\ l.e2 = m.j
      /\ r.b1 = m.i + m.size /\ r.e1 = s.e1 /\ r.b2 = m.j + m.size /\ r.e2 = s.e2
      /\ o.b1 = m.i /\ o.e1 = m.i + m.size /\ o.b2 = m.j /\ o.e2 = m.j + m.size
  BY DEF Stretches, BoxOf
<1>w. /\ m.i \in Nat /\ m.i + m.size \in Nat /\ m.i <= s.e1 /\ s.b1 <= m.i + m.size
      /\ m.j \in Nat /\ m.j + m.size \in Nat /\ m.j <= s.e2 /\ s.b2 <= m.j + m.size
  BY <1>1, <1>3, RunWithin, Zenon
<1>5. m.i \in Nat /\ m.j \in Nat /\ m.i <= Len(a) /\ m.j <= Len(b) /\ m.i + m.size \in Nat /\ m.j + m.size \in Nat
  <2>1. \A x, y, z \in Nat : x <= y /\ y <= z => x <= z
    OBVIOUS
  <2> QED
    BY ONLY <1>1, <1>w, <2>1, Zenon
<1>6. l \in Stretches(a, b) /\ r \in Stretches(a, b)
  BY <1>1, <1>5 DEF Stretches
<1> HIDE DEF l, r, o
<1>a. m.i <= m.i + m.size /\ m.j <= m.j + m.size
  BY <1>1
<1>b. s.b1 <= m.i + m.size /\ m.i <= s.e1 /\ s.b2 <= m.j + m.size /\ m.j <= s.e2
  BY ONLY <1>w, Zenon
<1>c. m.i <= m.i /\ m.j <= m.j /\ s.b1 <= s.b1 /\ s.b2 <= s.b2 /\ s.e1 <= s.e1 /\ s.e2 <= s.e2
      /\ m.i + m.size <= m.i + m.size /\ m.j + m.size <= m.j + m.size
  BY <1>1
<1>7. Within(l, s) /\ Within(r, s)
  BY ONLY <1>3, <1>4, <1>b, <1>c DEF Within
<1>8. Precedes(l, o) /\ Precedes(o, r) /\ Precedes(l, r)
  BY ONLY <1>4, <1>a, <1>c DEF Precedes
<1>9. \A u, v \in {l, r} : u # v => Clear2(u, v)
  BY <1>8 DEF Clear2
<1>10. Clear2(l, o) /\ Clear2(r, o)
  BY <1>8 DEF Clear2
<1> QED
  BY <1>2, <1>6, <1>7, <1>9, <1>10 DEF o

\* What the rounds keep: the stretches left and the matches found lie in the
\* first stretch, apart from each other and in the same order in both.
Matched(a, b, m) == m.size > 0 /\ \A t \in 0 .. m.size - 1 : a[m.i + t + 1] = b[m.j + t + 1]
\* What a round of LongestMatches leaves.
Rounds(a, b, mods) == [left : SUBSET Stretches(a, b), matches : SUBSET MatchesFor(mods)]
\* All that is left and all that is matched is in order.
RoundRight(a, b, s0, r) ==
    /\ \A s \in r.left : Within(s, s0)
    /\ \A m \in r.matches : Matched(a, b, m) /\ Within(BoxOf(m), s0)
    /\ \A s, t \in r.left : s # t => Clear2(s, t)
    /\ \A s \in r.left, m \in r.matches : Clear2(s, BoxOf(m))
    /\ \A m, p \in r.matches : m # p => Clear2(BoxOf(m), BoxOf(p))

\* The match of a stretch.
MatchIn(a, b, mods, s) == LongestMatch(a, b, mods, s.b1, s.e1, s.b2, s.e2)
\* One round: every stretch left is matched and replaced by its sides.
RoundAt(a, b, mods, last) ==
    LET found == {<<s, MatchIn(a, b, mods, s)>> : s \in last.left}
    IN  [left    |-> UNION {SidesOf(f[1], f[2]) : f \in found},
         matches |-> last.matches \cup {f[2] : f \in {g \in found : g[2].size > 0}}]

\* The match of a stretch is a run of equal rows inside it.
LEMMA MatchInIs ==
    ASSUME NEW a \in Seq(Int), NEW b \in Seq(Int), Covered(a, b), NEW mods, NEW s \in Stretches(a, b)
    PROVE  /\ MatchIn(a, b, mods, s) \in MatchesFor(mods) /\ Matching(a, b, s, MatchIn(a, b, mods, s))
           /\ MatchIn(a, b, mods, s).size > 0 =>
                Matched(a, b, MatchIn(a, b, mods, s)) /\ Within(BoxOf(MatchIn(a, b, mods, s)), s)
<1> DEFINE m == MatchIn(a, b, mods, s)
<1>1. m \in MatchesFor(mods) /\ Matching(a, b, s, m)
  BY LongestMatchIs DEF MatchIn
<1> HIDE DEF m
<1>2. m.size > 0 => Matched(a, b, m) /\ Within(BoxOf(m), s)
  BY <1>1 DEF Matching, Matched, Within, BoxOf
<1> QED
  BY <1>1, <1>2 DEF m

\* A round keeps all boxes in order.
LEMMA RoundKeeps ==
    ASSUME NEW a \in Seq(Int), NEW b \in Seq(Int), Covered(a, b), NEW mods, NEW s0 \in Stretches(a, b),
           NEW last \in Rounds(a, b, mods), RoundRight(a, b, s0, last)
    PROVE  /\ RoundAt(a, b, mods, last) \in Rounds(a, b, mods)
           /\ RoundRight(a, b, s0, RoundAt(a, b, mods, last))
<1> DEFINE M(s) == MatchIn(a, b, mods, s)
           r == RoundAt(a, b, mods, last)
<1>1. last.left \subseteq Stretches(a, b) /\ last.matches \subseteq MatchesFor(mods)
  BY DEF Rounds
<1>2. ASSUME NEW s \in last.left
      PROVE  /\ s \in Stretches(a, b) /\ s \in Boxes /\ M(s) \in MatchesFor(mods) /\ BoxOf(M(s)) \in Boxes
             /\ M(s).size > 0 => Matched(a, b, M(s)) /\ Within(BoxOf(M(s)), s)
             /\ \A t \in SidesOf(s, M(s)) : /\ t \in Stretches(a, b) /\ t \in Boxes /\ Within(t, s) /\ Clear2(t, BoxOf(M(s)))
                                            /\ \A u \in SidesOf(s, M(s)) : u # t => Clear2(t, u)
  <2>1. s \in Stretches(a, b)
    BY <1>1
  <2>2. /\ M(s) \in MatchesFor(mods) /\ Matching(a, b, s, M(s))
        /\ M(s).size > 0 => Matched(a, b, M(s)) /\ Within(BoxOf(M(s)), s)
    BY <2>1, MatchInIs
  <2> DEFINE m == M(s)
  <2> HIDE DEF M, m
  <2>3. m \in MatchesFor(mods) /\ Matching(a, b, s, m)
    BY <2>2 DEF m
  <2>4. \A t \in SidesOf(s, m) : /\ t \in Stretches(a, b) /\ Within(t, s) /\ Clear2(t, BoxOf(m))
                                 /\ \A u \in SidesOf(s, m) : u # t => Clear2(t, u)
    BY <2>1, <2>3, SidesAre
  <2>5. Stretches(a, b) \subseteq Boxes /\ \A x \in MatchesFor(mods) : BoxOf(x) \in Boxes
    BY StretchBoxes
  <2> QED
    BY <2>1, <2>2, <2>4, <2>5 DEF m
<1> DEFINE found == {<<s, M(s)>> : s \in last.left}
<1>3. r = [left    |-> UNION {SidesOf(f[1], f[2]) : f \in found},
           matches |-> last.matches \cup {f[2] : f \in {g \in found : g[2].size > 0}}]
  BY DEF RoundAt
<1> HIDE DEF M
<1>f. ASSUME NEW f \in found PROVE \E s \in last.left : f[1] = s /\ f[2] = M(s)
  OBVIOUS
<1> HIDE DEF found, r
<1>l. ASSUME NEW t \in r.left PROVE \E s \in last.left : t \in SidesOf(s, M(s))
  <2>1. PICK f \in found : t \in SidesOf(f[1], f[2])
    BY <1>3
  <2> QED
    BY <1>f, <2>1
<1>m. ASSUME NEW m \in r.matches PROVE m \in last.matches \/ \E s \in last.left : m = M(s) /\ M(s).size > 0
  <2>1. m \in last.matches \/ \E f \in found : m = f[2] /\ f[2].size > 0
    BY <1>3
  <2> QED
    BY <1>f, <2>1
<1>4. r \in Rounds(a, b, mods)
  <2>1. r.left \subseteq Stretches(a, b)
    BY <1>l, <1>2
  <2>2. r.matches \subseteq MatchesFor(mods)
    BY <1>1, <1>m, <1>2
  <2> QED
    BY <1>3, <2>1, <2>2 DEF Rounds
<1>5. /\ \A s \in last.left : Within(s, s0)
      /\ \A m \in last.matches : Matched(a, b, m) /\ Within(BoxOf(m), s0) /\ BoxOf(m) \in Boxes
      /\ \A s, t \in last.left : s # t => Clear2(s, t)
      /\ \A s \in last.left, m \in last.matches : Clear2(s, BoxOf(m))
      /\ \A m, p \in last.matches : m # p => Clear2(BoxOf(m), BoxOf(p))
      /\ s0 \in Boxes
  BY <1>1, StretchBoxes DEF RoundRight
<1>w. \A s \in Boxes : Within(s, s)
  BY DEF Boxes, Within
<1>c. \A s, t : Clear2(s, t) => Clear2(t, s)
  BY DEF Clear2
<1>6. \A t \in r.left : Within(t, s0)
  <2> TAKE t \in r.left
  <2>1. PICK s \in last.left : t \in SidesOf(s, M(s))
    BY <1>l
  <2>2. t \in Boxes /\ s \in Boxes /\ Within(t, s) /\ Within(s, s0) /\ s0 \in Boxes
    BY <1>2, <1>5, <2>1
  <2> QED
    BY <2>2, WithinAll
<1>7. \A m \in r.matches : Matched(a, b, m) /\ Within(BoxOf(m), s0)
  <2> TAKE m \in r.matches
  <2>1. CASE m \in last.matches
    BY <1>5, <2>1
  <2>2. CASE \E s \in last.left : m = M(s) /\ M(s).size > 0
    <3>1. PICK s \in last.left : m = M(s) /\ M(s).size > 0
      BY <2>2
    <3>2. Matched(a, b, m) /\ BoxOf(m) \in Boxes /\ Within(BoxOf(m), s)
      BY <1>2, <3>1
    <3>3. s \in Boxes /\ s0 \in Boxes /\ Within(s, s0)
      BY <1>2, <1>5
    <3>4. Within(BoxOf(m), s0)
      BY <3>2, <3>3, WithinAll
    <3> QED
      BY <3>2, <3>4
  <2> QED
    BY <1>m, <2>1, <2>2
<1>8. \A t, u \in r.left : t # u => Clear2(t, u)
  <2> SUFFICES ASSUME NEW t \in r.left, NEW u \in r.left, t # u PROVE Clear2(t, u)
    OBVIOUS
  <2>1. PICK s \in last.left : t \in SidesOf(s, M(s))
    BY <1>l
  <2>2. PICK q \in last.left : u \in SidesOf(q, M(q))
    BY <1>l
  <2>3. CASE s = q
    BY <1>2, <2>1, <2>2, <2>3
  <2>4. CASE s # q
    <3>1. Clear2(s, q) /\ Within(t, s) /\ Within(u, q) /\ s \in Boxes /\ q \in Boxes /\ t \in Boxes /\ u \in Boxes
      BY <1>2, <1>5, <2>1, <2>2, <2>4
    <3> QED
      BY <3>1, ClearWithin
  <2> QED
    BY <2>3, <2>4
<1>9. \A t \in r.left, m \in r.matches : Clear2(t, BoxOf(m))
  <2> TAKE t \in r.left, m \in r.matches
  <2>1. PICK s \in last.left : t \in SidesOf(s, M(s))
    BY <1>l
  <2>2. t \in Boxes /\ s \in Boxes /\ Within(t, s)
    BY <1>2, <2>1
  <2>3. CASE m \in last.matches
    <3>1. Clear2(s, BoxOf(m)) /\ BoxOf(m) \in Boxes /\ Within(BoxOf(m), BoxOf(m))
      BY <1>5, <1>w, <2>3
    <3> QED
      BY <2>2, <3>1, ClearWithin
  <2>4. CASE \E q \in last.left : m = M(q) /\ M(q).size > 0
    <3>1. PICK q \in last.left : m = M(q) /\ M(q).size > 0
      BY <2>4
    <3>2. CASE s = q
      BY <1>2, <2>1, <3>1, <3>2
    <3>3. CASE s # q
      <4>1. Clear2(s, q) /\ Within(BoxOf(m), q) /\ q \in Boxes /\ BoxOf(m) \in Boxes
        BY <1>2, <1>5, <3>1, <3>3
      <4> QED
        BY <2>2, <4>1, ClearWithin
    <3> QED
      BY <3>2, <3>3
  <2> QED
    BY <1>m, <2>3, <2>4
<1>10. \A m, p \in r.matches : m # p => Clear2(BoxOf(m), BoxOf(p))
  <2>1. ASSUME NEW m \in last.matches, NEW s \in last.left, M(s).size > 0
        PROVE  Clear2(BoxOf(M(s)), BoxOf(m))
    <3>1. Clear2(s, BoxOf(m)) /\ BoxOf(m) \in Boxes /\ Within(BoxOf(m), BoxOf(m))
      BY <1>5, <1>w
    <3>2. BoxOf(M(s)) \in Boxes /\ Within(BoxOf(M(s)), s) /\ s \in Boxes
      BY <1>2, <2>1
    <3> QED
      BY <3>1, <3>2, ClearWithin
  <2>2. ASSUME NEW s \in last.left, NEW q \in last.left, M(s).size > 0, M(q).size > 0, M(s) # M(q)
        PROVE  Clear2(BoxOf(M(s)), BoxOf(M(q)))
    <3>1. s # q
      BY <2>2
    <3>2. Clear2(s, q)
      BY <1>5, <3>1
    <3>3. /\ BoxOf(M(s)) \in Boxes /\ Within(BoxOf(M(s)), s) /\ s \in Boxes
          /\ BoxOf(M(q)) \in Boxes /\ Within(BoxOf(M(q)), q) /\ q \in Boxes
      BY <1>2, <2>2
    <3> QED
      BY <3>2, <3>3, ClearWithin
  <2>3. SUFFICES ASSUME NEW m \in r.matches, NEW p \in r.matches, m # p PROVE Clear2(BoxOf(m), BoxOf(p))
    OBVIOUS
  <2>4. m \in last.matches \/ \E s \in last.left : m = M(s) /\ M(s).size > 0
    BY <1>m
  <2>5. p \in last.matches \/ \E s \in last.left : p = M(s) /\ M(s).size > 0
    BY <1>m
  <2>6. CASE m \in last.matches /\ p \in last.matches
    BY <1>5, <2>3, <2>6
  <2>7. CASE m \in last.matches /\ p \notin last.matches
    BY <1>c, <2>1, <2>5, <2>7
  <2>8. CASE m \notin last.matches /\ p \in last.matches
    BY <2>1, <2>4, <2>8
  <2>9. CASE m \notin last.matches /\ p \notin last.matches
    BY <2>2, <2>3, <2>4, <2>5, <2>9
  <2> QED
    BY <2>6, <2>7, <2>8, <2>9
<1>11. RoundRight(a, b, s0, r)
  BY <1>6, <1>7, <1>8, <1>9, <1>10 DEF RoundRight
<1> QED
  BY <1>4, <1>11 DEF r

\* The matches: runs of the same rows in both collections from the first
\* position on, apart from each other and in the same order in both.
MatchesRight(a, b, first, M) ==
    /\ \A m \in M : /\ m.i \in Int /\ m.j \in Int /\ m.size \in Nat /\ Matched(a, b, m)
                    /\ first <= m.i /\ first <= m.j /\ m.i + m.size <= Len(a) /\ m.j + m.size <= Len(a)
    /\ \A m, p \in M : m # p => Clear2(BoxOf(m), BoxOf(p))

\* The rounds, for every number of them.
RoundOf(a, b, mods, s0) ==
    CHOOSE f : f = [k \in 0 .. Len(a) |-> IF k = 0 THEN [left |-> {s0}, matches |-> {}]
                                          ELSE RoundAt(a, b, mods, f[k - 1])]

\* The matches are runs of equal rows, in the same order in both sequences.
LEMMA LongestMatchesAre ==
    ASSUME NEW a \in Seq(Int), NEW b \in Seq(Int), Covered(a, b), Len(b) = Len(a), NEW mods, NEW first \in Nat
    PROVE  MatchesRight(a, b, first, LongestMatches(a, b, mods, first))
<1> DEFINE n == Len(a)
           s0 == [b1 |-> first, e1 |-> n, b2 |-> first, e2 |-> n]
           V == Rounds(a, b, mods)
           r0 == [left |-> {s0}, matches |-> {}]
           step == [k \in 1 .. n |-> [u \in V |-> IF RoundRight(a, b, s0, u) THEN RoundAt(a, b, mods, u) ELSE u]]
           p == RoundOf(a, b, mods, s0)
<1>0. n \in Nat
  OBVIOUS
<1>1. s0 \in Stretches(a, b) /\ s0 \in Boxes
  BY DEF Stretches, Boxes
<1>2. r0 \in V
  BY <1>1 DEF Rounds
<1>3. Within(s0, s0)
  BY <1>1 DEF Within, Boxes
<1>c. LongestMatches(a, b, mods, first) = p[n].matches
  BY DEF LongestMatches, RoundOf, RoundAt, MatchIn, SidesOf
<1>d. p = CHOOSE f : f = [k \in 0 .. n |-> IF k = 0 THEN r0 ELSE RoundAt(a, b, mods, f[k - 1])]
  BY DEF RoundOf
<1>v. s0.b1 = first /\ s0.b2 = first /\ s0.e1 = n /\ s0.e2 = n
  OBVIOUS
<1>r. r0.left = {s0} /\ r0.matches = {}
  OBVIOUS
<1> HIDE DEF s0
<1>4. RoundRight(a, b, s0, r0)
  BY <1>3, <1>r DEF RoundRight
<1>k. ASSUME NEW u \in V, RoundRight(a, b, s0, u)
      PROVE  RoundAt(a, b, mods, u) \in V /\ RoundRight(a, b, s0, RoundAt(a, b, mods, u))
  BY <1>1, <1>k, RoundKeeps
<1>s. step \in Steps(n, V)
  <2>1. \A k \in 1 .. n, u \in V : (IF RoundRight(a, b, s0, u) THEN RoundAt(a, b, mods, u) ELSE u) \in V
    BY <1>k
  <2> HIDE DEF V, n
  <2> QED
    BY <2>1 DEF Steps
<1> HIDE DEF n, V, step, r0, p
<1>l. PICK f : IsLoop(f, n, V, r0, step)
  BY <1>0, <1>2, <1>s, LoopRuns
<1>5. f \in [0 .. n -> V] /\ f[0] = r0 /\ \A k \in 1 .. n : f[k] = step[k][f[k - 1]]
  BY <1>l DEF IsLoop
<1> DEFINE T == {k \in Nat : k <= n => f[k] \in V /\ RoundRight(a, b, s0, f[k])}
<1>6. 0 \in T
  BY <1>2, <1>4, <1>5
<1>7. ASSUME NEW k \in 0 .. n - 1, k \in T PROVE k + 1 \in T
  <2>1. k + 1 \in 1 .. n /\ k + 1 \in 0 .. n /\ (k + 1) - 1 = k /\ k \in Nat /\ k <= n
    BY <1>0
  <2>2. f[k] \in V /\ RoundRight(a, b, s0, f[k])
    BY <1>7, <2>1
  <2>3. f[k + 1] = step[k + 1][f[k]]
    BY <1>5, <2>1
  <2>4. f[k + 1] = RoundAt(a, b, mods, f[k])
    BY <2>1, <2>2, <2>3 DEF step
  <2>5. RoundAt(a, b, mods, f[k]) \in V /\ RoundRight(a, b, s0, RoundAt(a, b, mods, f[k]))
    BY <1>k, <2>2
  <2> QED
    BY <2>1, <2>4, <2>5
<1> HIDE DEF T
<1>8. 0 .. n \subseteq T
  BY <1>0, <1>6, <1>7, UpTo
<1>9. ASSUME NEW k \in 0 .. n
      PROVE  f[k] = IF k = 0 THEN r0 ELSE RoundAt(a, b, mods, f[k - 1])
  <2>1. CASE k = 0
    BY <1>5, <2>1
  <2>2. CASE k # 0
    <3>1. k \in 1 .. n /\ k - 1 \in 0 .. n /\ k - 1 \in Nat /\ k - 1 <= n
      BY <1>0, <2>2
    <3>2. f[k] = step[k][f[k - 1]] /\ k - 1 \in T
      BY <1>5, <1>8, <3>1
    <3>3. f[k - 1] \in V /\ RoundRight(a, b, s0, f[k - 1])
      BY <3>1, <3>2 DEF T
    <3>4. step[k][f[k - 1]] = RoundAt(a, b, mods, f[k - 1])
      BY <3>1, <3>3 DEF step
    <3> QED
      BY <2>2, <3>2, <3>4
  <2> QED
    BY <2>1, <2>2
<1>10. f = [k \in 0 .. n |-> IF k = 0 THEN r0 ELSE RoundAt(a, b, mods, f[k - 1])]
  BY <1>5, <1>9
<1>11. p = [k \in 0 .. n |-> IF k = 0 THEN r0 ELSE RoundAt(a, b, mods, p[k - 1])]
  BY <1>10, <1>d, Zenon
<1> DEFINE U == {k \in Nat : k <= n => p[k] \in V /\ RoundRight(a, b, s0, p[k])}
<1>12. \A k \in 0 .. n : p[k] = IF k = 0 THEN r0 ELSE RoundAt(a, b, mods, p[k - 1])
  BY <1>11, Zenon
<1>13. 0 \in U
  <2>1. p[0] = r0
    BY <1>0, <1>12
  <2> QED
    BY <1>2, <1>4, <2>1
<1>14. ASSUME NEW k \in 0 .. n - 1, k \in U PROVE k + 1 \in U
  <2>1. k + 1 \in 0 .. n /\ k + 1 # 0 /\ (k + 1) - 1 = k /\ k \in Nat /\ k <= n
    BY <1>0
  <2>2. p[k] \in V /\ RoundRight(a, b, s0, p[k])
    BY <1>14, <2>1
  <2>3. p[k + 1] = RoundAt(a, b, mods, p[k])
    BY <1>12, <2>1
  <2>5. RoundAt(a, b, mods, p[k]) \in V /\ RoundRight(a, b, s0, RoundAt(a, b, mods, p[k]))
    BY <1>k, <2>2
  <2> QED
    BY <2>1, <2>3, <2>5
<1> HIDE DEF U
<1>15. 0 .. n \subseteq U
  BY <1>0, <1>13, <1>14, UpTo
<1>16. n \in 0 .. n
  BY <1>0
<1>17. p[n] \in V /\ RoundRight(a, b, s0, p[n])
  BY <1>0, <1>15, <1>16 DEF U
<1> DEFINE M == p[n].matches
<1>18. \A m \in M : m.i \in Int /\ m.j \in Int /\ m.size \in Nat
  BY <1>17 DEF V, Rounds, MatchesFor
<1>19. \A m \in M : Matched(a, b, m) /\ Within(BoxOf(m), s0)
  BY <1>17 DEF RoundRight
<1>20. \A m, q \in M : m # q => Clear2(BoxOf(m), BoxOf(q))
  BY <1>17 DEF RoundRight
<1> HIDE DEF M
<1>21. \A m \in M : first <= m.i /\ first <= m.j /\ m.i + m.size <= n /\ m.j + m.size <= n
  BY <1>19, <1>v DEF Within, BoxOf
<1>22. MatchesRight(a, b, first, M)
  BY <1>18, <1>19, <1>20, <1>21 DEF MatchesRight, n
<1> QED
  BY <1>22, <1>c DEF M

(***************************************************************************)
(* The rows those runs hold stay, all others are moved.                    *)
(***************************************************************************)

\* Rows in the same order where the others are left out are in the same order.
LEMMA ShortenedOrder ==
    ASSUME NEW prev \in Seq(Int), NEW next \in Seq(Int), NEW D, NEW E, NEW was, NEW now,
           Shortened(prev, D, was), Shortened(next, E, now), NEW K, SameOrder(was, now, K),
           \A x \in 0 .. Len(prev) - 1 : prev[x + 1] \in K => x \notin D,
           \A x \in 0 .. Len(next) - 1 : next[x + 1] \in K => x \notin E
    PROVE  SameOrder(prev, next, K)
<1> SUFFICES ASSUME NEW i \in 0 .. Len(prev) - 1, NEW j \in 0 .. Len(prev) - 1,
                    NEW k \in 0 .. Len(next) - 1, NEW l \in 0 .. Len(next) - 1,
                    prev[i + 1] \in K, prev[j + 1] \in K, next[k + 1] = prev[i + 1], next[l + 1] = prev[j + 1],
                    i < j, ~(k < l)
             PROVE  FALSE
  BY DEF SameOrder
<1>1. i \notin D /\ j \notin D /\ k \notin E /\ l \notin E
  OBVIOUS
<1>2. /\ Rank(D, i) \in 0 .. Len(was) - 1 /\ was[Rank(D, i) + 1] = prev[i + 1]
      /\ Rank(D, j) \in 0 .. Len(was) - 1 /\ was[Rank(D, j) + 1] = prev[j + 1]
      /\ Rank(E, k) \in 0 .. Len(now) - 1 /\ now[Rank(E, k) + 1] = next[k + 1]
      /\ Rank(E, l) \in 0 .. Len(now) - 1 /\ now[Rank(E, l) + 1] = next[l + 1]
  BY <1>1 DEF Shortened
<1>3. i \in Nat /\ j \in Nat /\ k \in Nat /\ l \in Nat /\ l <= k
  OBVIOUS
<1>4. Rank(D, i) < Rank(D, j)
  BY <1>1, <1>3, RankSteps, RankGrows
<1>5. Rank(E, l) <= Rank(E, k)
  BY <1>3, RankGrows
<1>6. Rank(E, k) < Rank(E, l)
  <2> DEFINE x == Rank(D, i)
             z == Rank(D, j)
             y == Rank(E, k)
             w == Rank(E, l)
  <2>1. /\ x \in 0 .. Len(was) - 1 /\ z \in 0 .. Len(was) - 1 /\ y \in 0 .. Len(now) - 1 /\ w \in 0 .. Len(now) - 1
        /\ was[x + 1] \in K /\ was[z + 1] \in K /\ now[y + 1] = was[x + 1] /\ now[w + 1] = was[z + 1] /\ x < z
    BY <1>2, <1>4
  <2> HIDE DEF x, y, z, w
  <2>2. y < w
    BY <2>1 DEF SameOrder
  <2> QED
    BY <2>2 DEF y, w
<1>7. Rank(E, k) \in Int /\ Rank(E, l) \in Int
  BY <1>2
<1> QED
  BY <1>5, <1>6, <1>7

\* Two positions with the same row that is not taken out and put in again.
Linked(first, M, x, y) ==
    \/ x = y /\ x < first
    \/ \E m \in M : \E t \in 0 .. m.size - 1 : x = m.i + t /\ y = m.j + t

\* Linked positions are in order.
LEMMA LinkedOrder ==
    ASSUME NEW a, NEW b, NEW first \in Nat, NEW M, MatchesRight(a, b, first, M),
           NEW x \in Nat, NEW y \in Nat, NEW z \in Nat, NEW w \in Nat,
           Linked(first, M, x, y), Linked(first, M, z, w), x < z
    PROVE  y < w
<1>m. \A m \in M : m.i \in Int /\ m.j \in Int /\ m.size \in Nat /\ first <= m.i /\ first <= m.j
  BY DEF MatchesRight
<1>1. CASE x = y /\ x < first
  <2>1. CASE z = w /\ z < first
    BY <1>1, <2>1
  <2>2. CASE \E m \in M : \E t \in 0 .. m.size - 1 : z = m.i + t /\ w = m.j + t
    <3>1. PICK m \in M : \E t \in 0 .. m.size - 1 : z = m.i + t /\ w = m.j + t
      BY <2>2
    <3>2. PICK t \in 0 .. m.size - 1 : z = m.i + t /\ w = m.j + t
      BY <3>1
    <3>3. m.j \in Int /\ m.size \in Nat /\ first <= m.j
      BY <1>m
    <3>4. first <= w
      BY <3>2, <3>3
    <3> QED
      BY <1>1, <3>4
  <2> QED
    BY <2>1, <2>2 DEF Linked
<1>2. CASE ~(x = y /\ x < first)
  <2>1. PICK m \in M : \E t \in 0 .. m.size - 1 : x = m.i + t /\ y = m.j + t
    BY <1>2 DEF Linked
  <2>2. PICK t \in 0 .. m.size - 1 : x = m.i + t /\ y = m.j + t
    BY <2>1
  <2>3. m.i \in Int /\ m.j \in Int /\ m.size \in Nat /\ first <= m.i /\ t \in Nat
    BY <1>m
  <2>4. first <= x
    BY <2>2, <2>3
  <2>5. ~(z < first)
    BY <2>4
  <2>6. PICK p \in M : \E u \in 0 .. p.size - 1 : z = p.i + u /\ w = p.j + u
    BY <2>5 DEF Linked
  <2>7. PICK u \in 0 .. p.size - 1 : z = p.i + u /\ w = p.j + u
    BY <2>6
  <2>8. p.i \in Int /\ p.j \in Int /\ p.size \in Nat /\ u \in Nat
    BY <1>m
  <2>9. CASE m = p
    BY <2>2, <2>3, <2>7, <2>9
  <2>10. CASE m # p
    <3>1. Precedes(BoxOf(m), BoxOf(p)) \/ Precedes(BoxOf(p), BoxOf(m))
      BY <2>10 DEF MatchesRight, Clear2
    <3>2. (m.i + m.size <= p.i /\ m.j + m.size <= p.j) \/ (p.i + p.size <= m.i /\ p.j + p.size <= m.j)
      BY <3>1 DEF Precedes, BoxOf
    <3>3. CASE m.i + m.size <= p.i /\ m.j + m.size <= p.j
      BY <2>2, <2>3, <2>7, <2>8, <3>3
    <3>4. CASE p.i + p.size <= m.i /\ p.j + p.size <= m.j
      BY <2>2, <2>3, <2>7, <2>8, <3>4
    <3> QED
      BY <3>2, <3>3, <3>4
  <2> QED
    BY <2>9, <2>10
<1> QED
  BY <1>1, <1>2

\* The first position at which the two differ.
SameUpTo(a, b, first) == \A x \in 0 .. first - 1 : a[x + 1] = b[x + 1]
\* The positions matched in the first sequence ...
RunsIn(M) == {m.i .. m.i + m.size - 1 : m \in M}
\* ... and in the second.
RunsTo(M) == {m.j .. m.j + m.size - 1 : m \in M}

\* A number of a run is its start plus an offset ...
LEMMA OffsetIs ==
    ASSUME NEW x \in Nat, NEW i \in Int, NEW n \in Nat, x \in i .. i + n - 1
    PROVE  x - i \in 0 .. n - 1 /\ x = i + (x - i)
  OBVIOUS

\* ... and the start plus an offset is in the run.
LEMMA OffsetsAre ==
    ASSUME NEW i \in Int, NEW s \in Nat, NEW t \in Nat, t < s
    PROVE  /\ i + t \in i .. i + s - 1
           /\ \A n, f \in Nat : f <= i /\ i + s <= n => i + t \in 0 .. n - 1
  OBVIOUS

\* The rows that are not Unmatched are those at linked positions.
LEMMA LinkedRows ==
    ASSUME NEW a \in Seq(Int), NEW b \in Seq(Int), Len(b) = Len(a), NoRepeats(a), NoRepeats(b),
           NEW first \in Nat, first <= Len(a), SameUpTo(a, b, first), NEW M, MatchesRight(a, b, first, M),
           NEW x \in 0 .. Len(a) - 1, NEW y \in 0 .. Len(a) - 1, a[x + 1] = b[y + 1]
    PROVE  /\ a[x + 1] \notin Unmatched(a, first, RunsIn(M)) <=> Linked(first, M, x, y)
           /\ b[y + 1] \notin Unmatched(b, first, RunsTo(M)) <=> Linked(first, M, x, y)
<1> DEFINE n == Len(a)
<1>0. n \in Nat /\ DOMAIN a = 1 .. n /\ DOMAIN b = 1 .. n
  OBVIOUS
<1>1. a[x + 1] \in Unmatched(a, first, RunsIn(M)) <=> x >= first /\ \A m \in M : x \notin m.i .. m.i + m.size - 1
  <2> DEFINE S == {z \in DOMAIN a : z - 1 >= first /\ \A r \in RunsIn(M) : z - 1 \notin r}
  <2>1. x + 1 \in 1 .. n /\ (x + 1) - 1 = x
    BY <1>0
  <2>2. x + 1 \in S <=> x >= first /\ \A m \in M : x \notin m.i .. m.i + m.size - 1
    BY <1>0, <2>1 DEF RunsIn
  <2>3. a[x + 1] \in Unmatched(a, first, RunsIn(M)) <=> \E z \in S : a[z] = a[x + 1]
    BY DEF Unmatched
  <2>4. \A z \in S : z \in 1 .. n
    BY <1>0
  <2> HIDE DEF S
  <2>5. \A z \in S : a[z] = a[x + 1] => z = x + 1
    BY <2>1, <2>4 DEF NoRepeats
  <2> QED
    BY <2>2, <2>3, <2>5
<1>2. b[y + 1] \in Unmatched(b, first, RunsTo(M)) <=> y >= first /\ \A m \in M : y \notin m.j .. m.j + m.size - 1
  <2> DEFINE S == {z \in DOMAIN b : z - 1 >= first /\ \A r \in RunsTo(M) : z - 1 \notin r}
  <2>1. y + 1 \in 1 .. n /\ (y + 1) - 1 = y
    BY <1>0
  <2>2. y + 1 \in S <=> y >= first /\ \A m \in M : y \notin m.j .. m.j + m.size - 1
    BY <1>0, <2>1 DEF RunsTo
  <2>3. b[y + 1] \in Unmatched(b, first, RunsTo(M)) <=> \E z \in S : b[z] = b[y + 1]
    BY DEF Unmatched
  <2>4. \A z \in S : z \in 1 .. n
    BY <1>0
  <2> HIDE DEF S
  <2>5. \A z \in S : b[z] = b[y + 1] => z = y + 1
    BY <2>1, <2>4 DEF NoRepeats
  <2> QED
    BY <2>2, <2>3, <2>5
<1>3. \A p \in 0 .. n - 1 : a[p + 1] = a[x + 1] => p = x
  <2> TAKE p \in 0 .. n - 1
  <2>1. p + 1 \in 1 .. n /\ x + 1 \in 1 .. n
    BY <1>0
  <2>2. a[p + 1] = a[x + 1] => p + 1 = x + 1
    BY <2>1 DEF NoRepeats
  <2> QED
    BY <2>2
<1>4. \A p \in 0 .. n - 1 : b[p + 1] = b[y + 1] => p = y
  <2> TAKE p \in 0 .. n - 1
  <2>1. p + 1 \in 1 .. n /\ y + 1 \in 1 .. n
    BY <1>0
  <2>2. b[p + 1] = b[y + 1] => p + 1 = y + 1
    BY <2>1 DEF NoRepeats
  <2> QED
    BY <2>2
<1> HIDE DEF n
<1>5. \A p \in 0 .. first - 1 : p \in 0 .. n - 1 /\ a[p + 1] = b[p + 1]
  BY <1>0 DEF SameUpTo, n
<1>x. x \in Nat /\ y \in Nat /\ first \in Nat
  OBVIOUS
<1>6. x < first => y = x
  <2>1. x < first => x \in 0 .. first - 1
    BY <1>x
  <2> QED
    BY <1>4, <1>5, <2>1
<1>7. y < first => y = x
  <2>1. y < first => y \in 0 .. first - 1
    BY <1>x
  <2> QED
    BY <1>3, <1>5, <2>1
<1>8. ASSUME NEW m \in M, NEW t \in 0 .. m.size - 1
      PROVE  /\ m.i + t \in 0 .. n - 1 /\ m.j + t \in 0 .. n - 1 /\ a[m.i + t + 1] = b[m.j + t + 1]
             /\ m.i + t \in m.i .. m.i + m.size - 1 /\ m.j + t \in m.j .. m.j + m.size - 1
  <2>1. /\ m.i \in Int /\ m.j \in Int /\ m.size \in Nat /\ first <= m.i /\ first <= m.j
        /\ m.i + m.size <= n /\ m.j + m.size <= n
    BY DEF MatchesRight, n
  <2>m. Matched(a, b, m)
    BY DEF MatchesRight
  <2>2. t \in Nat /\ t < m.size /\ t <= m.size - 1
    BY <2>1
  <2>3. m.i + t \in 0 .. n - 1 /\ m.j + t \in 0 .. n - 1
    BY ONLY <1>0, <1>x, <2>1, <2>2, OffsetsAre
  <2>4. m.i + t \in m.i .. m.i + m.size - 1 /\ m.j + t \in m.j .. m.j + m.size - 1
    BY ONLY <2>1, <2>2, OffsetsAre
  <2> QED
    BY <2>m, <2>3, <2>4 DEF Matched
<1>9. ASSUME NEW m \in M, x \in m.i .. m.i + m.size - 1
      PROVE  \E t \in 0 .. m.size - 1 : x = m.i + t /\ y = m.j + t
  <2>1. m.i \in Int /\ m.j \in Int /\ m.size \in Nat
    BY DEF MatchesRight
  <2> DEFINE t == x - m.i
  <2>2. t \in 0 .. m.size - 1 /\ x = m.i + t
    BY ONLY <1>9, <1>x, <2>1, OffsetIs DEF t
  <2> HIDE DEF t
  <2>3. m.j + t \in 0 .. n - 1 /\ a[x + 1] = b[m.j + t + 1]
    BY <1>8, <2>2
  <2>4. y = m.j + t
    BY <1>4, <2>3
  <2> QED
    BY <2>2, <2>4
<1>10. ASSUME NEW m \in M, y \in m.j .. m.j + m.size - 1
      PROVE  \E t \in 0 .. m.size - 1 : x = m.i + t /\ y = m.j + t
  <2>1. m.i \in Int /\ m.j \in Int /\ m.size \in Nat
    BY DEF MatchesRight
  <2> DEFINE t == y - m.j
  <2>2. t \in 0 .. m.size - 1 /\ y = m.j + t
    BY ONLY <1>10, <1>x, <2>1, OffsetIs DEF t
  <2> HIDE DEF t
  <2>3. m.i + t \in 0 .. n - 1 /\ b[y + 1] = a[m.i + t + 1]
    BY <1>8, <2>2
  <2>4. x = m.i + t
    BY <1>3, <2>3
  <2> QED
    BY <2>2, <2>4
<1>11. ASSUME NEW m \in M, NEW t \in 0 .. m.size - 1, x = m.i + t, y = m.j + t
       PROVE  x \in m.i .. m.i + m.size - 1 /\ y \in m.j .. m.j + m.size - 1
  BY <1>8, <1>11
<1>12. (x < first \/ \E m \in M : x \in m.i .. m.i + m.size - 1) <=> Linked(first, M, x, y)
  BY <1>6, <1>9, <1>11 DEF Linked
<1>13. (y < first \/ \E m \in M : y \in m.j .. m.j + m.size - 1) <=> Linked(first, M, x, y)
  BY <1>6, <1>7, <1>10, <1>11 DEF Linked
<1>14. (x >= first <=> ~(x < first)) /\ (y >= first <=> ~(y < first))
  BY <1>x
<1> QED
  BY <1>1, <1>2, <1>12, <1>13, <1>14

\* A shortened sequence repeats no row that was kept once.
LEMMA ShortenedOnce ==
    ASSUME NEW s \in Seq(Int), NEW D, NEW w, Shortened(s, D, w),
           \A i, j \in 0 .. Len(s) - 1 : i \notin D /\ j \notin D /\ s[i + 1] = s[j + 1] => i = j
    PROVE  NoRepeats(w)
<1> SUFFICES ASSUME NEW i \in 1 .. Len(w), NEW j \in 1 .. Len(w), w[i] = w[j]
             PROVE  i = j
  BY DEF NoRepeats
<1>0. Len(w) \in Nat
  BY DEF Shortened
<1>1. \A y \in 0 .. Len(w) - 1 : \E x \in 0 .. Len(s) - 1 : x \notin D /\ Rank(D, x) = y /\ w[y + 1] = s[x + 1]
  BY DEF Shortened
<1>2. i - 1 \in 0 .. Len(w) - 1 /\ j - 1 \in 0 .. Len(w) - 1 /\ (i - 1) + 1 = i /\ (j - 1) + 1 = j
  BY <1>0
<1>3. PICK x \in 0 .. Len(s) - 1 : x \notin D /\ Rank(D, x) = i - 1 /\ w[(i - 1) + 1] = s[x + 1]
  BY <1>1, <1>2
<1>4. PICK z \in 0 .. Len(s) - 1 : z \notin D /\ Rank(D, z) = j - 1 /\ w[(j - 1) + 1] = s[z + 1]
  BY <1>1, <1>2
<1>5. x = z
  BY <1>2, <1>3, <1>4
<1> QED
  BY <1>2, <1>3, <1>4, <1>5

\* What both collections have, and the rows they have in common.
InBoth(prev, next) ==
    /\ prev \in Seq(Int) /\ next \in Seq(Nat) /\ Once(prev, Nat) /\ Once(next, Nat)
\* The two sequences of the surviving rows hold the same rows.
Commons(prev, next, was, now) ==
    /\ Shortened(prev, Others(prev, Both(prev, next)), was)
    /\ Shortened(next, Others(next, Both(prev, next)), now)
    /\ Len(now) = Len(was) /\ NoRepeats(was) /\ NoRepeats(now)
    /\ \A x \in 0 .. Len(was) - 1 : was[x + 1] \in Both(prev, next) /\ \E y \in 0 .. Len(was) - 1 : was[x + 1] = now[y + 1]
    /\ \A y \in 0 .. Len(was) - 1 : now[y + 1] \in Both(prev, next)
    /\ \A r \in Both(prev, next) : \E x, y \in 0 .. Len(was) - 1 : was[x + 1] = r /\ now[y + 1] = r

\* A row outside the other sequence is outside of both.
LEMMA OthersBoth ==
    ASSUME NEW prev, NEW next, InBoth(prev, next)
    PROVE  /\ Others(prev, ToSet(next)) = Others(prev, Both(prev, next))
           /\ Others(next, ToSet(prev)) = Others(next, Both(prev, next))
           /\ Both(prev, next) \subseteq Nat
           /\ Keeping(prev, next, Both(prev, next))
<1>1. prev \in Seq(Int) /\ next \in Seq(Nat) /\ next \in Seq(Int) /\ Once(prev, Nat) /\ Once(next, Nat)
  BY DEF InBoth
<1>2. DOMAIN prev = 1 .. Len(prev) /\ DOMAIN next = 1 .. Len(next) /\ Len(prev) \in Nat /\ Len(next) \in Nat
  BY <1>1
<1>3. \A x \in 0 .. Len(prev) - 1 : prev[x + 1] \in ToSet(prev)
  BY <1>2 DEF ToSet
<1>4. \A x \in 0 .. Len(next) - 1 : next[x + 1] \in ToSet(next)
  BY <1>2 DEF ToSet
<1>5. ToSet(next) \subseteq Nat
  BY <1>1, <1>2 DEF ToSet
<1>6. Both(prev, next) \subseteq Nat
  BY <1>5 DEF Both
<1>7. Once(prev, Both(prev, next)) /\ Once(next, Both(prev, next))
  BY <1>1, <1>6 DEF Once
<1>8. \A r \in Both(prev, next) : /\ \E p \in 0 .. Len(prev) - 1 : prev[p + 1] = r
                                  /\ \E p \in 0 .. Len(next) - 1 : next[p + 1] = r
  BY <1>1, RowsBoth
<1>9. Keeping(prev, next, Both(prev, next))
  BY <1>1, <1>7, <1>8 DEF Keeping
<1>10. Others(prev, ToSet(next)) = Others(prev, Both(prev, next))
  BY <1>3 DEF Others, Both
<1>11. Others(next, ToSet(prev)) = Others(next, Both(prev, next))
  BY <1>4 DEF Others, Both
<1> QED
  BY <1>6, <1>9, <1>10, <1>11

\* Survivors gives those sequences.
LEMMA CommonsAre ==
    ASSUME NEW prev, NEW next, InBoth(prev, next)
    PROVE  Commons(prev, next, Survivors(prev, next), Survivors(next, prev))
<1> DEFINE K == Both(prev, next)
           D == Others(prev, K)
           E == Others(next, K)
           was == Survivors(prev, next)
           now == Survivors(next, prev)
<1>1. prev \in Seq(Int) /\ next \in Seq(Int) /\ Once(prev, Nat) /\ Once(next, Nat)
  BY DEF InBoth
<1>2. Others(prev, ToSet(next)) = D /\ Others(next, ToSet(prev)) = E /\ K \subseteq Nat /\ Keeping(prev, next, K)
  BY OthersBoth
<1>3. Shortened(prev, Others(prev, ToSet(next)), was) /\ Shortened(next, Others(next, ToSet(prev)), now)
  BY <1>1, SurvivorsIs
<1> HIDE DEF was, now, K
<1>4. Shortened(prev, D, was) /\ Shortened(next, E, now)
  BY <1>2, <1>3
<1>5. Rank(D, Len(prev)) = Rank(E, Len(next))
  BY <1>2, KeepingRanks
<1>6. Len(now) = Len(was) /\ Len(was) \in Nat
  BY <1>4, <1>5 DEF Shortened
<1>7. \A x \in 0 .. Len(prev) - 1 : x \notin D <=> prev[x + 1] \in K
  BY DEF Others
<1>8. \A x \in 0 .. Len(next) - 1 : x \notin E <=> next[x + 1] \in K
  BY DEF Others
<1>9. /\ \A i, j \in 0 .. Len(prev) - 1 : i \notin D /\ j \notin D /\ prev[i + 1] = prev[j + 1] => i = j
      /\ \A i, j \in 0 .. Len(next) - 1 : i \notin E /\ j \notin E /\ next[i + 1] = next[j + 1] => i = j
  <2>1. Len(prev) \in Nat /\ Len(next) \in Nat
    BY <1>1
  <2>2. ASSUME NEW i \in 0 .. Len(prev) - 1, NEW j \in 0 .. Len(prev) - 1, i \notin D, prev[i + 1] = prev[j + 1]
        PROVE  i = j
    <3>3. i + 1 \in 1 .. Len(prev) /\ j + 1 \in 1 .. Len(prev)
      BY <2>1
    <3>4. K \subseteq Nat /\ prev[i + 1] \in K
      BY <1>2, <1>7, <2>2
    <3>1. i + 1 \in 1 .. Len(prev) /\ j + 1 \in 1 .. Len(prev) /\ prev[i + 1] \in Nat
      BY <3>3, <3>4
    <3>2. i + 1 = j + 1
      BY <1>1, <2>2, <3>1 DEF Once
    <3> QED
      BY <3>2
  <2>3. ASSUME NEW i \in 0 .. Len(next) - 1, NEW j \in 0 .. Len(next) - 1, i \notin E, next[i + 1] = next[j + 1]
        PROVE  i = j
    <3>3. i + 1 \in 1 .. Len(next) /\ j + 1 \in 1 .. Len(next)
      BY <2>1
    <3>4. K \subseteq Nat /\ next[i + 1] \in K
      BY <1>2, <1>8, <2>3
    <3>1. i + 1 \in 1 .. Len(next) /\ j + 1 \in 1 .. Len(next) /\ next[i + 1] \in Nat
      BY <3>3, <3>4
    <3>2. i + 1 = j + 1
      BY <1>1, <2>3, <3>1 DEF Once
    <3> QED
      BY <3>2
  <2> QED
    BY <2>2, <2>3
<1> HIDE DEF D, E
<1>10. NoRepeats(was) /\ NoRepeats(now)
  <2>1. NoRepeats(was)
    BY <1>1, <1>4, <1>9, ShortenedOnce
  <2>2. NoRepeats(now)
    BY <1>1, <1>4, <1>9, ShortenedOnce
  <2> QED
    BY <2>1, <2>2
<1>11. \A r \in K : \E x, y \in 0 .. Len(was) - 1 : was[x + 1] = r /\ now[y + 1] = r
  <2> TAKE r \in K
  <2>1. PICK i \in 0 .. Len(prev) - 1 : prev[i + 1] = r
    BY <1>2 DEF Keeping
  <2>2. PICK k \in 0 .. Len(next) - 1 : next[k + 1] = r
    BY <1>2 DEF Keeping
  <2>3. i \notin D /\ k \notin E
    BY <1>7, <1>8, <2>1, <2>2
  <2>4. Rank(D, i) \in 0 .. Len(was) - 1 /\ was[Rank(D, i) + 1] = r
    BY <1>4, <2>1, <2>3 DEF Shortened
  <2>5. Rank(E, k) \in 0 .. Len(was) - 1 /\ now[Rank(E, k) + 1] = r
    BY <1>4, <1>6, <2>2, <2>3 DEF Shortened
  <2> QED
    BY <2>4, <2>5
<1>12. \A x \in 0 .. Len(was) - 1 : was[x + 1] \in K /\ \E y \in 0 .. Len(was) - 1 : was[x + 1] = now[y + 1]
  <2> TAKE x \in 0 .. Len(was) - 1
  <2>1. PICK i \in 0 .. Len(prev) - 1 : i \notin D /\ was[x + 1] = prev[i + 1]
    BY <1>4 DEF Shortened
  <2>2. was[x + 1] \in K
    BY <1>7, <2>1
  <2> QED
    BY <1>11, <2>2
<1>14. \A y \in 0 .. Len(was) - 1 : now[y + 1] \in K
  <2> TAKE y \in 0 .. Len(was) - 1
  <2>1. PICK i \in 0 .. Len(next) - 1 : i \notin E /\ now[y + 1] = next[i + 1]
    BY <1>4, <1>6 DEF Shortened
  <2> QED
    BY <1>8, <2>1
<1>13. Commons(prev, next, was, now)
  BY <1>4, <1>6, <1>10, <1>11, <1>12, <1>14 DEF Commons, D, E, K
<1> QED
  BY <1>13 DEF was, now

\* The rows that a sorted query takes out are those it puts in again, and all
\* others are left where they are, in their order.
SortedKeeps(prev, next, was, now, gone, come, K) ==
    /\ K \subseteq Both(prev, next)
    /\ gone = Both(prev, next) \ K /\ come = Both(prev, next) \ K
    /\ SameOrder(was, now, K)

\* Equal survivors are in the same order.
LEMMA SameRows ==
    ASSUME NEW prev, NEW next, NEW was, NEW now, Commons(prev, next, was, now),
           \A i \in DOMAIN was : was[i] = now[i]
    PROVE  SameOrder(was, now, Both(prev, next))
<1> SUFFICES ASSUME NEW i \in 0 .. Len(was) - 1, NEW j \in 0 .. Len(was) - 1,
                    NEW k \in 0 .. Len(now) - 1, NEW l \in 0 .. Len(now) - 1,
                    now[k + 1] = was[i + 1], now[l + 1] = was[j + 1], i < j
             PROVE  k < l
  BY DEF SameOrder
<1>1. was \in Seq(Int) /\ Len(now) = Len(was) /\ NoRepeats(now)
  BY DEF Commons, Shortened
<1>2. Len(was) \in Nat /\ DOMAIN was = 1 .. Len(was)
  BY <1>1
<1>3. i + 1 \in 1 .. Len(was) /\ j + 1 \in 1 .. Len(was) /\ k + 1 \in 1 .. Len(now) /\ l + 1 \in 1 .. Len(now)
  BY <1>1, <1>2
<1>4. now[k + 1] = now[i + 1] /\ now[l + 1] = now[j + 1]
  BY <1>2, <1>3
<1>5. k + 1 = i + 1 /\ l + 1 = j + 1
  BY <1>1, <1>3, <1>4 DEF NoRepeats
<1> QED
  BY <1>5

\* The rows matched by the runs are in the same order.
LEMMA SortedKeep ==
    ASSUME NEW prev, NEW next, NEW was, NEW now, Commons(prev, next, was, now), NEW mods,
           NEW first, first = Min({i \in DOMAIN was : was[i] # now[i]}) - 1,
           {i \in DOMAIN was : was[i] # now[i]} # {},
           NEW M, M = LongestMatches(was, now, mods, first)
    PROVE  SortedKeeps(prev, next, was, now, Unmatched(was, first, RunsIn(M)), Unmatched(now, first, RunsTo(M)),
                       Both(prev, next) \ Unmatched(was, first, RunsIn(M)))
<1> DEFINE n == Len(was)
           differ == {i \in DOMAIN was : was[i] # now[i]}
           gone == Unmatched(was, first, RunsIn(M))
           come == Unmatched(now, first, RunsTo(M))
           K == Both(prev, next) \ gone
<1>1. /\ was \in Seq(Int) /\ now \in Seq(Int) /\ Len(now) = n /\ NoRepeats(was) /\ NoRepeats(now)
      /\ \A x \in 0 .. n - 1 : was[x + 1] \in Both(prev, next) /\ \E y \in 0 .. n - 1 : was[x + 1] = now[y + 1]
      /\ \A y \in 0 .. n - 1 : now[y + 1] \in Both(prev, next)
      /\ \A r \in Both(prev, next) : \E x, y \in 0 .. n - 1 : was[x + 1] = r /\ now[y + 1] = r
  BY DEF Commons, Shortened
<1>2. n \in Nat /\ DOMAIN was = 1 .. n /\ DOMAIN now = 1 .. n
  BY <1>1
<1>3. first \in Nat /\ first <= n /\ SameUpTo(was, now, first)
  <2>1. differ \in SUBSET Nat /\ differ # {} /\ differ \subseteq 1 .. n
    BY <1>2
  <2> DEFINE f == Min(differ)
  <2>0. first = f - 1
    OBVIOUS
  <2>5. \A i \in 1 .. n : i \notin differ => was[i] = now[i]
    BY <1>2
  <2> HIDE DEF differ
  <2>2. f \in differ /\ \A y \in differ : f <= y
    BY <2>1, MinIs
  <2>3. f \in 1 .. n
    BY <2>1, <2>2
  <2> HIDE DEF f
  <2>4. first \in Nat /\ first <= n
    BY <1>2, <2>0, <2>3
  <2>6. ASSUME NEW x \in 0 .. first - 1 PROVE was[x + 1] = now[x + 1]
    <3>1. x + 1 \in 1 .. n /\ ~(f <= x + 1)
      BY <1>2, <2>0, <2>3
    <3> QED
      BY <2>2, <2>5, <3>1
  <2> QED
    BY <2>4, <2>6 DEF SameUpTo
<1>4. Covered(was, now)
  <2> SUFFICES ASSUME NEW x \in 1 .. Len(was) PROVE \E y \in 1 .. Len(now) : now[y] = was[x]
    BY DEF Covered
  <2>1. x - 1 \in 0 .. n - 1 /\ (x - 1) + 1 = x
    BY <1>2
  <2>2. PICK y \in 0 .. n - 1 : was[x] = now[y + 1]
    BY <1>1, <2>1
  <2>3. y + 1 \in 1 .. Len(now)
    BY <1>1, <1>2
  <2> QED
    BY <2>2, <2>3
<1>5. MatchesRight(was, now, first, M)
  BY <1>1, <1>3, <1>4, LongestMatchesAre
<1> HIDE DEF n
<1>6. ASSUME NEW x \in 0 .. n - 1, NEW y \in 0 .. n - 1, was[x + 1] = now[y + 1]
      PROVE  /\ was[x + 1] \notin gone <=> Linked(first, M, x, y)
             /\ now[y + 1] \notin come <=> Linked(first, M, x, y)
  <2>1. x \in 0 .. Len(was) - 1 /\ y \in 0 .. Len(was) - 1 /\ Len(now) = Len(was) /\ first <= Len(was)
    BY <1>1, <1>3 DEF n
  <2>2. was \in Seq(Int) /\ now \in Seq(Int) /\ NoRepeats(was) /\ NoRepeats(now)
    BY <1>1
  <2>3. first \in Nat /\ SameUpTo(was, now, first)
    BY <1>3
  <2>4. /\ was[x + 1] \notin Unmatched(was, first, RunsIn(M)) <=> Linked(first, M, x, y)
        /\ now[y + 1] \notin Unmatched(now, first, RunsTo(M)) <=> Linked(first, M, x, y)
    BY ONLY <2>1, <2>2, <2>3, <1>5, <1>6, LinkedRows
  <2> QED
    BY <2>4
<1>7. gone \subseteq Both(prev, next)
  <2>1. \A z \in DOMAIN was : was[z] \in Both(prev, next)
    <3> TAKE z \in DOMAIN was
    <3>1. z - 1 \in 0 .. n - 1 /\ (z - 1) + 1 = z
      BY <1>2
    <3> QED
      BY <1>1, <3>1 DEF n
  <2> QED
    BY <2>1 DEF Unmatched
<1>8. come \subseteq Both(prev, next)
  <2>1. \A z \in DOMAIN now : now[z] \in Both(prev, next)
    <3> TAKE z \in DOMAIN now
    <3>1. z - 1 \in 0 .. n - 1 /\ (z - 1) + 1 = z
      BY <1>2
    <3> QED
      BY <1>1, <3>1 DEF n
  <2> QED
    BY <2>1 DEF Unmatched
<1> HIDE DEF gone, come
<1>9. gone = come
  <2>1. ASSUME NEW r \in Both(prev, next) PROVE r \in gone <=> r \in come
    <3>1. PICK x \in 0 .. n - 1, y \in 0 .. n - 1 : was[x + 1] = r /\ now[y + 1] = r
      BY <1>1 DEF n
    <3> QED
      BY <1>6, <3>1
  <2> QED
    BY <1>7, <1>8, <2>1
<1>10. SameOrder(was, now, K)
  <2> SUFFICES ASSUME NEW i \in 0 .. Len(was) - 1, NEW j \in 0 .. Len(was) - 1,
                      NEW k \in 0 .. Len(now) - 1, NEW l \in 0 .. Len(now) - 1,
                      was[i + 1] \in K, was[j + 1] \in K,
                      now[k + 1] = was[i + 1], now[l + 1] = was[j + 1], i < j
               PROVE  k < l
    BY DEF SameOrder
  <2>1. i \in 0 .. n - 1 /\ j \in 0 .. n - 1 /\ k \in 0 .. n - 1 /\ l \in 0 .. n - 1
    BY <1>1 DEF n
  <2>2. was[i + 1] \notin gone /\ was[j + 1] \notin gone
    OBVIOUS
  <2>3. Linked(first, M, i, k) /\ Linked(first, M, j, l)
    BY <1>6, <2>1, <2>2
  <2>4. i \in Nat /\ j \in Nat /\ k \in Nat /\ l \in Nat
    OBVIOUS
  <2> QED
    BY <1>3, <1>5, <2>3, <2>4, LinkedOrder
<1>11. K \subseteq Both(prev, next) /\ gone = Both(prev, next) \ K
  BY <1>7
<1> HIDE DEF K
<1>12. SortedKeeps(prev, next, was, now, gone, come, K)
  BY <1>9, <1>10, <1>11 DEF SortedKeeps
<1> QED
  BY <1>12 DEF gone, come, K

\* A sorted calculation.
SortedOf(b, prev, next, removed) ==
    [MovesSorted(b, prev, next) EXCEPT !.deletions = AddIndexes(@, removed)]

\* FromIndexes of the positions of some rows.
LEMMA RowsAt ==
    ASSUME NEW s \in Seq(Int), Once(s, Nat), NEW C \in SUBSET Nat,
           \A r \in C : \E p \in 0 .. Len(s) - 1 : s[p + 1] = r
    PROVE  /\ FromIndexes({PosIn(s, row) : row \in C}) \in Ranges
           /\ Members(FromIndexes({PosIn(s, row) : row \in C})) = {x \in 0 .. Len(s) - 1 : s[x + 1] \in C}
<1> DEFINE S == {PosIn(s, row) : row \in C}
           P == {x \in 0 .. Len(s) - 1 : s[x + 1] \in C}
<1>1. \A p \in 0 .. Len(s) - 1 : s[p + 1] \in C => PosIn(s, s[p + 1]) = p
  BY PosInOnce
<1>2. S = P
  <2>1. ASSUME NEW row \in C PROVE PosIn(s, row) \in P
    <3>1. PICK p \in 0 .. Len(s) - 1 : s[p + 1] = row
      OBVIOUS
    <3> QED
      BY <1>1, <3>1
  <2>2. ASSUME NEW p \in P PROVE p \in S
    BY <1>1
  <2> QED
    BY <2>1, <2>2
<1>3. Bounded(S)
  <2>1. Len(s) \in Nat /\ P \subseteq 0 .. Len(s)
    OBVIOUS
  <2> QED
    BY <1>2, <2>1 DEF Bounded
<1> HIDE DEF S, P
<1>4. FromIndexes(S) \in Ranges /\ Members(FromIndexes(S)) = S
  BY <1>3, BoundedIs
<1> QED
  BY <1>2, <1>4 DEF S, P

\* calculate_moves_sorted keeps rows in order and moves the others.
LEMMA SortedIs ==
    ASSUME NEW b, NEW prev, NEW next, NEW removed, NEW candidates, Started(b, prev, next, removed, candidates)
    PROVE  \E K : /\ Kept(SortedOf(b, prev, next, removed), b, prev, next, K)
                  /\ SameOrder(prev, next, K)
<1> DEFINE was == Survivors(prev, next)
           now == Survivors(next, prev)
           differ == {i \in DOMAIN was : was[i] # now[i]}
           first == Min(differ) - 1
           M == LongestMatches(was, now, b.modifications, first)
           gone == Unmatched(was, first, RunsIn(M))
           come == Unmatched(now, first, RunsTo(M))
           B == Both(prev, next)
           c == SortedOf(b, prev, next, removed)
           m == MovesSorted(b, prev, next)
<1>1. /\ prev \in Seq(Int) /\ next \in Seq(Nat) /\ Once(prev, Nat) /\ Once(next, Nat)
      /\ b \in Builders /\ b.moves = << >>
      /\ Del(b) = Gone(prev) /\ Ins(b) = Others(next, B)
      /\ removed \in Ranges /\ Members(removed) = Others(prev, B) \ Gone(prev)
  BY DEF Started
<1>2. InBoth(prev, next)
  BY <1>1 DEF InBoth
<1>3. B \subseteq Nat /\ Keeping(prev, next, B)
  BY <1>2, OthersBoth
<1>4. Commons(prev, next, was, now)
  BY <1>2, CommonsAre
<1>5. m = IF differ = {} THEN b
          ELSE [b EXCEPT
                  !.deletions = AddIndexes(@, FromIndexes({PosIn(prev, row) : row \in gone})),
                  !.insertions = AddIndexes(@, FromIndexes({PosIn(next, row) : row \in come}))]
  BY DEF MovesSorted, RunsIn, RunsTo
<1>6. c = [m EXCEPT !.deletions = AddIndexes(@, removed)]
  BY DEF SortedOf
<1>7. NPos \notin Nat
  BY DEF NPos
<1>8. /\ Shortened(prev, Others(prev, B), was) /\ Shortened(next, Others(next, B), now)
  BY <1>4 DEF Commons
<1> HIDE DEF B, was, now, m, c
<1>9. ASSUME NEW K, SameOrder(was, now, K), K \subseteq B
      PROVE  SameOrder(prev, next, K)
  <2>1. \A x \in 0 .. Len(prev) - 1 : prev[x + 1] \in K => x \notin Others(prev, B)
    BY <1>9 DEF Others
  <2>2. \A x \in 0 .. Len(next) - 1 : next[x + 1] \in K => x \notin Others(next, B)
    BY <1>9 DEF Others
  <2>3. prev \in Seq(Int) /\ next \in Seq(Int)
    BY <1>1
  <2> QED
    BY <1>8, <1>9, <2>1, <2>2, <2>3, ShortenedOrder
<1>t. ASSUME NEW d \in Ranges, NEW e \in Ranges
      PROVE  [b EXCEPT !.deletions = d, !.insertions = e] \in Builders
  BY <1>1 DEF Builders
<1>g. Gone(prev) \subseteq Others(prev, B)
  BY <1>3, <1>7 DEF Gone, Others
<1>p. b.deletions \in Ranges /\ b.insertions \in Ranges /\ Members(b.deletions) = Del(b) /\ Members(b.insertions) = Ins(b)
  BY <1>1 DEF Builders, Del, Ins
<1>k. ASSUME NEW K, K \subseteq B, c \in Builders, c.modifications = b.modifications, c.moves = << >>,
             Del(c) = Others(prev, K), Ins(c) = Others(next, K)
      PROVE  Kept(c, b, prev, next, K)
  <2>1. Len(c.moves) = 0
    BY <1>k
  <2>2. Apart(c.moves)
    BY <1>k, <2>1 DEF Apart
  <2> QED
    BY <1>k, <2>1, <2>2 DEF Kept, B
<1>10. CASE differ = {}
  <2>1. m = b
    BY <1>5, <1>10
  <2>2. AddIndexes(b.deletions, removed) \in Ranges /\ Members(AddIndexes(b.deletions, removed)) = Del(b) \cup Members(removed)
    BY <1>1, <1>p, AddIndexesIs
  <2>3. c = [b EXCEPT !.deletions = AddIndexes(b.deletions, removed)]
    BY <1>6, <2>1
  <2>4. /\ c \in Builders /\ c.modifications = b.modifications /\ c.moves = << >>
        /\ c.insertions = b.insertions /\ c.deletions = AddIndexes(b.deletions, removed)
    BY <1>1, <2>2, <2>3 DEF Builders
  <2>5. Del(c) = Others(prev, B) /\ Ins(c) = Others(next, B)
    BY <1>1, <1>g, <1>p, <2>2, <2>4 DEF Del, Ins
  <2>6. Kept(c, b, prev, next, B)
    BY <1>k, <2>4, <2>5
  <2>7. \A i \in DOMAIN was : was[i] = now[i]
    BY <1>10
  <2>8. SameOrder(was, now, B)
    BY <1>4, <2>7, SameRows DEF B
  <2>9. SameOrder(prev, next, B)
    BY <1>9, <2>8
  <2> QED
    BY <2>6, <2>9 DEF c
<1>11. CASE differ # {}
  <2> DEFINE K == B \ gone
  <2>1. SortedKeeps(prev, next, was, now, gone, come, K)
    <3> HIDE DEF differ
    <3>1. first = Min(differ) - 1 /\ differ # {} /\ M = LongestMatches(was, now, b.modifications, first)
      BY <1>11
    <3> USE DEF differ
    <3> HIDE DEF first, M
    <3> QED
      BY <1>4, <3>1, SortedKeep DEF B
  <2> DEFINE dels == FromIndexes({PosIn(prev, row) : row \in gone})
             inss == FromIndexes({PosIn(next, row) : row \in come})
  <2>2. m = [b EXCEPT !.deletions = AddIndexes(@, dels), !.insertions = AddIndexes(@, inss)]
    BY <1>5, <1>11
  <2> HIDE DEF gone, come, K
  <2>3. K \subseteq B /\ gone = B \ K /\ come = B \ K /\ SameOrder(was, now, K)
    BY <2>1 DEF SortedKeeps, B
  <2>4. gone \in SUBSET Nat /\ come \in SUBSET Nat
    BY <1>3, <2>3
  <2>5. \A r \in B : /\ \E p \in 0 .. Len(prev) - 1 : prev[p + 1] = r
                     /\ \E p \in 0 .. Len(next) - 1 : next[p + 1] = r
    BY <1>3 DEF Keeping
  <2>6. dels \in Ranges /\ Members(dels) = {x \in 0 .. Len(prev) - 1 : prev[x + 1] \in gone}
    BY <1>1, <2>3, <2>4, <2>5, RowsAt
  <2>7. inss \in Ranges /\ Members(inss) = {x \in 0 .. Len(next) - 1 : next[x + 1] \in come}
    <3>1. next \in Seq(Int)
      BY <1>1
    <3> QED
      BY <1>1, <2>3, <2>4, <2>5, <3>1, RowsAt
  <2> HIDE DEF dels, inss
  <2> DEFINE d == AddIndexes(b.deletions, dels)
             e == AddIndexes(b.insertions, inss)
             f == AddIndexes(d, removed)
  <2>8. d \in Ranges /\ Members(d) = Del(b) \cup Members(dels)
    BY <1>p, <2>6, AddIndexesIs
  <2>9. e \in Ranges /\ Members(e) = Ins(b) \cup Members(inss)
    BY <1>p, <2>7, AddIndexesIs
  <2>10. m = [b EXCEPT !.deletions = d, !.insertions = e]
    BY <2>2
  <2> HIDE DEF d, e
  <2>11. f \in Ranges /\ Members(f) = Members(d) \cup Members(removed)
    BY <1>1, <2>8, AddIndexesIs
  <2>12. c = [b EXCEPT !.deletions = f, !.insertions = e]
    BY <1>1, <1>6, <2>10 DEF Builders
  <2> HIDE DEF f
  <2>13. c \in Builders /\ c.modifications = b.modifications /\ c.moves = << >> /\ c.insertions = e /\ c.deletions = f
    BY <1>1, <2>9, <2>11, <2>12 DEF Builders
  <2>14. Del(c) = Others(prev, K)
    <3>1. Del(c) = Gone(prev) \cup {x \in 0 .. Len(prev) - 1 : prev[x + 1] \in gone} \cup (Others(prev, B) \ Gone(prev))
      BY <1>1, <2>6, <2>8, <2>11, <2>13 DEF Del
    <3>2. Del(c) = {x \in 0 .. Len(prev) - 1 : prev[x + 1] \in gone} \cup Others(prev, B)
      BY <1>g, <3>1
    <3> QED
      BY <2>3, <3>2 DEF Others
  <2>15. Ins(c) = Others(next, K)
    <3>1. Ins(c) = {x \in 0 .. Len(next) - 1 : next[x + 1] \in come} \cup Others(next, B)
      BY <1>1, <2>7, <2>9, <2>13 DEF Ins
    <3> QED
      BY <2>3, <3>1 DEF Others
  <2>16. Kept(c, b, prev, next, K)
    BY <1>k, <2>3, <2>13, <2>14, <2>15
  <2>17. SameOrder(prev, next, K)
    BY <1>9, <2>3
  <2> QED
    BY <2>16, <2>17 DEF c
<1> QED
  BY <1>10, <1>11

(***************************************************************************)
(* calculate, with either way to find moves.                               *)
(***************************************************************************)

\* The positions of the rows in a set.
RowsIn(s, C) == {x \in 0 .. Len(s) - 1 : s[x + 1] \in C}

\* FromIndexes of the positions of the rows of a set.
LEMMA RowsInAre ==
    ASSUME NEW s \in Seq(Int), NEW C
    PROVE  /\ FromIndexes({i - 1 : i \in {k \in DOMAIN s : s[k] \in C}}) \in Ranges
           /\ Members(FromIndexes({i - 1 : i \in {k \in DOMAIN s : s[k] \in C}})) = RowsIn(s, C)
<1> DEFINE S == {i - 1 : i \in {k \in DOMAIN s : s[k] \in C}}
           P == RowsIn(s, C)
<1>0. DOMAIN s = 1 .. Len(s) /\ Len(s) \in Nat
  OBVIOUS
<1>1. S = P
  <2>1. ASSUME NEW i \in DOMAIN s, s[i] \in C PROVE i - 1 \in P
    <3>1. i - 1 \in 0 .. Len(s) - 1 /\ (i - 1) + 1 = i
      BY <1>0
    <3> QED
      BY <2>1, <3>1 DEF RowsIn
  <2>2. ASSUME NEW p \in P PROVE p \in S
    <3>1. p \in 0 .. Len(s) - 1 /\ s[p + 1] \in C
      BY DEF RowsIn
    <3>2. p + 1 \in DOMAIN s /\ p = (p + 1) - 1
      BY <1>0, <3>1
    <3> QED
      BY <3>1, <3>2
  <2> QED
    BY <2>1, <2>2
<1>2. Bounded(S)
  <2>1. P \subseteq 0 .. Len(s)
    BY <1>0 DEF RowsIn
  <2> QED
    BY <1>0, <1>1, <2>1 DEF Bounded
<1> HIDE DEF S, P
<1>3. FromIndexes(S) \in Ranges /\ Members(FromIndexes(S)) = S
  BY <1>2, BoundedIs
<1> QED
  BY <1>1, <1>3 DEF S, P

\* What calculate returns: the rows K are left where they are.
Reckoned(c, prev, next, changed, K) ==
    /\ c \in Builders
    /\ K \subseteq Both(prev, next)
    /\ Del(c) = Others(prev, K) /\ Ins(c) = Others(next, K)
    /\ Mod(c) = RowsIn(next, ToSet(prev) \cap changed)
    /\ Apart(c.moves)
    /\ \A j \in 1 .. Len(c.moves) :
         /\ c.moves[j].from \in 0 .. Len(prev) - 1 /\ c.moves[j].to \in 0 .. Len(next) - 1
         /\ prev[c.moves[j].from + 1] = next[c.moves[j].to + 1]
         /\ next[c.moves[j].to + 1] \in Both(prev, next) \ K

\* The change calculate starts with.
StartOf(prev, next, changed) ==
    [NoChange EXCEPT
       !.deletions = FromIndexes({i - 1 : i \in {k \in DOMAIN prev : prev[k] \in {NPos}}}),
       !.insertions = FromIndexes({i - 1 : i \in {k \in DOMAIN next : next[k] \in ToSet(next) \ ToSet(prev)}}),
       !.modifications = FromIndexes({i - 1 : i \in {k \in DOMAIN next : next[k] \in ToSet(prev) \cap changed}})]
\* The positions of rows that are gone from the result alone.
RemovedOf(prev, next) ==
    FromIndexes({i - 1 : i \in {k \in DOMAIN prev : prev[k] \in ToSet(prev) \ (ToSet(next) \cup {NPos})}})

\* calculate starts as both calculations of moves expect it.
LEMMA CalculateStarts ==
    ASSUME NEW prev, NEW next, InBoth(prev, next), NEW changed, NEW candidates \in Ranges
    PROVE  /\ Started(StartOf(prev, next, changed), prev, next, RemovedOf(prev, next), candidates)
           /\ Mod(StartOf(prev, next, changed)) = RowsIn(next, ToSet(prev) \cap changed)
<1> DEFINE b == StartOf(prev, next, changed)
           removed == RemovedOf(prev, next)
           B == Both(prev, next)
           d == FromIndexes({i - 1 : i \in {k \in DOMAIN prev : prev[k] \in {NPos}}})
           e == FromIndexes({i - 1 : i \in {k \in DOMAIN next : next[k] \in ToSet(next) \ ToSet(prev)}})
           f == FromIndexes({i - 1 : i \in {k \in DOMAIN next : next[k] \in ToSet(prev) \cap changed}})
<1>1. prev \in Seq(Int) /\ next \in Seq(Nat) /\ next \in Seq(Int) /\ Once(prev, Nat) /\ Once(next, Nat)
  BY DEF InBoth
<1>2. d \in Ranges /\ Members(d) = RowsIn(prev, {NPos})
  BY <1>1, RowsInAre
<1>3. e \in Ranges /\ Members(e) = RowsIn(next, ToSet(next) \ ToSet(prev))
  BY <1>1, RowsInAre
<1>4. f \in Ranges /\ Members(f) = RowsIn(next, ToSet(prev) \cap changed)
  BY <1>1, RowsInAre
<1>5. removed \in Ranges /\ Members(removed) = RowsIn(prev, ToSet(prev) \ (ToSet(next) \cup {NPos}))
  BY <1>1, RowsInAre DEF RemovedOf
<1>6. b = [NoChange EXCEPT !.deletions = d, !.insertions = e, !.modifications = f]
  BY DEF StartOf
<1> HIDE DEF b, removed, d, e, f
<1>7. NoChange \in Builders /\ NoChange.moves = << >>
  BY NoChangeIs
<1>8. b \in Builders /\ b.moves = << >> /\ b.deletions = d /\ b.insertions = e /\ b.modifications = f
  BY <1>2, <1>3, <1>4, <1>6, <1>7 DEF Builders
<1>9. B \subseteq Nat /\ NPos \notin Nat
  BY OthersBoth DEF NPos
<1>10. \A x \in 0 .. Len(prev) - 1 : prev[x + 1] \in ToSet(prev)
  BY <1>1 DEF ToSet
<1>11. \A x \in 0 .. Len(next) - 1 : next[x + 1] \in ToSet(next)
  BY <1>1 DEF ToSet
<1>12. Del(b) = Gone(prev)
  BY <1>2, <1>8 DEF Del, RowsIn, Gone
<1>13. Ins(b) = Others(next, B)
  <2>1. Ins(b) = RowsIn(next, ToSet(next) \ ToSet(prev))
    BY <1>3, <1>8 DEF Ins
  <2> QED
    BY <1>11, <2>1 DEF RowsIn, Others, Both
<1>14. Members(removed) = Others(prev, B) \ Gone(prev)
  BY <1>5, <1>10 DEF RowsIn, Others, Both, Gone
<1>15. Started(b, prev, next, removed, candidates)
  BY <1>1, <1>5, <1>8, <1>12, <1>13, <1>14 DEF Started
<1> QED
  BY <1>4, <1>8, <1>15 DEF b, removed, Mod

\* What either gives is what calculate gives.
LEMMA KeptReckoned ==
    ASSUME NEW c, NEW b, NEW prev, NEW next, NEW changed, NEW K, Kept(c, b, prev, next, K),
           Mod(b) = RowsIn(next, ToSet(prev) \cap changed)
    PROVE  Reckoned(c, prev, next, changed, K)
<1>1. Mod(c) = Mod(b)
  BY DEF Kept, Mod
<1> QED
  BY <1>1 DEF Kept, Reckoned

\* What calculate gives, in order unless table order was not steady.
Calculated(c, prev, next, changed, candidates, inTableOrder) ==
    \E K : /\ Reckoned(c, prev, next, changed, K)
           /\ ~inTableOrder \/ Steady(prev, next, candidates) => SameOrder(prev, next, K)

\* calculate gives it.
LEMMA CalculateIs ==
    ASSUME NEW prev, NEW next, InBoth(prev, next), NEW changed, NEW candidates \in Ranges, NEW inTableOrder \in BOOLEAN
    PROVE  Calculated(Calculate(prev, next, changed, candidates, inTableOrder), prev, next, changed, candidates, inTableOrder)
<1> DEFINE b == StartOf(prev, next, changed)
           removed == RemovedOf(prev, next)
           c == Calculate(prev, next, changed, candidates, inTableOrder)
<1>1. Started(b, prev, next, removed, candidates) /\ Mod(b) = RowsIn(next, ToSet(prev) \cap changed)
  BY CalculateStarts
<1>2. c = IF inTableOrder THEN MovesUnsorted(b, prev, next, removed, candidates)
          ELSE SortedOf(b, prev, next, removed)
  BY DEF Calculate, StartOf, RemovedOf, SortedOf
<1> HIDE DEF b, removed, c
<1>3. CASE inTableOrder
  <2>1. PICK K : /\ Kept(MovesUnsorted(b, prev, next, removed, candidates), b, prev, next, K)
                 /\ Steady(prev, next, candidates) => SameOrder(prev, next, K)
    BY <1>1, UnsortedIs
  <2>2. Kept(c, b, prev, next, K)
    BY <1>2, <1>3, <2>1
  <2>3. Reckoned(c, prev, next, changed, K)
    BY <1>1, <2>2, KeptReckoned
  <2> QED
    BY <1>3, <2>1, <2>3 DEF Calculated, c
<1>4. CASE ~inTableOrder
  <2>1. PICK K : /\ Kept(SortedOf(b, prev, next, removed), b, prev, next, K)
                 /\ SameOrder(prev, next, K)
    BY <1>1, SortedIs
  <2>2. Kept(c, b, prev, next, K)
    BY <1>2, <1>4, <2>1
  <2>3. Reckoned(c, prev, next, changed, K)
    BY <1>1, <2>2, KeptReckoned
  <2> QED
    BY <2>1, <2>3 DEF Calculated, c
<1> QED
  BY <1>3, <1>4

\* Such changes applied to the positions alone, and to the rows if they are
\* left in their order.
LEMMA ReckonedPlaces ==
    ASSUME NEW c, NEW prev, NEW next, InBoth(prev, next), NEW changed, NEW K, Reckoned(c, prev, next, changed, K)
    PROVE  /\ Places(Del(c), Ins(c), Zeros(Len(prev)), Zeros(Len(next)))
           /\ SameOrder(prev, next, K) => Places(Del(c), Ins(c), prev, next)
           /\ \A j \in 1 .. Len(c.moves) :
                /\ c.moves[j].from \in Del(c) /\ c.moves[j].to \in Ins(c)
                /\ c.moves[j].from \in 0 .. Len(prev) - 1 /\ c.moves[j].to \in 0 .. Len(next) - 1
                /\ prev[c.moves[j].from + 1] = next[c.moves[j].to + 1]
<1>1. Keeping(prev, next, Both(prev, next))
  BY OthersBoth
<1>2. Keeping(prev, next, K)
  BY <1>1 DEF Keeping, Reckoned, Once
<1>3. Del(c) = Others(prev, K) /\ Ins(c) = Others(next, K)
  BY DEF Reckoned
<1>4. Places(Others(prev, K), Others(next, K), Zeros(Len(prev)), Zeros(Len(next)))
  BY <1>2, KeepingCounts
<1>5. SameOrder(prev, next, K) => Places(Others(prev, K), Others(next, K), prev, next)
  BY <1>2, KeepingPlaces
<1>6. ASSUME NEW j \in 1 .. Len(c.moves)
      PROVE  /\ c.moves[j].from \in Others(prev, K) /\ c.moves[j].to \in Others(next, K)
             /\ c.moves[j].from \in 0 .. Len(prev) - 1 /\ c.moves[j].to \in 0 .. Len(next) - 1
             /\ prev[c.moves[j].from + 1] = next[c.moves[j].to + 1]
  <2>1. /\ c.moves[j].from \in 0 .. Len(prev) - 1 /\ c.moves[j].to \in 0 .. Len(next) - 1
        /\ prev[c.moves[j].from + 1] = next[c.moves[j].to + 1]
        /\ next[c.moves[j].to + 1] \notin K
    BY DEF Reckoned
  <2> QED
    BY <2>1 DEF Others
<1> QED
  BY <1>3, <1>4, <1>5, <1>6

(***************************************************************************)
(* The numbers a run of the worker gives the old and the new result: equal *)
(* numbers mean equal rows.                                                *)
(***************************************************************************)

-----------------------------------------------------------------------------
(* The changes of a query, from its rows' numbers.                          *)

\* FoundAt finds the only place of a row, or npos.
LEMMA FoundIs ==
    ASSUME NEW new \in Seq(Nat), NoRepeats(new), NEW row
    PROVE  /\ row \in ToSet(new) => /\ FoundAt(new, row) \in 0 .. Len(new) - 1
                                    /\ new[FoundAt(new, row) + 1] = row
           /\ row \notin ToSet(new) => FoundAt(new, row) = NPos
<1>1. CASE row \in ToSet(new)
  <2>1. PICK p \in 1 .. Len(new) : row = new[p]
    BY <1>1 DEF ToSet
  <2>2. PosIn(new, row) = p - 1
    BY <2>1, PosInIs
  <2>3. FoundAt(new, row) = p - 1
    BY <1>1, <2>2 DEF FoundAt
  <2>4. Len(new) \in Nat
    OBVIOUS
  <2>5. p - 1 \in 0 .. Len(new) - 1 /\ (p - 1) + 1 = p
    BY <2>1, <2>4
  <2> QED
    BY <1>1, <2>1, <2>3, <2>5
<1>2. CASE row \notin ToSet(new)
  BY <1>2 DEF FoundAt
<1> QED
  BY <1>1, <1>2

\* A query's rows before and after, by their numbers in the table now.
Numbered(new, old, next, was, now) ==
    /\ new \in Seq(Nat) /\ NoRepeats(new)
    /\ old \in Seq(Nat) /\ NoRepeats(old)
    /\ next \in Seq(Nat) /\ NoRepeats(next) /\ ToSet(next) \subseteq ToSet(new)
    /\ was = [k \in DOMAIN old |-> FoundAt(new, old[k])]
    /\ now = [k \in DOMAIN next |-> PosIn(new, next[k])]
\* Equal numbers mean equal rows.
Agree(old, next, was, now) ==
    /\ Len(was) = Len(old) /\ Len(now) = Len(next)
    /\ \A x \in 0 .. Len(old) - 1, y \in 0 .. Len(next) - 1 :
         was[x + 1] = now[y + 1] <=> old[x + 1] = next[y + 1]

\* The numbers of the rows in the new table name the rows.
LEMMA NumbersAgree ==
    ASSUME NEW new, NEW old, NEW next, NEW was, NEW now, Numbered(new, old, next, was, now)
    PROVE  /\ InBoth(was, now) /\ Agree(old, next, was, now)
           /\ \A y \in 0 .. Len(next) - 1 : /\ now[y + 1] \in 0 .. Len(new) - 1
                                            /\ new[now[y + 1] + 1] = next[y + 1]
<1>1. /\ new \in Seq(Nat) /\ NoRepeats(new) /\ old \in Seq(Nat) /\ NoRepeats(old)
      /\ next \in Seq(Nat) /\ NoRepeats(next) /\ ToSet(next) \subseteq ToSet(new)
  BY DEF Numbered
<1>2. /\ DOMAIN old = 1 .. Len(old) /\ DOMAIN next = 1 .. Len(next)
      /\ Len(old) \in Nat /\ Len(next) \in Nat /\ Len(new) \in Nat
  BY <1>1
<1>3. was = [k \in 1 .. Len(old) |-> FoundAt(new, old[k])] /\ now = [k \in 1 .. Len(next) |-> FoundAt(new, next[k])]
  <2>1. was = [k \in 1 .. Len(old) |-> FoundAt(new, old[k])] /\ now = [k \in 1 .. Len(next) |-> PosIn(new, next[k])]
    BY <1>2 DEF Numbered
  <2>2. \A k \in 1 .. Len(next) : PosIn(new, next[k]) = FoundAt(new, next[k])
    BY <1>1, <1>2 DEF FoundAt, ToSet
  <2> QED
    BY <2>1, <2>2
<1>4. \A row : row \in ToSet(new) => FoundAt(new, row) \in 0 .. Len(new) - 1 /\ new[FoundAt(new, row) + 1] = row
  BY <1>1, FoundIs
<1>5. \A row : row \notin ToSet(new) => FoundAt(new, row) = NPos
  BY <1>1, FoundIs
<1>6. \A row : FoundAt(new, row) \in Int
  <2>1. NPos \in Int
    BY DEF NPos
  <2>2. \A i : i \in 0 .. Len(new) - 1 => i \in Int
    OBVIOUS
  <2> QED
    BY <1>4, <1>5, <2>1, <2>2
<1>7. \A row, other : FoundAt(new, row) \in Nat /\ FoundAt(new, row) = FoundAt(new, other) => row = other
  <2>1. NPos \notin Nat
    BY DEF NPos
  <2> QED
    BY <1>4, <1>5, <2>1
<1>8. \A k \in 1 .. Len(next) : next[k] \in ToSet(new)
  BY <1>1, <1>2 DEF ToSet
<1>9. was \in Seq(Int) /\ Len(was) = Len(old) /\ \A k \in 1 .. Len(old) : was[k] = FoundAt(new, old[k])
  BY <1>2, <1>3, <1>6
<1>10. \A k \in 1 .. Len(next) : FoundAt(new, next[k]) \in 0 .. Len(new) - 1
  BY <1>4, <1>8
<1>11. now \in Seq(Nat) /\ Len(now) = Len(next) /\ \A k \in 1 .. Len(next) : now[k] = FoundAt(new, next[k])
  BY <1>2, <1>3, <1>10
<1> HIDE DEF FoundAt, NPos
<1>12. Once(was, Nat)
  BY <1>1, <1>7, <1>9 DEF Once, NoRepeats
<1>13. Once(now, Nat)
  BY <1>1, <1>7, <1>11 DEF Once, NoRepeats
<1>14. InBoth(was, now)
  BY <1>9, <1>11, <1>12, <1>13 DEF InBoth
<1>15. ASSUME NEW x \in 0 .. Len(old) - 1, NEW y \in 0 .. Len(next) - 1
       PROVE  was[x + 1] = now[y + 1] <=> old[x + 1] = next[y + 1]
  <2>1. x + 1 \in 1 .. Len(old) /\ y + 1 \in 1 .. Len(next)
    BY <1>2
  <2>2. was[x + 1] = FoundAt(new, old[x + 1]) /\ now[y + 1] = FoundAt(new, next[y + 1])
    BY <1>9, <1>11, <2>1
  <2>3. FoundAt(new, next[y + 1]) \in Nat
    BY <1>10, <2>1
  <2> QED
    BY <1>7, <2>2, <2>3
<1>16. ASSUME NEW y \in 0 .. Len(next) - 1
       PROVE  now[y + 1] \in 0 .. Len(new) - 1 /\ new[now[y + 1] + 1] = next[y + 1]
  <2>1. y + 1 \in 1 .. Len(next)
    BY <1>2
  <2> QED
    BY <1>4, <1>8, <1>11, <2>1
<1> QED
  BY <1>9, <1>11, <1>14, <1>15, <1>16 DEF Agree

(***************************************************************************)
(* What calculate gives is right for the results those numbers stand for.  *)
(***************************************************************************)

\* Changes reckoned from the numbers are right for the rows.
LEMMA ReckonedRight ==
    ASSUME NEW c, NEW new, NEW old, NEW next, NEW was, NEW now, Numbered(new, old, next, was, now),
           NEW changed, NEW K, Reckoned(c, was, now, changed, K)
    PROVE  /\ c \in Builders
           /\ ListRight(c, Zeros(Len(old)), Zeros(Len(next)))
           /\ SameOrder(was, now, K) => ListRight(c, old, next)
<1>1. InBoth(was, now) /\ Agree(old, next, was, now)
  BY NumbersAgree
<1>2. /\ Len(was) = Len(old) /\ Len(now) = Len(next)
      /\ \A x \in 0 .. Len(old) - 1, y \in 0 .. Len(next) - 1 : was[x + 1] = now[y + 1] <=> old[x + 1] = next[y + 1]
  BY <1>1 DEF Agree
<1>3. c \in Builders /\ Apart(c.moves)
  BY DEF Reckoned
<1>4. /\ Places(Del(c), Ins(c), Zeros(Len(was)), Zeros(Len(now)))
      /\ SameOrder(was, now, K) => Places(Del(c), Ins(c), was, now)
      /\ \A j \in 1 .. Len(c.moves) :
           /\ c.moves[j].from \in Del(c) /\ c.moves[j].to \in Ins(c)
           /\ c.moves[j].from \in 0 .. Len(was) - 1 /\ c.moves[j].to \in 0 .. Len(now) - 1
           /\ was[c.moves[j].from + 1] = now[c.moves[j].to + 1]
  BY <1>1, ReckonedPlaces
<1>5. Len(old) \in Nat /\ Len(next) \in Nat
  BY DEF Numbered
<1>6. Known(c.moves, Del(c), Ins(c), old, next)
  BY <1>2, <1>4 DEF Known
<1>7. Known(c.moves, Del(c), Ins(c), Zeros(Len(old)), Zeros(Len(next)))
  <2> SUFFICES ASSUME NEW j \in 1 .. Len(c.moves)
               PROVE  /\ c.moves[j].from \in Del(c) /\ c.moves[j].to \in Ins(c)
                      /\ Zeros(Len(old))[c.moves[j].from + 1] = Zeros(Len(next))[c.moves[j].to + 1]
    BY DEF Known
  <2>1. /\ c.moves[j].from \in Del(c) /\ c.moves[j].to \in Ins(c)
        /\ c.moves[j].from \in 0 .. Len(old) - 1 /\ c.moves[j].to \in 0 .. Len(next) - 1
    BY <1>2, <1>4
  <2>2. ASSUME NEW x \in 0 .. Len(old) - 1, NEW y \in 0 .. Len(next) - 1
        PROVE  Zeros(Len(old))[x + 1] = Zeros(Len(next))[y + 1]
    <3>1. /\ \A k \in 1 .. Len(old) : Zeros(Len(old))[k] = 0
          /\ \A k \in 1 .. Len(next) : Zeros(Len(next))[k] = 0
      BY <1>5, ZerosAre
    <3>2. x + 1 \in 1 .. Len(old) /\ y + 1 \in 1 .. Len(next)
      BY <1>5
    <3> QED
      BY <3>1, <3>2
  <2> QED
    BY <2>1, <2>2
<1>8. ListRight(c, Zeros(Len(old)), Zeros(Len(next)))
  BY <1>2, <1>3, <1>4, <1>7 DEF ListRight
<1>9. SameOrder(was, now, K) => ListRight(c, old, next)
  <2> HAVE SameOrder(was, now, K)
  <2>1. Places(Del(c), Ins(c), was, now)
    BY <1>4
  <2>2. Places(Del(c), Ins(c), old, next)
    BY <1>2, <2>1 DEF Places
  <2> QED
    BY <1>3, <1>6, <2>2 DEF ListRight
<1> QED
  BY <1>3, <1>8, <1>9

\* The modified rows of the query are those of the table.
LEMMA ReckonedMods ==
    ASSUME NEW c, NEW new, NEW old, NEW next, NEW was, NEW now, Numbered(new, old, next, was, now),
           NEW changed, NEW K, Reckoned(c, was, now, changed, K),
           NEW F, \A i \in 0 .. Len(new) - 1 : i \in changed <=> new[i + 1] \in F
    PROVE  ModsIn(c, next, F) /\ ModsFound(c, next, F)
<1>1. InBoth(was, now) /\ Agree(old, next, was, now)
  BY NumbersAgree
<1>2. \A y \in 0 .. Len(next) - 1 : now[y + 1] \in 0 .. Len(new) - 1 /\ new[now[y + 1] + 1] = next[y + 1]
  BY NumbersAgree
<1>3. Len(now) = Len(next)
  BY <1>1 DEF Agree
<1>4. /\ K \subseteq Both(was, now) /\ Ins(c) = Others(now, K)
      /\ Mod(c) = RowsIn(now, ToSet(was) \cap changed)
      /\ \A j \in 1 .. Len(c.moves) : now[c.moves[j].to + 1] \in Both(was, now) \ K
  BY DEF Reckoned
<1>5. \A y : y \in Mod(c) <=> y \in 0 .. Len(next) - 1 /\ now[y + 1] \in ToSet(was) /\ now[y + 1] \in changed
  BY <1>3, <1>4 DEF RowsIn
<1>6. \A y \in 0 .. Len(next) - 1 : now[y + 1] \in changed <=> next[y + 1] \in F
  BY <1>2
<1>7. ModsIn(c, next, F)
  BY <1>5, <1>6 DEF ModsIn
<1>8. ASSUME NEW y \in 0 .. Len(next) - 1, next[y + 1] \in F, Found(c, y) PROVE y \in Mod(c)
  <2>1. now[y + 1] \in Both(was, now)
    <3>1. CASE y \notin Ins(c)
      BY <1>3, <1>4, <3>1 DEF Others
    <3>2. CASE \E k \in 1 .. Len(c.moves) : c.moves[k].to = y
      BY <1>4, <3>2
    <3> QED
      BY <1>8, <3>1, <3>2 DEF Found
  <2>2. now[y + 1] \in ToSet(was)
    BY <2>1 DEF Both
  <2> QED
    BY <1>5, <1>6, <1>8, <2>2
<1> QED
  BY <1>7, <1>8 DEF ModsFound

\* What is right for the rows is right for the positions alone.
LEMMA RightZeros ==
    ASSUME NEW c \in Builders, NEW old \in Seq(Nat), NEW new \in Seq(Nat), ListRight(c, old, new)
    PROVE  ListRight(c, Zeros(Len(old)), Zeros(Len(new)))
<1> DEFINE o == Zeros(Len(old))
           n == Zeros(Len(new))
<1>1. /\ o \in Seq(Nat) /\ Len(o) = Len(old) /\ \A k \in 1 .. Len(old) : o[k] = 0
      /\ n \in Seq(Nat) /\ Len(n) = Len(new) /\ \A k \in 1 .. Len(new) : n[k] = 0
  BY ZerosAre
<1>2. /\ Places(Del(c), Ins(c), old, new) /\ Known(c.moves, Del(c), Ins(c), old, new) /\ Apart(c.moves)
  BY DEF ListRight
<1> HIDE DEF o, n
<1>3. Len(old) \in Nat /\ Len(new) \in Nat
  OBVIOUS
<1>4. \A x \in 0 .. Len(old) - 1, y \in 0 .. Len(new) - 1 : o[x + 1] = n[y + 1]
  BY <1>1, <1>3
<1>5. Places(Del(c), Ins(c), o, n)
  BY <1>1, <1>2, <1>4 DEF Places
<1>6. Known(c.moves, Del(c), Ins(c), o, n)
  <2>1. Del(c) \subseteq 0 .. Len(old) - 1 /\ Ins(c) \subseteq 0 .. Len(new) - 1
    BY <1>2 DEF Places
  <2>2. \A k \in 1 .. Len(c.moves) : c.moves[k].from \in Del(c) /\ c.moves[k].to \in Ins(c)
    BY <1>2 DEF Known
  <2> QED
    BY <1>4, <2>1, <2>2 DEF Known
<1> QED
  BY <1>2, <1>5, <1>6 DEF ListRight, o, n

\* The changes of a list at the end of its log.
LEMMA ListEnds ==
    ASSUME NEW b \in Builders, NEW old \in Seq(Nat), NEW new \in Seq(Nat), ListRight(b, old, new)
    PROVE  LET c == CleanUpStaleMoves(b)
           IN  c \in Builders /\ Mod(c) = Mod(b) /\ ListRight(c, old, new)
<1> DEFINE c == CleanUpStaleMoves(b)
<1>1. /\ Places(Del(b), Ins(b), old, new) /\ Known(b.moves, Del(b), Ins(b), old, new) /\ Apart(b.moves)
  BY DEF ListRight
<1>2. /\ c \in Builders /\ c.modifications = b.modifications
      /\ Places(Del(c), Ins(c), old, new) /\ Known(c.moves, Del(c), Ins(c), old, new)
  BY <1>1, CleanedIs
<1>3. CleanedFrom(b, Len(b.moves), c)
  BY <1>1, CleanedFromIs
<1> HIDE DEF c
<1>4. Apart(c.moves)
  BY <1>3 DEF CleanedFrom
<1> QED
  BY <1>2, <1>4 DEF ListRight, Mod, c

(***************************************************************************)
(* What a query can find, and that it is steady when no row passed one     *)
(* that kept its number.                                                   *)
(***************************************************************************)

-----------------------------------------------------------------------------
(* What a query returns.                                                    *)

\* An order of a set of rows.
LEMMA OrdersAre ==
    ASSUME NEW S, S \subseteq Nat, IsFiniteSet(S), NEW s \in Orders(S)
    PROVE  s \in Seq(Nat) /\ Len(s) = Cardinality(S) /\ NoRepeats(s) /\ ToSet(s) = S
<1> DEFINE k == Cardinality(S)
<1>0. k \in Nat
  BY FS_CardinalityType
<1>1. s \in [1 .. k -> S] /\ ToSet(s) = S
  BY DEF Orders
<1> HIDE DEF k
<1>2. s \in [1 .. k -> Nat]
  BY <1>1
<1>3. s \in Seq(Nat) /\ Len(s) = k /\ DOMAIN s = 1 .. k
  BY <1>0, <1>2
<1>4. \A r \in S : \E p \in 1 .. k : s[p] = r
  BY <1>1, <1>3 DEF ToSet
<1>5. s \in Surjection(1 .. k, S)
  BY <1>1, <1>4 DEF Surjection
<1>6. IsFiniteSet(1 .. k) /\ Cardinality(1 .. k) = Cardinality(S)
  BY <1>0, FS_Interval DEF k
<1>7. s \in Injection(1 .. k, S)
  BY ONLY <1>5, <1>6, FS_SurjSameCardinalityImpliesInj
<1>8. \A i, j \in 1 .. k : s[i] = s[j] => i = j
  BY ONLY <1>7 DEF Injection, IsInjective
<1>9. NoRepeats(s)
  BY <1>3, <1>8 DEF NoRepeats
<1> QED
  BY <1>1, <1>3, <1>9 DEF k

\* The rows of s in the order of the table t.
InTableOrder(t, s) == \A i, j \in DOMAIN s : i < j => PosIn(t, s[i]) < PosIn(t, s[j])

\* The collection after a run.
NextIs(next) ==
    /\ next \in Seq(Nat) /\ Len(next) <= MaxRows /\ NoRepeats(next)
    /\ ToSet(next) \subseteq ToSet(rows)
    /\ kind = "query" => InTableOrder(rows, next)
    /\ kind = "list" => next = rows

\* What the query can find.
LEMMA ResultIs ==
    ASSUME LogInv, kind # "linked", NEW next \in Results
    PROVE  NextIs(next)
<1>1. /\ rows \in Seq(Nat) /\ Len(rows) <= MaxRows /\ MaxRows \in Nat /\ NoRepeats(rows)
      /\ kind \in {"list", "query", "sorted", "linked"}
  BY LogRows
<1>2. next \in Seq(Nat) /\ Len(next) <= MaxRows
  BY ResultsAre
<1>3. CASE kind = "list"
  <2>1. Results = {rows}
    BY <1>3 DEF Results
  <2> QED
    BY <1>1, <1>2, <1>3, <2>1 DEF NextIs
<1>4. CASE kind \in {"query", "sorted"}
  <2>1. next \in UNION {Orders(S) : S \in SUBSET ToSet(rows)}
    <3>1. CASE kind = "query"
      BY <3>1, Zenon DEF Results
    <3>2. CASE kind = "sorted"
      BY <3>2, Zenon DEF Results
    <3> QED
      BY <1>4, <3>1, <3>2
  <2>2. PICK S \in SUBSET ToSet(rows) : next \in Orders(S)
    BY <2>1
  <2>3. IsFiniteSet(ToSet(rows)) /\ ToSet(rows) \subseteq Nat
    BY <1>1, FewRows DEF Few
  <2>4. IsFiniteSet(S) /\ S \subseteq Nat
    BY <2>3, FS_Subset
  <2>5. NoRepeats(next) /\ ToSet(next) = S
    BY ONLY <2>2, <2>4, OrdersAre
  <2>6. kind = "query" => InTableOrder(rows, next)
    <3> HAVE kind = "query"
    <3>1. \A i, j \in DOMAIN next : i < j => PosIn(rows, next[i]) < PosIn(rows, next[j])
      BY Zenon DEF Results
    <3> QED
      BY <3>1 DEF InTableOrder
  <2> QED
    BY <1>2, <1>4, <2>2, <2>5, <2>6 DEF NextIs
<1> QED
  BY <1>1, <1>3, <1>4

\* Where a row is, and that no other row is there.
LEMMA PosInAt ==
    ASSUME NEW s \in Seq(Nat), NoRepeats(s), NEW row \in ToSet(s)
    PROVE  PosIn(s, row) \in 0 .. Len(s) - 1 /\ s[PosIn(s, row) + 1] = row
<1>1. FoundAt(s, row) = PosIn(s, row)
  BY DEF FoundAt
<1> QED
  BY <1>1, FoundIs

\* If no row went past one that kept its number, the rows that are no
\* candidates of calculate keep their order.
LEMMA SteadyIs ==
    ASSUME start \in Seq(Nat), rows \in Seq(Nat), NoRepeats(start),
           NEW next, NEW was, NEW now, Numbered(rows, view, next, was, now), ToSet(view) \subseteq ToSet(start),
           InTableOrder(start, view), InTableOrder(rows, next), ~Passes(next),
           NEW candidates, NEW D, StayPut(start, rows, D, Members(candidates))
    PROVE  Steady(was, now, candidates)
<1> DEFINE I == Members(candidates)
<1>1. /\ rows \in Seq(Nat) /\ NoRepeats(rows) /\ view \in Seq(Nat) /\ NoRepeats(view)
      /\ next \in Seq(Nat) /\ NoRepeats(next) /\ ToSet(next) \subseteq ToSet(rows)
  BY DEF Numbered
<1>2. /\ DOMAIN view = 1 .. Len(view) /\ DOMAIN next = 1 .. Len(next)
      /\ Len(view) \in Nat /\ Len(next) \in Nat /\ Len(rows) \in Nat /\ Len(start) \in Nat
  BY <1>1
<1>3. /\ Len(was) = Len(view) /\ Len(now) = Len(next)
      /\ \A x \in 0 .. Len(view) - 1, y \in 0 .. Len(next) - 1 : was[x + 1] = now[y + 1] <=> view[x + 1] = next[y + 1]
  BY NumbersAgree DEF Agree
<1>4. \A z \in Nat : /\ z < Len(start) /\ z \notin D => z < Len(rows) /\ z \notin I /\ rows[z + 1] = start[z + 1]
                     /\ z < Len(rows) /\ z \notin I => z < Len(start) /\ z \notin D
  BY DEF StayPut
<1> HIDE DEF I
<1> SUFFICES ASSUME NEW x \in 0 .. Len(view) - 1, NEW z \in 0 .. Len(view) - 1,
                    NEW p \in 0 .. Len(next) - 1, NEW q \in 0 .. Len(next) - 1,
                    was[x + 1] = now[p + 1], was[z + 1] = now[q + 1], now[q + 1] \notin I, x < z
             PROVE  p < q
  BY <1>3 DEF Steady, I
<1>5. /\ x + 1 \in 1 .. Len(view) /\ z + 1 \in 1 .. Len(view) /\ x + 1 < z + 1
      /\ p + 1 \in 1 .. Len(next) /\ q + 1 \in 1 .. Len(next)
  BY <1>2
<1> DEFINE r == view[x + 1]
           o == view[z + 1]
           n == PosIn(rows, o)
           m == PosIn(rows, r)
<1>6. next[p + 1] = r /\ next[q + 1] = o
  BY <1>3
<1>7. r \in ToSet(view) /\ o \in ToSet(view) /\ r \in ToSet(next) /\ o \in ToSet(next)
  BY <1>2, <1>5, <1>6 DEF ToSet
<1>8. r # o
  BY <1>1, <1>2, <1>5 DEF NoRepeats
<1>9. PosIn(start, r) < PosIn(start, o)
  BY <1>2, <1>5 DEF InTableOrder
<1>10. now[q + 1] = n
  <2>1. now = [k \in 1 .. Len(next) |-> PosIn(rows, next[k])]
    BY <1>2 DEF Numbered
  <2> QED
    BY <1>5, <1>6, <2>1
<1> HIDE DEF r, o
<1>11. n \in 0 .. Len(rows) - 1 /\ rows[n + 1] = o /\ m \in 0 .. Len(rows) - 1 /\ rows[m + 1] = r
  <2>1. r \in ToSet(rows) /\ o \in ToSet(rows)
    BY <1>1, <1>7
  <2> QED
    BY <1>1, <2>1, PosInAt
<1> HIDE DEF n, m
<1>12. n \notin I
  BY <1>10
<1>13. n \in Nat /\ n < Len(rows)
  BY <1>2, <1>11
<1>14. n < Len(start) /\ start[n + 1] = o
  <2>1. n < Len(start) /\ n \notin D
    BY <1>4, <1>12, <1>13
  <2>2. rows[n + 1] = start[n + 1]
    BY <1>4, <1>13, <2>1
  <2> QED
    BY <1>11, <2>1, <2>2
<1>15. PosIn(start, o) = n
  <2>1. n + 1 \in 1 .. Len(start) /\ (n + 1) - 1 = n
    BY <1>2, <1>13, <1>14
  <2> QED
    BY <1>14, <2>1, PosInIs
<1>16. ~(n < m)
  BY <1>7, <1>9, <1>15 DEF Passes, n, m
<1>17. m < n
  BY <1>8, <1>11, <1>13, <1>16
<1>18. \A i, j \in 1 .. Len(next) : i < j => PosIn(rows, next[i]) < PosIn(rows, next[j])
  BY <1>2 DEF InTableOrder
<1>19. ~(q + 1 < p + 1)
  <2> SUFFICES ASSUME q + 1 < p + 1 PROVE FALSE
    OBVIOUS
  <2>1. PosIn(rows, next[q + 1]) < PosIn(rows, next[p + 1])
    BY <1>5, <1>18
  <2>2. n < m
    BY <1>6, <2>1 DEF n, m
  <2> QED
    BY <1>16, <2>2
<1>20. p # q
  BY <1>6, <1>8
<1> QED
  BY <1>19, <1>20

(***************************************************************************)
(* A run of the worker, for a list and for a query.                        *)
(***************************************************************************)

-----------------------------------------------------------------------------
(* The changes of one run.                                                  *)

\* What the changes of a run are, of which add_changes is told.
RunChange(next) == IF kind = "list" THEN Parsed ELSE QueryChange(next)

\* They are right for the rows, if none has passed one that kept its number,
\* and for the positions in any case.
RunRight(next, passing) ==
    /\ RunChange(next) \in Builders
    /\ ListRight(RunChange(next), Zeros(Len(view)), Zeros(Len(next)))
    /\ ModsIn(RunChange(next), next, fresh) /\ ModsFound(RunChange(next), next, fresh)
    /\ ~passing => ListRight(RunChange(next), view, next)

\* Right modifications are those of the rows that were changed.
LEMMA ModsRightIn ==
    ASSUME NEW b, NEW c, Mod(c) = Mod(b), NEW s, NEW F, ModsRight(b, s, F)
    PROVE  ModsIn(c, s, F) /\ ModsFound(c, s, F)
<1>1. /\ Mod(b) \subseteq 0 .. Len(s) - 1
      /\ \A x \in 0 .. Len(s) - 1 : x \in Mod(b) <=> s[x + 1] \in F
  BY DEF ModsRight
<1>2. ModsIn(c, s, F)
  BY <1>1 DEF ModsIn
<1> QED
  BY <1>1, <1>2 DEF ModsFound

\* What a run for a list hands over.
LEMMA ListRunRight ==
    ASSUME LogInv, kind = "list", view = start, NEW next, NextIs(next)
    PROVE  RunRight(next, FALSE)
<1>1. /\ start \in Seq(Nat) /\ rows \in Seq(Nat) /\ change \in Builders
      /\ ModsRight(change, rows, fresh) /\ ListRight(change, start, rows)
  BY LogRows
<1> DEFINE c == CleanUpStaleMoves(change)
<1>2. c \in Builders /\ Mod(c) = Mod(change) /\ ListRight(c, start, rows)
  BY <1>1, ListEnds
<1>3. RunChange(next) = c
  BY DEF RunChange, Parsed, Table
<1> HIDE DEF c
<1>4. ModsIn(c, rows, fresh) /\ ModsFound(c, rows, fresh)
  BY <1>1, <1>2, ModsRightIn
<1>5. ListRight(c, Zeros(Len(start)), Zeros(Len(rows)))
  BY <1>1, <1>2, RightZeros
<1>6. next = rows
  BY DEF NextIs
<1> QED
  BY <1>2, <1>3, <1>4, <1>5, <1>6 DEF RunRight

\* What Parsed is for a table.
ParsedRight(D) ==
    /\ Parsed.modifications = change.modifications /\ Parsed.insertions \in Ranges
    /\ StayPut(start, rows, D, Members(Parsed.insertions))
    /\ \A o \in 0 .. Len(start) - 1 : NumberNow(Parsed, o) = FoundAt(rows, start[o + 1])

\* The numbers a run for a query looks up are those of the new table.
LEMMA ParsedForTable ==
    ASSUME LogInv, kind \in {"query", "sorted"}
    PROVE  \E D : ParsedRight(D)
<1>1. /\ start \in Seq(Nat) /\ rows \in Seq(Nat) /\ change \in Builders /\ NoRepeats(rows)
      /\ TableRight(change, start, rows)
  BY LogRows
<1>2. NoRepeats(start)
  BY DEF LogInv, RowsRight
<1> DEFINE c == ParseComplete(change)
           D == Del(change) \ Staying(change)
           I == Ins(change) \ Staying(change)
<1>3. /\ c.modifications = change.modifications /\ c.insertions \in Ranges
      /\ Ins(c) = I
  BY <1>1, <1>2, ParsedTableIs
<1>4. \A o \in 0 .. Len(start) - 1 : NumberNow(c, o) = FoundAt(rows, start[o + 1])
  BY <1>1, <1>2, TableNumbers
<1>5. Parsed = c
  BY DEF Parsed, Table
<1> HIDE DEF c, D, I
<1>6. StayPut(start, rows, D, I)
  BY ONLY <1>1, <1>2, D = Del(change) \ Staying(change), I = Ins(change) \ Staying(change), TableStays, Zenon DEF D, I
<1>7. Members(c.insertions) = I
  BY <1>3 DEF Ins
<1> QED
  BY <1>3, <1>4, <1>5, <1>6, <1>7 DEF ParsedRight

\* What a run for a query hands over.
LEMMA QueryRunRight ==
    ASSUME LogInv, kind \in {"query", "sorted"}, NoRepeats(view), ToSet(view) \subseteq ToSet(start),
           kind = "query" => InTableOrder(start, view), NEW next, NextIs(next)
    PROVE  RunRight(next, kind = "query" /\ Passes(next))
<1>1. /\ start \in Seq(Nat) /\ rows \in Seq(Nat) /\ change \in Builders /\ NoRepeats(rows)
      /\ ModsRight(change, rows, fresh) /\ Len(rows) \in Nat
  BY LogRows
<1>2. NoRepeats(start) /\ view \in Seq(Nat)
  BY DEF LogInv, RowsRight
<1>3. /\ next \in Seq(Nat) /\ NoRepeats(next) /\ ToSet(next) \subseteq ToSet(rows)
      /\ kind = "query" => InTableOrder(rows, next)
  BY DEF NextIs
<1>4. PICK D : ParsedRight(D)
  BY ParsedForTable
<1> DEFINE was == [k \in DOMAIN view |-> FoundAt(rows, view[k])]
           now == [k \in DOMAIN next |-> PosIn(rows, next[k])]
           changed == {i \in Positions : InSet(Parsed.modifications, i)}
           c == Calculate(was, now, changed, Parsed.insertions, kind = "query")
<1>5. Numbered(rows, view, next, was, now)
  BY <1>1, <1>2, <1>3 DEF Numbered
<1>6. QueryChange(next) = c
  <2>1. \A k \in DOMAIN view : NumberNow(Parsed, PosIn(start, view[k])) = FoundAt(rows, view[k])
    <3> TAKE k \in DOMAIN view
    <3>1. view[k] \in ToSet(start)
      BY <1>2 DEF ToSet
    <3>2. PosIn(start, view[k]) \in 0 .. Len(start) - 1 /\ start[PosIn(start, view[k]) + 1] = view[k]
      BY <1>1, <1>2, <3>1, PosInAt
    <3> QED
      BY <1>4, <3>2 DEF ParsedRight
  <2>2. was = [k \in DOMAIN view |-> NumberNow(Parsed, PosIn(start, view[k]))]
    BY <2>1
  <2> QED
    BY <2>2 DEF QueryChange
<1>7. InBoth(was, now)
  BY <1>5, NumbersAgree
<1>8. Parsed.insertions \in Ranges /\ Parsed.modifications = change.modifications
      /\ StayPut(start, rows, D, Members(Parsed.insertions))
  BY <1>4 DEF ParsedRight
<1>9. \A i \in 0 .. Len(rows) - 1 : i \in changed <=> rows[i + 1] \in fresh
  <2>1. change.modifications \in Ranges
    BY <1>1 DEF Builders
  <2>2. \A i \in 0 .. Len(rows) - 1 : InSet(Parsed.modifications, i) <=> i \in Mod(change)
    BY <1>8, <2>1, InSetMeans DEF Mod
  <2> QED
    BY <1>1, <2>2 DEF ModsRight, Positions
<1> HIDE DEF was, now, changed
<1>10. Calculated(c, was, now, changed, Parsed.insertions, kind = "query")
  BY <1>7, <1>8, CalculateIs
<1> HIDE DEF c
<1>11. PICK K : /\ Reckoned(c, was, now, changed, K)
                /\ ~(kind = "query") \/ Steady(was, now, Parsed.insertions) => SameOrder(was, now, K)
  BY <1>10 DEF Calculated
<1>12. /\ c \in Builders
       /\ ListRight(c, Zeros(Len(view)), Zeros(Len(next)))
       /\ SameOrder(was, now, K) => ListRight(c, view, next)
  BY <1>5, <1>11, ReckonedRight
<1>13. ModsIn(c, next, fresh) /\ ModsFound(c, next, fresh)
  BY <1>5, <1>9, <1>11, ReckonedMods
<1>14. kind = "query" /\ ~Passes(next) => Steady(was, now, Parsed.insertions)
  BY <1>1, <1>2, <1>3, <1>5, <1>8, SteadyIs
<1>15. ~(kind = "query" /\ Passes(next)) => ListRight(c, view, next)
  BY <1>11, <1>12, <1>14
<1>16. RunChange(next) = c
  BY <1>6 DEF RunChange
<1> QED
  BY <1>12, <1>13, <1>15, <1>16 DEF RunRight

(***************************************************************************)
(* The invariant of the runs: the merged change is right on rows until a   *)
(* query result had a row passed, and on positions always.                 *)
(***************************************************************************)

-----------------------------------------------------------------------------
(* The changes of several runs.                                             *)

\* What the merged change is worth.
TotalRight ==
    /\ total \in Builders
    /\ ListRight(total, Zeros(Len(shown)), Zeros(Len(view)))
    /\ Mod(total) \subseteq 0 .. Len(view) - 1
    /\ ~passed => /\ ListRight(total, shown, view)
                  /\ ModsIn(total, view, touched)
                  /\ ModsFound(total, view, touched)
\* The invariant of the runs.
RunInv ==
    /\ NoRepeats(view) /\ NoRepeats(shown)
    /\ ToSet(view) \subseteq ToSet(start)
    /\ kind = "query" => InTableOrder(start, view)
    /\ kind = "list" => view = start
    /\ passed \in BOOLEAN
    /\ TotalRight

\* It holds at first,
LEMMA RunInvInit == Init => RunInv
<1> SUFFICES ASSUME Init PROVE RunInv
  OBVIOUS
<1>1. LogInv
  BY LogInvInit
<1>2. /\ start \in Seq(Nat) /\ view = start /\ shown = start /\ NoRepeats(start)
      /\ touched = {} /\ total = NoChange /\ passed = FALSE
  BY <1>1 DEF Init, LogInv, RowsRight
<1>3. NoChange \in Builders /\ ModsRight(NoChange, start, {}) /\ ListRight(NoChange, start, start)
  BY <1>2, EmptyLog
<1>4. ListRight(NoChange, Zeros(Len(start)), Zeros(Len(start)))
  BY <1>2, <1>3, RightZeros
<1>5. ModsIn(NoChange, start, {}) /\ ModsFound(NoChange, start, {})
  BY <1>3, ModsRightIn
<1>6. InTableOrder(start, start)
  <2>1. DOMAIN start = 1 .. Len(start) /\ Len(start) \in Nat
    BY <1>2
  <2>2. \A i \in 1 .. Len(start) : PosIn(start, start[i]) = i - 1
    BY <1>2, PosInIs
  <2> QED
    BY <2>1, <2>2 DEF InTableOrder
<1>7. TotalRight
  BY <1>2, <1>3, <1>4, <1>5 DEF TotalRight, ModsIn
<1> QED
  BY <1>2, <1>6, <1>7 DEF RunInv

\* Merging keeps what is right.
LEMMA MergedRun ==
    ASSUME LogInv, TotalRight, NEW next, NextIs(next), NEW passing \in BOOLEAN, RunRight(next, passing),
           NEW g, g = Merge(total, RunChange(next)), NEW H, H = (touched \cup fresh) \cap ToSet(rows)
    PROVE  /\ g \in Builders
           /\ ListRight(g, Zeros(Len(shown)), Zeros(Len(next)))
           /\ Mod(g) \subseteq 0 .. Len(next) - 1
           /\ ~passed /\ ~passing => ListRight(g, shown, next) /\ ModsIn(g, next, H) /\ ModsFound(g, next, H)
<1> DEFINE c == RunChange(next)
           z1 == Zeros(Len(shown))
           z2 == Zeros(Len(view))
           z3 == Zeros(Len(next))
<1>1. /\ shown \in Seq(Nat) /\ view \in Seq(Nat) /\ next \in Seq(Nat) /\ ToSet(next) \subseteq ToSet(rows)
  BY DEF LogInv, RowsRight, NextIs
<1>2. Len(shown) \in Nat /\ Len(view) \in Nat /\ Len(next) \in Nat
  BY <1>1
<1>3. z1 \in Seq(Nat) /\ z2 \in Seq(Nat) /\ z3 \in Seq(Nat) /\ Len(z2) = Len(view) /\ Len(z3) = Len(next)
  BY <1>2, ZerosAre
<1>4. /\ c \in Builders /\ ListRight(c, z2, z3)
      /\ ModsIn(c, next, fresh) /\ ModsFound(c, next, fresh)
      /\ ~passing => ListRight(c, view, next)
  BY DEF RunRight
<1>5. /\ total \in Builders /\ ListRight(total, z1, z2) /\ Mod(total) \subseteq 0 .. Len(view) - 1
      /\ ~passed => ListRight(total, shown, view) /\ ModsIn(total, view, touched) /\ ModsFound(total, view, touched)
  BY DEF TotalRight
<1>6. g = Merge(total, c)
  OBVIOUS
<1>z. /\ \A y \in 0 .. Len(view) - 1 : z2[y + 1] \in {0}
      /\ \A y \in 0 .. Len(next) - 1 : z3[y + 1] \in {0}
  <2>1. /\ \A k \in 1 .. Len(view) : z2[k] = 0
        /\ \A k \in 1 .. Len(next) : z3[k] = 0
    BY <1>2, ZerosAre
  <2> QED
    BY <1>2, <2>1
<1> HIDE DEF c, z1, z2, z3
<1>7. Merge(total, c) \in Builders /\ ListRight(Merge(total, c), z1, z3)
  BY ONLY <1>3, <1>4, <1>5, MergeKeepsRight
<1>8. ModsIn(total, z2, {0}) /\ ModsIn(c, z3, {0})
  BY <1>3, <1>4, <1>5, <1>z DEF ModsIn
<1>9. \A y \in 0 .. Len(z3) - 1 : z3[y + 1] \in {0} \cup {0} => z3[y + 1] \in {0}
  OBVIOUS
<1>10. ModsIn(Merge(total, c), z3, {0})
  BY ONLY <1>3, <1>4, <1>5, <1>8, <1>9, MergeModsIn
<1>11. Mod(g) \subseteq 0 .. Len(next) - 1
  BY <1>3, <1>6, <1>10 DEF ModsIn
<1>12. ASSUME ~passed, ~passing
       PROVE  ListRight(g, shown, next) /\ ModsIn(g, next, H) /\ ModsFound(g, next, H)
  <2>1. ListRight(total, shown, view) /\ ListRight(c, view, next)
    BY <1>4, <1>5, <1>12
  <2>2. /\ ModsIn(total, view, touched) /\ ModsFound(total, view, touched)
        /\ ModsIn(c, next, fresh) /\ ModsFound(c, next, fresh)
    BY <1>4, <1>5, <1>12
  <2>3. ListRight(Merge(total, c), shown, next)
    BY ONLY <1>1, <1>4, <1>5, <2>1, MergeKeepsRight
  <2>4. \A y \in 0 .. Len(next) - 1 : next[y + 1] \in touched \cup fresh => next[y + 1] \in H
    <3>1. \A y \in 0 .. Len(next) - 1 : next[y + 1] \in ToSet(rows)
      <4>1. \A k \in 1 .. Len(next) : next[k] \in ToSet(rows)
        <5>1. \A k \in 1 .. Len(next) : next[k] \in ToSet(next)
          BY <1>1, ToSetIs
        <5> QED
          BY <1>1, <5>1
      <4> QED
        BY <1>2, <4>1
    <3> QED
      BY <3>1
  <2>5. H \subseteq touched \cup fresh
    OBVIOUS
  <2>6. ModsIn(Merge(total, c), next, H)
    BY ONLY <1>1, <1>4, <1>5, <2>1, <2>2, <2>4, MergeModsIn
  <2>7. ModsFound(Merge(total, c), next, H)
    BY ONLY <1>1, <1>4, <1>5, <2>1, <2>2, <2>5, MergeModsFound
  <2> QED
    BY <1>6, <2>3, <2>6, <2>7
<1> QED
  BY <1>6, <1>7, <1>11, <1>12 DEF z1, z3

\* a run keeps it,
LEMMA RunKeepsInv ==
    ASSUME LogInv, RunInv, Run PROVE RunInv'
<1>1. PICK next \in Results :
        /\ view' = next
        /\ total' = Merge(total, RunChange(next))
        /\ touched' = (touched \cup fresh) \cap ToSet(rows)
        /\ passed' = (passed \/ (kind = "query" /\ Passes(next)))
  BY DEF Run, RunChange
<1>2. kind # "linked" /\ start' = rows /\ shown' = shown /\ kind' = kind
  BY DEF Run
<1>3. /\ NoRepeats(view) /\ NoRepeats(shown) /\ ToSet(view) \subseteq ToSet(start)
      /\ kind = "query" => InTableOrder(start, view)
      /\ kind = "list" => view = start
      /\ passed \in BOOLEAN /\ TotalRight
  BY DEF RunInv
<1>4. NextIs(next)
  BY <1>2, ResultIs
<1> DEFINE passing == kind = "query" /\ Passes(next)
<1>5. RunRight(next, passing)
  <2>1. CASE kind = "list"
    <3>1. RunRight(next, FALSE)
      BY <1>3, <1>4, <2>1, ListRunRight
    <3>2. passing = FALSE
      BY <2>1
    <3> HIDE DEF passing
    <3> QED
      BY <3>1, <3>2
  <2>2. CASE kind \in {"query", "sorted"}
    BY <1>3, <1>4, <2>2, QueryRunRight
  <2>3. kind \in {"list", "query", "sorted", "linked"}
    BY LogRows
  <2> QED
    BY <1>2, <2>1, <2>2, <2>3
<1>6. passing \in BOOLEAN /\ passed' = (passed \/ passing)
  BY <1>1
<1> HIDE DEF passing
<1>7. /\ total' \in Builders
      /\ ListRight(total', Zeros(Len(shown)), Zeros(Len(next)))
      /\ Mod(total') \subseteq 0 .. Len(next) - 1
      /\ ~passed /\ ~passing => /\ ListRight(total', shown, next)
                                /\ ModsIn(total', next, touched') /\ ModsFound(total', next, touched')
  BY <1>1, <1>3, <1>4, <1>5, <1>6, MergedRun
<1>8. TotalRight'
  <2>1. ListRight(total', Zeros(Len(shown')), Zeros(Len(view')))
    BY <1>1, <1>2, <1>7
  <2>2. Mod(total') \subseteq 0 .. Len(view') - 1
    BY <1>1, <1>7
  <2>3. ~passed' => ListRight(total', shown', view') /\ ModsIn(total', view', touched') /\ ModsFound(total', view', touched')
    BY <1>1, <1>2, <1>3, <1>6, <1>7
  <2> QED
    BY <1>7, <2>1, <2>2, <2>3 DEF TotalRight, ListRight, ModsIn, ModsFound, Mod, Del, Ins, Found
<1>9. /\ NoRepeats(next) /\ ToSet(next) \subseteq ToSet(rows)
      /\ (kind = "query" => InTableOrder(rows, next)) /\ (kind = "list" => next = rows)
  BY <1>4 DEF NextIs
<1>10. NoRepeats(view') /\ NoRepeats(shown') /\ ToSet(view') \subseteq ToSet(start')
  BY <1>1, <1>2, <1>3, <1>9
<1>11. (kind' = "query" => InTableOrder(start', view')) /\ (kind' = "list" => view' = start')
  BY <1>1, <1>2, <1>9
<1> QED
  BY <1>3, <1>6, <1>8, <1>10, <1>11 DEF RunInv, NoRepeats, InTableOrder

\* An instruction changes nothing of it.
LEMMA ToldKeepsInv ==
    ASSUME RunInv, UNCHANGED <<kind, start, shown, view, touched, total, passed>>
    PROVE  RunInv'
<1>1. TotalRight'
  BY DEF RunInv, TotalRight, ListRight, ModsIn, ModsFound, Mod, Del, Ins, Found
<1> QED
  BY <1>1 DEF RunInv, NoRepeats, InTableOrder

\* and so does every step.
LEMMA RunInvNext == LogInv /\ RunInv /\ [Next]_vars => RunInv'
<1> SUFFICES ASSUME LogInv, RunInv, [Next]_vars PROVE RunInv'
  OBVIOUS
<1>1. CASE Run
  BY <1>1, RunKeepsInv
<1>2. CASE UNCHANGED vars
  BY <1>2, ToldKeepsInv DEF vars
<1>3. CASE Next /\ ~Run
  <2>1. UNCHANGED <<kind, start, shown, view, touched, total, passed>>
    BY <1>3 DEF Next, LinkListSet, LinkListSwap, LinkListInsert, LinkListErase, LinkListMove, LinkListClear,
         MarkDirty, InsertEmptyRows, EraseRows, SwapTableRows, MergeRows, ClearTable, Told
  <2> QED
    BY <2>1, ToldKeepsInv
<1> QED
  BY <1>1, <1>2, <1>3

-----------------------------------------------------------------------------
(* The change set of the callback.                                          *)

\* The rows at the positions of an index set.
LEMMA InsideAt ==
    ASSUME NEW s \in Seq(Nat), NoRepeats(s), NEW set \in Ranges, NEW row
    PROVE  row \in Inside(s, set) <=> \E x \in 0 .. Len(s) - 1 : s[x + 1] = row /\ x \in Members(set)
<1>0. Len(s) \in Nat
  OBVIOUS
<1>1. ASSUME row \in Inside(s, set)
      PROVE  \E x \in 0 .. Len(s) - 1 : s[x + 1] = row /\ x \in Members(set)
  <2>1. row \in ToSet(s) /\ InSet(set, PosIn(s, row))
    BY <1>1 DEF Inside
  <2>2. PosIn(s, row) \in 0 .. Len(s) - 1 /\ s[PosIn(s, row) + 1] = row
    BY <2>1, PosInAt
  <2>3. PosIn(s, row) \in Nat
    BY <1>0, <2>2
  <2>4. PosIn(s, row) \in Members(set)
    BY <2>1, <2>3, InSetMeans
  <2> QED
    BY <2>2, <2>4
<1>2. ASSUME NEW x \in 0 .. Len(s) - 1, s[x + 1] = row, x \in Members(set) PROVE row \in Inside(s, set)
  <2> DEFINE p == x + 1
  <2>1. p \in 1 .. Len(s) /\ p - 1 = x /\ row = s[p] /\ x \in Nat
    BY <1>0, <1>2
  <2> HIDE DEF p
  <2>2. PosIn(s, row) = x /\ row \in ToSet(s)
    BY <2>1, PosInIs
  <2>3. InSet(set, x)
    BY <1>2, <2>1, InSetMeans
  <2> QED
    BY <2>2, <2>3 DEF Inside
<1> QED
  BY <1>1, <1>2

\* finalize: the modified rows by their old and their new positions.
LEMMA FinalizeIs ==
    ASSUME NEW b \in Builders
    PROVE  LET c == Finalize(b)
           IN  /\ c.deletions = b.deletions /\ c.insertions = b.insertions /\ c.moves = b.moves
               /\ c.modifications \in Ranges /\ c.modifications_new \in Ranges
               /\ Members(c.modifications_new) = Mod(b) \ Ins(b)
               /\ \A x : x \in Members(c.modifications) <=> \E y \in Mod(b) : Mates(Ins(b), Del(b), y, x)
<1> DEFINE e == ShiftForInserts(EraseIndexes(b.modifications, b.insertions), b.deletions)
           f == RemoveIndexes(b.modifications, b.insertions)
<1>1. b.deletions \in Ranges /\ b.insertions \in Ranges /\ b.modifications \in Ranges
  BY BuilderIs
<1>2. /\ e \in Ranges
      /\ \A x : x \in Members(e) <=> \E y \in Members(b.modifications) : Mates(Members(b.insertions), Members(b.deletions), y, x)
  BY <1>1, InsertIndexesIs
<1>3. f \in Ranges /\ Members(f) = Members(b.modifications) \ Members(b.insertions)
  BY <1>1, RemoveIndexesIs
<1>4. Finalize(b) = [deletions |-> b.deletions, insertions |-> b.insertions, modifications |-> e,
                     modifications_new |-> f, moves |-> b.moves]
  BY DEF Finalize
<1> HIDE DEF e, f
<1> QED
  BY <1>2, <1>3, <1>4 DEF Mod, Ins, Del

\* The same rows, by either.
LEMMA OldAndNew ==
    ASSUME NEW b \in Builders, NEW old \in Seq(Nat), NEW new \in Seq(Nat), NoRepeats(old), NoRepeats(new),
           ListRight(b, old, new), Mod(b) \subseteq 0 .. Len(new) - 1
    PROVE  Inside(old, Finalize(b).modifications) = Inside(new, Finalize(b).modifications_new)
<1> DEFINE O == Finalize(b).modifications
           N == Finalize(b).modifications_new
<1>1. /\ O \in Ranges /\ N \in Ranges /\ Members(N) = Mod(b) \ Ins(b)
      /\ \A x : x \in Members(O) <=> \E y \in Mod(b) : Mates(Ins(b), Del(b), y, x)
  BY FinalizeIs
<1> HIDE DEF O, N
<1>2. Mated(Del(b), Ins(b), old, new)
  BY PlacesMates DEF ListRight
<1>3. \A x, y : Mates(Ins(b), Del(b), y, x) <=> Mates(Del(b), Ins(b), x, y)
  BY DEF Mates
<1>4. Len(old) \in Nat /\ Len(new) \in Nat
  OBVIOUS
<1>5. ASSUME NEW row, row \in Inside(old, O) PROVE row \in Inside(new, N)
  <2>1. PICK x \in 0 .. Len(old) - 1 : old[x + 1] = row /\ x \in Members(O)
    BY <1>1, <1>5, InsideAt
  <2>2. PICK y \in Mod(b) : Mates(Del(b), Ins(b), x, y)
    BY <1>1, <1>3, <2>1
  <2>3. x < Len(old)
    BY <1>4
  <2>4. y \in 0 .. Len(new) - 1 /\ old[x + 1] = new[y + 1]
    BY <1>2, <2>2, <2>3 DEF Mated
  <2>5. y \in Members(N)
    BY <1>1, <2>2 DEF Mates
  <2> QED
    BY <1>1, <2>1, <2>4, <2>5, InsideAt
<1>6. ASSUME NEW row, row \in Inside(new, N) PROVE row \in Inside(old, O)
  <2>1. PICK y \in 0 .. Len(new) - 1 : new[y + 1] = row /\ y \in Members(N)
    BY <1>1, <1>6, InsideAt
  <2>2. y \in Mod(b) /\ y \notin Ins(b)
    BY <1>1, <2>1
  <2>3. PICK x \in 0 .. Len(old) - 1 : Mates(Del(b), Ins(b), x, y)
    BY <1>2, <2>2 DEF Mated
  <2>4. x < Len(old)
    BY <1>4
  <2>5. old[x + 1] = new[y + 1]
    BY <1>2, <2>3, <2>4 DEF Mated
  <2>6. x \in Members(O)
    BY <1>1, <1>3, <2>2, <2>3
  <2> QED
    BY <1>1, <2>1, <2>5, <2>6, InsideAt
<1> QED
  BY <1>5, <1>6 DEF O, N

\* The numbers of rows fit.
LEMMA CountsMean == LogInv /\ RunInv => CountsFit(shown, view, Finalize(total))
<1> SUFFICES ASSUME LogInv, RunInv
             PROVE  CountsFit(shown, view, Finalize(total))
  OBVIOUS
<1> DEFINE c == Finalize(total)
           old == Zeros(Len(shown))
           new == Zeros(Len(view))
<1>1. /\ shown \in Seq(Nat) /\ view \in Seq(Nat)
      /\ total \in Builders /\ ListRight(total, old, new)
  BY DEF LogInv, RowsRight, RunInv, TotalRight
<1>2. c.deletions = total.deletions /\ c.insertions = total.insertions
  BY <1>1, FinalizeIs
<1>3. /\ old \in Seq(Nat) /\ Len(old) = Len(shown)
      /\ new \in Seq(Nat) /\ Len(new) = Len(view)
  BY <1>1, ZerosAre
<1> HIDE DEF c, old, new
<1>4. c.deletions \in Ranges /\ c.insertions \in Ranges
  BY <1>1, <1>2, BuilderIs
<1>5. Del(c) = Del(total) /\ Ins(c) = Ins(total)
  BY <1>2 DEF Del, Ins
<1>6. /\ Rank(Del(c), Len(old)) = Rank(Ins(c), Len(new))
      /\ \A x \in 0 .. Len(old) - 1, y \in 0 .. Len(new) - 1 :
           x \notin Del(c) /\ y \notin Ins(c) /\ Rank(Del(c), x) = Rank(Ins(c), y) => old[x + 1] = new[y + 1]
  BY <1>1, <1>5 DEF ListRight, Places
<1>7. Applies(old, new, c)
  BY ONLY <1>3, <1>4, <1>6, AppliesIs, Zenon
<1>8. Cardinality(Outside(old, c.deletions)) = Cardinality(Outside(new, c.insertions))
  BY <1>7 DEF Applies
<1>9. Outside(old, c.deletions) = Outside(shown, c.deletions) /\ Outside(new, c.insertions) = Outside(view, c.insertions)
  BY <1>3 DEF Outside
<1> QED
  BY <1>8, <1>9 DEF CountsFit, c

\* It means that the merged changes are right.
LEMMA MergedMeans == LogInv /\ RunInv => MergedChangesRight
<1> SUFFICES ASSUME LogInv, RunInv, ~passed
             PROVE  LET final == Finalize(total)
                    IN  /\ Applies(shown, view, final) /\ MovesTrue(shown, view, final)
                        /\ Inside(shown, final.modifications) = Inside(view, final.modifications_new)
                        /\ Inside(view, total.modifications) \subseteq touched
                        /\ touched \cap ToSet(shown) \cap ToSet(view) \subseteq
                             Inside(view, final.modifications_new) \cup Inside(view, final.insertions)
                        /\ \A m \in ToSet(total.moves) :
                             shown[m.from + 1] \in touched => InSet(total.modifications, m.to)
  BY CountsMean DEF MergedChangesRight
<1> DEFINE c == Finalize(total)
<1>1. /\ shown \in Seq(Nat) /\ view \in Seq(Nat) /\ NoRepeats(shown) /\ NoRepeats(view)
      /\ total \in Builders /\ ListRight(total, shown, view)
      /\ Mod(total) \subseteq 0 .. Len(view) - 1
      /\ ModsIn(total, view, touched) /\ ModsFound(total, view, touched)
  BY DEF LogInv, RowsRight, RunInv, TotalRight
<1>2. /\ c.deletions = total.deletions /\ c.insertions = total.insertions /\ c.moves = total.moves
      /\ c.modifications \in Ranges /\ c.modifications_new \in Ranges
      /\ Members(c.modifications_new) = Mod(total) \ Ins(total)
  BY <1>1, FinalizeIs
<1>3. Inside(shown, c.modifications) = Inside(view, c.modifications_new)
  BY <1>1, OldAndNew
<1> HIDE DEF c
<1>4. total.deletions \in Ranges /\ total.insertions \in Ranges /\ total.modifications \in Ranges
      /\ total.moves \in Seq(Moves) /\ Del(total) \subseteq Nat /\ Ins(total) \subseteq Nat
  BY <1>1, BuilderIs
<1>5. Del(c) = Del(total) /\ Ins(c) = Ins(total)
  BY <1>2 DEF Del, Ins
<1>6. /\ Places(Del(total), Ins(total), shown, view)
      /\ Known(total.moves, Del(total), Ins(total), shown, view)
  BY <1>1 DEF ListRight
<1>7. Applies(shown, view, c)
  <2>1. /\ Rank(Del(c), Len(shown)) = Rank(Ins(c), Len(view))
        /\ \A x \in 0 .. Len(shown) - 1, y \in 0 .. Len(view) - 1 :
             x \notin Del(c) /\ y \notin Ins(c) /\ Rank(Del(c), x) = Rank(Ins(c), y) => shown[x + 1] = view[y + 1]
    BY <1>5, <1>6 DEF Places
  <2>2. c.deletions \in Ranges /\ c.insertions \in Ranges
    BY <1>2, <1>4
  <2> QED
    BY ONLY <1>1, <2>1, <2>2, AppliesIs, Zenon
<1>m. ASSUME NEW m \in ToSet(total.moves)
      PROVE  /\ m.from \in Del(total) /\ m.to \in Ins(total) /\ shown[m.from + 1] = view[m.to + 1]
             /\ \E k \in 1 .. Len(total.moves) : total.moves[k].to = m.to
  <2>1. PICK k \in DOMAIN total.moves : total.moves[k] = m
    BY DEF ToSet
  <2>2. k \in 1 .. Len(total.moves)
    BY <1>4
  <2> QED
    BY <1>6, <2>1, <2>2 DEF Known
<1>8. MovesTrue(shown, view, c)
  <2> SUFFICES ASSUME NEW m \in ToSet(total.moves)
               PROVE  InSet(total.deletions, m.from) /\ InSet(total.insertions, m.to) /\ shown[m.from + 1] = view[m.to + 1]
    BY <1>2 DEF MovesTrue
  <2>1. m.from \in Nat /\ m.to \in Nat
    BY <1>4, <1>m
  <2> QED
    BY <1>4, <1>m, <2>1, InSetMeans DEF Del, Ins
<1>9. Inside(view, total.modifications) \subseteq touched
  <2> SUFFICES ASSUME NEW row \in Inside(view, total.modifications) PROVE row \in touched
    OBVIOUS
  <2>1. PICK y \in 0 .. Len(view) - 1 : view[y + 1] = row /\ y \in Mod(total)
    BY <1>1, <1>4, InsideAt DEF Mod
  <2> QED
    BY <1>1, <2>1 DEF ModsIn
<1>10. ASSUME NEW row \in touched \cap ToSet(shown) \cap ToSet(view)
       PROVE  row \in Inside(view, c.modifications_new) \cup Inside(view, c.insertions)
  <2>1. PosIn(view, row) \in 0 .. Len(view) - 1 /\ view[PosIn(view, row) + 1] = row
    BY <1>1, PosInAt
  <2>2. PICK y \in 0 .. Len(view) - 1 : view[y + 1] = row
    BY <2>1
  <2>3. CASE y \in Ins(total)
    <3>1. y \in Members(c.insertions)
      BY <1>2, <2>3 DEF Ins
    <3> QED
      BY <1>1, <1>2, <1>4, <2>2, <3>1, InsideAt
  <2>4. CASE y \notin Ins(total)
    <3>1. y \in Mod(total)
      BY <1>1, <2>2, <2>4 DEF ModsFound, Found
    <3>2. y \in Members(c.modifications_new)
      BY <1>2, <2>4, <3>1
    <3> QED
      BY <1>1, <1>2, <2>2, <3>2, InsideAt
  <2> QED
    BY <2>3, <2>4
<1>11. ASSUME NEW m \in ToSet(total.moves), shown[m.from + 1] \in touched
       PROVE  InSet(total.modifications, m.to)
  <2>1. /\ m.to \in Ins(total) /\ view[m.to + 1] \in touched
        /\ \E k \in 1 .. Len(total.moves) : total.moves[k].to = m.to
    BY <1>11, <1>m
  <2>2. m.to \in 0 .. Len(view) - 1 /\ m.to \in Nat
    BY <1>4, <1>6, <2>1 DEF Places
  <2>3. m.to \in Mod(total)
    BY <1>1, <2>1, <2>2 DEF ModsFound, Found
  <2> QED
    BY <1>4, <2>2, <2>3, InSetMeans DEF Mod
<1> QED
  BY <1>3, <1>7, <1>8, <1>9, <1>10, <1>11 DEF c

\* The change set that a callback receives, merged from the changes of any
\* number of runs, turns what the callback was shown into what there is now.
THEOREM MergedChanges == Spec => []MergedChangesRight
<1>1. Init => LogInv /\ RunInv
  BY LogInvInit, RunInvInit
<1>2. LogInv /\ RunInv /\ [Next]_vars => (LogInv /\ RunInv)'
  BY LogInvNext, RunInvNext
<1>3. LogInv /\ RunInv => MergedChangesRight
  BY MergedMeans
<1> QED
  BY <1>1, <1>2, <1>3, PTL DEF Spec

(***************************************************************************)
(* The results of sorted queries, and the types.                           *)
(***************************************************************************)

\* calculate, for sorted results: whatever the two orders, and whatever was
\* modified, the changes turn the one into the other.
THEOREM SortedDiff == Spec => []DiffRight
<1>1. DiffRight
  <2> DEFINE prev == [i \in 1 .. MaxRows |-> i - 1]
  <2>0. MaxRows \in Nat
    BY BoundsAssumption
  <2> SUFFICES ASSUME NEW S \in SUBSET (0 .. MaxRows), NEW next \in Orders(S), NEW modified \in SUBSET S
               PROVE  Applies(prev, next, Calculate(prev, next, modified, << >>, FALSE))
    BY DEF DiffRight
  <2> DEFINE c == Calculate(prev, next, modified, << >>, FALSE)
  <2>1. S \subseteq Nat /\ IsFiniteSet(S)
    <3>1. IsFiniteSet(0 .. MaxRows)
      BY <2>0, FS_Interval
    <3>2. IsFiniteSet(S)
      BY ONLY <3>1, S \in SUBSET (0 .. MaxRows), FS_Subset
    <3> QED
      BY <2>0, <3>2
  <2>2. next \in Seq(Nat) /\ NoRepeats(next)
    BY ONLY <2>1, next \in Orders(S), OrdersAre
  <2>3. prev \in Seq(Nat) /\ NoRepeats(prev)
    BY <2>0 DEF NoRepeats
  <2> HIDE DEF prev, c
  <2>4. InBoth(prev, next)
    BY <2>2, <2>3 DEF InBoth, Once, NoRepeats
  <2>5. << >> \in Ranges /\ FALSE \in BOOLEAN
    BY EmptyRanges
  <2>6. Calculated(c, prev, next, modified, << >>, FALSE)
    BY ONLY <2>4, <2>5, CalculateIs DEF c
  <2>7. PICK K : Reckoned(c, prev, next, modified, K) /\ SameOrder(prev, next, K)
    BY <2>6 DEF Calculated
  <2>8. Places(Del(c), Ins(c), prev, next)
    BY <2>4, <2>7, ReckonedPlaces
  <2>9. c.deletions \in Ranges /\ c.insertions \in Ranges
    BY <2>7, BuilderIs DEF Reckoned
  <2>10. /\ Rank(Del(c), Len(prev)) = Rank(Ins(c), Len(next))
         /\ \A x \in 0 .. Len(prev) - 1, y \in 0 .. Len(next) - 1 :
              x \notin Del(c) /\ y \notin Ins(c) /\ Rank(Del(c), x) = Rank(Ins(c), y) => prev[x + 1] = next[y + 1]
    BY <2>8 DEF Places
  <2>11. Applies(prev, next, c)
    BY ONLY <2>2, <2>3, <2>9, <2>10, AppliesIs, Zenon
  <2> QED
    BY <2>11 DEF c, prev
<1> QED
  BY <1>1, PTL

-----------------------------------------------------------------------------
(* Type correctness.                                                        *)

\* The log of a list maps no rows.
ListUnmapped == kind = "list" => DOMAIN change.mapping = {}

\* ListUnmapped is kept.
LEMMA ListUnmappedNext == LogInv /\ ListUnmapped /\ [Next]_vars => ListUnmapped'
<1> SUFFICES ASSUME LogInv, ListUnmapped, [Next]_vars, kind' = "list" PROVE DOMAIN change'.mapping = {}
  BY DEF ListUnmapped
<1>1. kind = "list"
  BY DEF Next, vars, LinkListSet, LinkListSwap, LinkListInsert, LinkListErase, LinkListMove, LinkListClear,
         MarkDirty, InsertEmptyRows, EraseRows, SwapTableRows, MergeRows, ClearTable, Told, Run
<1>2. /\ change \in Builders /\ DOMAIN change.mapping = {} /\ ~Table
      /\ ListRight(change, start, rows) /\ Len(rows) \in Nat
  BY <1>1, LogRows DEF ListUnmapped, Table
<1>3. \A i : i \in Positions => i \in Nat
  BY <1>2 DEF Positions
<1>4. CASE LinkListSet
  <2>1. PICK i \in Positions : change' = Modify(change, i)
    BY <1>4 DEF LinkListSet, Told
  <2>2. Modify(change, i).mapping = change.mapping
    BY <1>2, <1>3, ModifyIs
  <2> QED
    BY <1>2, <2>1, <2>2
<1>5. CASE LinkListSwap
  <2>1. PICK i \in Positions, j \in Positions : change' = Modify(Modify(change, i), j)
    BY <1>5 DEF LinkListSwap, Told
  <2>2. Modify(change, i) \in Builders /\ Modify(change, i).mapping = change.mapping
    BY <1>2, <1>3, ModifyIs
  <2>3. Modify(Modify(change, i), j).mapping = Modify(change, i).mapping
    BY <1>3, <2>2, ModifyIs
  <2> QED
    BY <1>2, <2>1, <2>2, <2>3
<1>6. CASE LinkListInsert
  <2>1. PICK i \in 0 .. Len(rows) : change' = Insert(change, i, 1, TRUE)
    BY <1>6 DEF LinkListInsert, Told
  <2>2. i \in Nat /\ 1 \in Nat /\ 1 > 0 /\ TRUE \in BOOLEAN
    OBVIOUS
  <2>3. \A y \in DOMAIN change.mapping : y < i
    BY <1>2
  <2>4. Insert(change, i, 1, TRUE).mapping = change.mapping
    BY <1>2, <2>2, <2>3, InsertIs
  <2> QED
    BY <1>2, <2>1, <2>4
<1>7. CASE LinkListErase
  <2>1. PICK i \in Positions : change' = Erase(change, i)
    BY <1>7 DEF LinkListErase, Told
  <2>2. Erase(change, i).mapping = change.mapping
    BY <1>2, <1>3, EraseIs
  <2> QED
    BY <1>2, <2>1, <2>2
<1>8. CASE LinkListMove
  <2>1. PICK i \in Positions, j \in Positions : change' = Move(change, i, j)
    BY <1>8 DEF LinkListMove, Told
  <2>2. \A k \in 1 .. Len(change.moves) : change.moves[k].to \in Ins(change)
    BY <1>2 DEF ListRight, Known
  <2>3. Move(change, i, j).mapping = change.mapping
    BY <1>2, <1>3, <2>2, MoveIs
  <2> QED
    BY <1>2, <2>1, <2>3
<1>9. CASE LinkListClear
  <2>1. change' = Clear(change, Len(rows))
    BY <1>9 DEF LinkListClear, Told
  <2>2. Clear(change, Len(rows)).mapping = << >>
    BY DEF Clear, NoChange
  <2> QED
    BY <2>1, <2>2
<1>10. CASE Run
  <2>1. change' = NoChange
    BY <1>10 DEF Run
  <2> QED
    BY <2>1, NoChangeIs
<1>11. CASE UNCHANGED vars
  BY <1>2, <1>11 DEF vars
<1> QED
  BY <1>2, <1>4, <1>5, <1>6, <1>7, <1>8, <1>9, <1>10, <1>11
  DEF Next, MarkDirty, InsertEmptyRows, EraseRows, SwapTableRows, MergeRows, ClearTable

\* What parse_complete and clean_up_stale_moves leave are index sets.
ParsedSets == Parsed.deletions \in Ranges /\ Parsed.insertions \in Ranges /\ Parsed.modifications \in Ranges

\* Parsing leaves ranges.
LEMMA ParsedSetsAre == LogInv => ParsedSets
<1> SUFFICES ASSUME LogInv PROVE ParsedSets
  OBVIOUS
<1>1. /\ kind \in {"list", "query", "sorted", "linked"}
      /\ start \in Seq(Nat) /\ rows \in Seq(Nat) /\ change \in Builders /\ NoRepeats(rows)
      /\ (kind \in {"query", "sorted"} => TableRight(change, start, rows))
      /\ (kind = "list" => ListRight(change, start, rows))
      /\ (kind = "linked" => DOMAIN change.mapping = {})
  BY LogRows
<1>2. change.modifications \in Ranges
  BY <1>1, BuilderIs
<1>3. CASE kind = "list"
  <2> DEFINE c == CleanUpStaleMoves(change)
  <2>1. c \in Builders
    BY <1>1, <1>3, ListEnds
  <2>2. Parsed = c
    BY <1>3 DEF Parsed, Table
  <2> HIDE DEF c
  <2> QED
    BY <2>1, <2>2, BuilderIs DEF ParsedSets
<1>4. CASE kind # "list"
  <2> DEFINE c == ParseComplete(change)
  <2>1. Parsed = c
    BY <1>4 DEF Parsed, Table
  <2>2. c.modifications = change.modifications /\ c.deletions \in Ranges /\ c.insertions \in Ranges
    <3>1. CASE kind \in {"query", "sorted"}
      <4>1. NoRepeats(start)
        BY DEF LogInv, RowsRight
      <4> QED
        BY <1>1, <3>1, <4>1, ParsedTableIs
    <3>2. CASE kind = "linked"
      <4>1. /\ \A x \in DOMAIN change.mapping : x \in 0 .. 0 /\ change.mapping[x] \in 0 .. 0
            /\ \A x, y \in DOMAIN change.mapping : change.mapping[x] = change.mapping[y] => x = y
        BY <1>1, <3>2
      <4>2. 0 \in Nat
        OBVIOUS
      <4> QED
        BY <1>1, <4>1, <4>2, ParsedIs
    <3> QED
      BY <1>1, <1>4, <3>1, <3>2
  <2> HIDE DEF c
  <2> QED
    BY <1>2, <2>1, <2>2 DEF ParsedSets
<1> QED
  BY <1>3, <1>4

\* The invariants mean the types.
LEMMA TypeMeans == LogInv /\ RunInv /\ ListUnmapped => TypeOK
<1> SUFFICES ASSUME LogInv, RunInv, ListUnmapped PROVE TypeOK
  OBVIOUS
<1>1. /\ kind \in {"list", "query", "sorted", "linked"} /\ change \in Builders
      /\ (kind \in {"query", "sorted"} => TableRight(change, start, rows))
      /\ (kind = "linked" => DOMAIN change.mapping = {})
  BY LogRows
<1>2. /\ total \in Builders /\ Mod(total) \subseteq 0 .. Len(view) - 1
      /\ ListRight(total, Zeros(Len(shown)), Zeros(Len(view))) /\ view \in Seq(Nat)
  BY DEF RunInv, TotalRight, LogInv, RowsRight
<1>3. ParsedSets
  BY ParsedSetsAre
<1>4. \A b \in {change, Parsed, total} : \A set \in IndexSets(b) : set \in Ranges
  <2>1. \A b \in {change, total} : b.deletions \in Ranges /\ b.insertions \in Ranges /\ b.modifications \in Ranges
    BY <1>1, <1>2, BuilderIs
  <2> QED
    BY <1>3, <2>1 DEF ParsedSets, IndexSets
<1>5. \A set \in UNION {IndexSets(b) : b \in {change, Parsed, total}} : WellFormed(set)
  <2>1. \A set \in Ranges : WellFormed(set)
    BY DEF Ranges
  <2> QED
    BY <1>4, <2>1
<1>6. Ins(total) \subseteq 0 .. Len(view) - 1
  <2>1. Len(view) \in Nat
    BY <1>2
  <2>2. Len(Zeros(Len(view))) = Len(view)
    BY <2>1, ZerosAre
  <2> QED
    BY <1>2, <2>2 DEF ListRight, Places
<1>7. DOMAIN change.mapping \subseteq Ins(change)
  BY <1>1 DEF TableRight, ListUnmapped
<1> QED
  BY <1>2, <1>5, <1>6, <1>7 DEF TypeOK, Mod, Ins

\* Type correctness of the specification.
THEOREM TypeCorrect == Spec => []TypeOK
<1>1. Init => LogInv /\ RunInv /\ ListUnmapped
  <2>1. Init => ListUnmapped
    BY NoChangeIs DEF Init, ListUnmapped
  <2> QED
    BY <2>1, LogInvInit, RunInvInit
<1>2. LogInv /\ RunInv /\ ListUnmapped /\ [Next]_vars => (LogInv /\ RunInv /\ ListUnmapped)'
  BY LogInvNext, RunInvNext, ListUnmappedNext
<1>3. LogInv /\ RunInv /\ ListUnmapped => TypeOK
  BY TypeMeans
<1> QED
  BY <1>1, <1>2, <1>3, PTL DEF Spec
================================================================================
