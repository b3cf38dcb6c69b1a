---------------------- MODULE CollectionChangeBuilder_proofs ----------------------
(***************************************************************************)
(* What the operations of IndexSet do to the ranges, for every set of row  *)
(* indexes, and what merging two changes does to them.  The functions that *)
(* go through the ranges are followed by LoopRuns: that they exist and     *)
(* take the steps of their definition; what is said of all their values is *)
(* said of a set of numbers that holds 0 and k + 1 with k (UpTo).          *)
(*                                                                         *)
(* A change is right (ListRight) when it takes the old sequence to the new *)
(* one: a position that is not deleted and its mate, the position that is  *)
(* not inserted with as many such positions before it (Rank), hold equal   *)
(* rows, and so do the ends of a move.  MergeKeepsRight: two right changes *)
(* merge to a right one.                                                   *)
(***************************************************************************)
EXTENDS CollectionChangeBuilder, FiniteSetTheorems, SequenceTheorems, WellFoundedInduction, TLAPS

(* The order of the natural numbers.                                       *)
Less == {p \in Nat \X Nat : p[1] < p[2]}

(* A non-empty set of naturals has a least element.                        *)
LEMMA LeastNumber ==
    ASSUME NEW T \in SUBSET Nat, T # {}
    PROVE  \E x \in T : \A y \in T : ~(y < x)
<1>1. IsWellFoundedOn(Less, Nat)
  BY NatLessThanWellFounded DEF OpToRel, Less
<1>2. \E x \in T : \A y \in T : ~(<< y, x >> \in Less)
  BY <1>1, WFMin, Zenon
<1> QED
  BY <1>2 DEF Less

(* A set that holds 0 and is closed under +1 up to n holds 0 .. n.         *)
LEMMA UpTo ==
    ASSUME NEW n \in Nat, NEW T, 0 \in T, \A k \in 0 .. n - 1 : k \in T => k + 1 \in T
    PROVE  0 .. n \subseteq T
<1>1. SUFFICES ASSUME 0 .. n \ T # {}
               PROVE  FALSE
  OBVIOUS
<1>2. PICK x \in 0 .. n \ T : \A y \in 0 .. n \ T : ~(y < x)
  <2> 0 .. n \ T \in SUBSET Nat
    OBVIOUS
  <2> QED
    BY <1>1, LeastNumber
<1>3. x # 0 /\ x - 1 \in 0 .. n - 1
  BY <1>2
<1>4. x - 1 \in T
  BY <1>2, <1>3
<1> QED
  BY <1>2, <1>3, <1>4

(* A loop that is started with v and goes through the steps 1 .. n one by  *)
(* one.                                                                    *)
Steps(n, V) == [1 .. n -> [V -> V]]
IsLoop(f, n, V, v, step) ==
    f \in [0 .. n -> V] /\ f[0] = v /\ \A k \in 1 .. n : f[k] = step[k][f[k - 1]]

(* There is such a loop, whatever its steps.                               *)
LEMMA LoopRuns ==
    ASSUME NEW n \in Nat, NEW V, NEW v \in V, NEW step \in Steps(n, V)
    PROVE  \E f : IsLoop(f, n, V, v, step)
<1>0. step \in [1 .. n -> [V -> V]]
  BY DEF Steps
<1> DEFINE Runs(f, m) == f[0] = v /\ \A k \in 1 .. m : f[k] = step[k][f[k - 1]]
           T == {m \in 0 .. n : \E f \in [0 .. m -> V] : Runs(f, m)}
<1>1. 0 \in T
  <2> DEFINE f == [k \in 0 .. 0 |-> v]
  <2>1. f \in [0 .. 0 -> V] /\ Runs(f, 0)
    OBVIOUS
  <2> HIDE DEF f
  <2>2. \E h \in [0 .. 0 -> V] : Runs(h, 0)
    BY <2>1
  <2> QED
    BY <2>2
<1>2. ASSUME NEW m \in 0 .. n - 1, m \in T
      PROVE  m + 1 \in T
  <2>1. PICK f \in [0 .. m -> V] : Runs(f, m)
    BY <1>2
  <2> DEFINE g == [k \in 0 .. m + 1 |-> IF k = m + 1 THEN step[k][f[m]] ELSE f[k]]
  <2>2. f[m] \in V /\ m + 1 \in 1 .. n
    OBVIOUS
  <2>3. step[m + 1][f[m]] \in V
    BY <1>0, <2>2
  <2>4. g \in [0 .. m + 1 -> V]
    <3>1. ASSUME NEW k \in 0 .. m + 1
          PROVE  (IF k = m + 1 THEN step[k][f[m]] ELSE f[k]) \in V
      BY <2>3
    <3> QED
      BY <3>1
  <2>5. Runs(g, m + 1)
    BY <2>1
  <2> HIDE DEF g
  <2>6. \E h \in [0 .. m + 1 -> V] : Runs(h, m + 1)
    BY <2>4, <2>5
  <2> QED
    BY <2>6
<1> HIDE DEF T
<1>3. 0 .. n \subseteq T
  BY <1>1, <1>2, UpTo
<1>4. \E f \in [0 .. n -> V] : Runs(f, n)
  BY <1>3 DEF T
<1> QED
  BY <1>4 DEF IsLoop

(* What a set is kept in.                                                  *)
Pairs == Nat \X Nat
Ranges == {s \in Seq(Pairs) : WellFormed(s)}

(* The ranges are in order, each one apart from the next.                  *)
LEMMA RangesAre ==
    ASSUME NEW s \in Ranges
    PROVE  /\ s \in Seq(Pairs) /\ Len(s) \in Nat /\ DOMAIN s = 1 .. Len(s)
           /\ \A i \in 1 .. Len(s) : /\ s[i] = << s[i][1], s[i][2] >>
                                     /\ s[i][1] \in Nat /\ s[i][2] \in Nat /\ s[i][1] < s[i][2]
           /\ \A i, j \in 1 .. Len(s) : i < j => s[i][2] < s[j][1]
<1>1. s \in Seq(Pairs) /\ WellFormed(s)
  BY DEF Ranges
<1>2. Len(s) \in Nat /\ DOMAIN s = 1 .. Len(s)
  BY <1>1
<1>3. ASSUME NEW i \in 1 .. Len(s)
      PROVE  /\ s[i] = << s[i][1], s[i][2] >>
             /\ s[i][1] \in Nat /\ s[i][2] \in Nat /\ s[i][1] < s[i][2]
  <2>1. s[i] \in Pairs /\ s[i][1] < s[i][2]
    BY <1>1, <1>2 DEF WellFormed
  <2>2. PICK a \in Nat, b \in Nat : s[i] = << a, b >>
    BY <2>1 DEF Pairs
  <2> QED
    BY <2>1, <2>2
<1>4. ASSUME NEW i \in 1 .. Len(s), NEW j \in 1 .. Len(s), i < j
      PROVE  s[i][2] < s[j][1]
  <2> DEFINE T == {k \in Nat : i + 1 + k <= Len(s) => s[i][2] < s[i + 1 + k][1]}
  <2>0. \A k \in 1 .. Len(s) - 1 : s[k][2] < s[k + 1][1]
    BY <1>1, <1>2 DEF WellFormed
  <2>1. 0 \in T
    BY <1>2, <2>0
  <2>2. ASSUME NEW k \in 0 .. (j - i - 1) - 1, k \in T
        PROVE  k + 1 \in T
    <3>0. i + 1 + k \in 1 .. Len(s) - 1 /\ i + 1 + (k + 1) = i + 1 + k + 1 /\ k + 1 \in Nat
      BY <1>2, <1>4
    <3> DEFINE m == i + 1 + k
    <3>3. s[i][2] < s[m][1]
      BY <2>2, <3>0
    <3> HIDE DEF m
    <3>1. m \in 1 .. Len(s) /\ m + 1 \in 1 .. Len(s)
      BY <1>2, <3>0 DEF m
    <3>2. s[m][1] < s[m][2] /\ s[m][2] < s[m + 1][1]
      BY <1>3, <2>0, <3>0, <3>1 DEF m
    <3>4. s[i][2] < s[m + 1][1]
      <4>1. s[i][2] \in Nat /\ s[m][1] \in Nat /\ s[m][2] \in Nat /\ s[m + 1][1] \in Nat
        BY <1>3, <3>1
      <4> DEFINE c1 == s[i][2]
                 c2 == s[m][1]
                 c3 == s[m][2]
                 c4 == s[m + 1][1]
      <4>2. c1 \in Nat /\ c2 \in Nat /\ c3 \in Nat /\ c4 \in Nat /\ c1 < c2 /\ c2 < c3 /\ c3 < c4
        BY <3>2, <3>3, <4>1
      <4> HIDE DEF c1, c2, c3, c4
      <4>3. c1 < c4
        BY ONLY <4>2
      <4> QED
        BY <4>3 DEF c1, c4
    <3> QED
      BY <3>0, <3>4 DEF m
  <2> HIDE DEF T
  <2>3. j - i - 1 \in Nat /\ 0 .. (j - i - 1) \subseteq T
    BY <1>4, <2>1, <2>2, UpTo
  <2>4. j - i - 1 \in T /\ i + 1 + (j - i - 1) = j
    BY <2>3
  <2> QED
    BY <2>4 DEF T
<1> QED
  BY <1>1, <1>2, <1>3, <1>4

(* What is shown of a sequence to have it called ranges.                   *)
LEMMA MakesRanges ==
    ASSUME NEW t, NEW n \in Nat, t \in Seq(Pairs), Len(t) = n,
           \A i \in 1 .. n : t[i][1] < t[i][2],
           \A i \in 1 .. n - 1 : t[i][2] < t[i + 1][1]
    PROVE  t \in Ranges
<1>1. ASSUME NEW i \in 2 .. Len(t)
      PROVE  t[i - 1][2] < t[i][1]
  <2>1. i - 1 \in 1 .. n - 1 /\ (i - 1) + 1 = i
    OBVIOUS
  <2> QED
    BY <2>1
<1>2. DOMAIN t = 1 .. n
  OBVIOUS
<1> QED
  BY <1>1, <1>2 DEF Ranges, WellFormed

(* A sequence of ranges with one more, number by number,                   *)
LEMMA InsertAtIs ==
    ASSUME NEW S, NEW s \in Seq(S), NEW i \in 1 .. Len(s) + 1, NEW e \in S
    PROVE  /\ InsertAt(s, i, e) \in Seq(S) /\ Len(InsertAt(s, i, e)) = Len(s) + 1
           /\ \A k \in 1 .. Len(s) + 1 :
                InsertAt(s, i, e)[k] = IF k < i THEN s[k] ELSE IF k = i THEN e ELSE s[k - 1]
<1> DEFINE n == Len(s)
           a == SubSeq(s, 1, i - 1)
           b == SubSeq(s, i, n)
<1>0. n \in Nat /\ i \in 1 .. n + 1
  OBVIOUS
<1>1. a \in Seq(S) /\ Len(a) = i - 1 /\ \A k \in 1 .. i - 1 : a[k] = s[k]
  OBVIOUS
<1>2. b \in Seq(S) /\ Len(b) = n + 1 - i /\ \A k \in 1 .. n + 1 - i : b[k] = s[k + i - 1]
  OBVIOUS
<1>3. InsertAt(s, i, e) = a \o << e >> \o b
  BY DEF InsertAt
<1> HIDE DEF a, b, n
<1>4. a \o << e >> \in Seq(S) /\ Len(a \o << e >>) = i
      /\ \A k \in 1 .. i : (a \o << e >>)[k] = IF k < i THEN s[k] ELSE e
  BY <1>0, <1>1
<1> DEFINE c == a \o << e >>
<1> HIDE DEF c
<1>5. c \o b \in Seq(S) /\ Len(c \o b) = n + 1
  <2>0. c \in Seq(S) /\ Len(c) = i /\ b \in Seq(S) /\ Len(b) = n + 1 - i
    BY <1>2, <1>4 DEF c
  <2>1. c \o b \in Seq(S) /\ Len(c \o b) = Len(c) + Len(b)
    BY ONLY <2>0
  <2>2. Len(c) + Len(b) = n + 1
    BY ONLY <1>0, <2>0
  <2> QED
    BY <2>1, <2>2
<1>6. ASSUME NEW k \in 1 .. n + 1
      PROVE  (c \o b)[k] = IF k < i THEN s[k] ELSE IF k = i THEN e ELSE s[k - 1]
  <2>0. /\ c \in Seq(S) /\ Len(c) = i /\ \A m \in 1 .. i : c[m] = IF m < i THEN s[m] ELSE e
        /\ b \in Seq(S) /\ Len(b) = n + 1 - i
    BY <1>2, <1>4 DEF c
  <2>c. \A m \in 1 .. Len(c) + Len(b) :
           (c \o b)[m] = IF m <= Len(c) THEN c[m] ELSE b[m - Len(c)]
    <3>1. c \in Seq(S) /\ b \in Seq(S)
      BY ONLY <2>0
    <3> HIDE DEF c, b
    <3> QED
      BY ONLY <3>1
  <2>k. k \in Nat /\ k \in 1 .. i + (n + 1 - i)
    BY ONLY <1>0, k \in 1 .. n + 1
  <2>d. (c \o b)[k] = IF k <= i THEN c[k] ELSE b[k - i]
    BY ONLY <2>0, <2>c, <2>k
  <2>1. CASE k <= i
    <3>1. k \in 1 .. i /\ (k < i \/ k = i)
      BY ONLY <1>0, <2>k, <2>1
    <3>2. (c \o b)[k] = c[k] /\ c[k] = IF k < i THEN s[k] ELSE e
      BY ONLY <2>0, <2>d, <2>1, <3>1
    <3> QED
      BY ONLY <1>0, <2>k, <3>1, <3>2
  <2>2. CASE ~(k <= i)
    <3>0. k - i \in 1 .. n + 1 - i
      BY ONLY <1>0, <2>k, <2>2
    <3>1. (c \o b)[k] = b[k - i] /\ k - i \in 1 .. n + 1 - i
      BY ONLY <2>d, <2>2, <3>0
    <3>2. b[k - i] = s[k - i + i - 1] /\ k - i + i - 1 = k - 1
      BY <1>0, <1>2, <3>1
    <3> QED
      BY <2>2, <3>1, <3>2
  <2> QED
    BY <2>1, <2>2, Zenon
<1> QED
  BY <1>3, <1>5, <1>6 DEF c, n

(* ... and with one less.                                                  *)
LEMMA RemoveAtIs ==
    ASSUME NEW S, NEW s \in Seq(S), NEW i \in 1 .. Len(s)
    PROVE  /\ RemoveAt(s, i) \in Seq(S) /\ Len(RemoveAt(s, i)) = Len(s) - 1
           /\ \A k \in 1 .. Len(s) - 1 : RemoveAt(s, i)[k] = IF k < i THEN s[k] ELSE s[k + 1]
<1> DEFINE n == Len(s)
           a == SubSeq(s, 1, i - 1)
           b == SubSeq(s, i + 1, n)
<1>0. n \in Nat /\ i \in 1 .. n
  OBVIOUS
<1>1. a \in Seq(S) /\ Len(a) = i - 1 /\ \A k \in 1 .. i - 1 : a[k] = s[k]
  OBVIOUS
<1>2. b \in Seq(S) /\ Len(b) = n - i /\ \A k \in 1 .. n - i : b[k] = s[k + i]
  OBVIOUS
<1>3. RemoveAt(s, i) = a \o b
  BY DEF RemoveAt
<1> HIDE DEF a, b, n
<1>5. a \o b \in Seq(S) /\ Len(a \o b) = n - 1
  <2>0. a \in Seq(S) /\ b \in Seq(S)
    BY <1>1, <1>2
  <2>1. a \o b \in Seq(S) /\ Len(a \o b) = Len(a) + Len(b)
    BY ONLY <2>0
  <2>2. Len(a) + Len(b) = n - 1
    BY ONLY <1>0, <1>1, <1>2
  <2> QED
    BY <2>1, <2>2
<1>6. ASSUME NEW k \in 1 .. n - 1
      PROVE  (a \o b)[k] = IF k < i THEN s[k] ELSE s[k + 1]
  <2>1. CASE k < i
    BY <1>0, <1>1, <1>2, <2>1
  <2>2. CASE ~(k < i)
    <3>1. (a \o b)[k] = b[k - (i - 1)] /\ k - (i - 1) \in 1 .. n - i
      BY <1>0, <1>1, <1>2, <2>2
    <3>2. b[k - (i - 1)] = s[k - (i - 1) + i] /\ k - (i - 1) + i = k + 1
      BY <1>0, <1>2, <3>1
    <3> QED
      BY <2>2, <3>1, <3>2
  <2> QED
    BY <2>1, <2>2, Zenon
<1> QED
  BY <1>3, <1>5, <1>6 DEF n

-----------------------------------------------------------------------------
(* The library's least element is one.                                     *)
LEMMA MinIs ==
    ASSUME NEW T \in SUBSET Nat, T # {}
    PROVE  Min(T) \in T /\ \A y \in T : Min(T) <= y
<1>1. PICK x \in T : \A y \in T : ~(y < x)
  BY LeastNumber
<1>2. \A y \in T : x <= y
  BY <1>1
<1> QED
  BY <1>2 DEF Min

(* The members of a set are the indexes of its ranges.                     *)
LEMMA InMembers ==
    ASSUME NEW s \in Ranges
    PROVE  /\ Members(s) \subseteq Nat
           /\ \A y : y \in Members(s) <=>
                y \in Nat /\ \E i \in 1 .. Len(s) : s[i][1] <= y /\ y < s[i][2]
<1>1. /\ DOMAIN s = 1 .. Len(s)
      /\ \A i \in 1 .. Len(s) : s[i][1] \in Nat /\ s[i][2] \in Nat
  BY RangesAre
<1>2. ASSUME NEW i \in 1 .. Len(s), NEW y
      PROVE  y \in s[i][1] .. (s[i][2] - 1) <=> y \in Nat /\ s[i][1] <= y /\ y < s[i][2]
  BY <1>1
<1>3. Members(s) = UNION {s[i][1] .. (s[i][2] - 1) : i \in 1 .. Len(s)}
  BY <1>1 DEF Members
<1>4. \A y : y \in Members(s) <=>
             y \in Nat /\ \E i \in 1 .. Len(s) : s[i][1] <= y /\ y < s[i][2]
  BY <1>2, <1>3
<1> QED
  BY <1>4

(* find: the ranges before the one it finds end at or before the index.    *)
LEMMA FindIs ==
    ASSUME NEW s \in Ranges, NEW x \in Nat
    PROVE  /\ Find(s, x) \in 1 .. Len(s) + 1
           /\ \A i \in 1 .. Len(s) : i < Find(s, x) <=> s[i][2] <= x
<1> DEFINE after == {i \in DOMAIN s : s[i][2] > x}
<1>0. /\ Len(s) \in Nat /\ DOMAIN s = 1 .. Len(s)
      /\ \A i \in 1 .. Len(s) : s[i][1] \in Nat /\ s[i][2] \in Nat /\ s[i][1] < s[i][2]
      /\ \A i, j \in 1 .. Len(s) : i < j => s[i][2] < s[j][1]
  BY RangesAre
<1>1. CASE after = {}
  <2>1. Find(s, x) = Len(s) + 1
    BY <1>1 DEF Find
  <2>2. \A i \in 1 .. Len(s) : s[i][2] <= x
    BY <1>0, <1>1
  <2> QED
    BY <1>0, <2>1, <2>2
<1>2. CASE after # {}
  <2> DEFINE m == Min(after)
  <2>1. Find(s, x) = m
    BY <1>2 DEF Find
  <2>2. after \in SUBSET Nat
    BY <1>0
  <2>3. m \in after /\ \A i \in after : m <= i
    BY <1>2, <2>2, MinIs
  <2> HIDE DEF m
  <2>4. m \in 1 .. Len(s) /\ s[m][2] > x /\ \A i \in 1 .. Len(s) : s[i][2] > x => m <= i
    BY <1>0, <2>3
  <2>5. ASSUME NEW i \in 1 .. Len(s), m < i
        PROVE  s[i][2] > x
    <3>1. s[m][2] < s[i][1] /\ s[i][1] < s[i][2] /\ s[m][2] \in Nat /\ s[i][1] \in Nat /\ s[i][2] \in Nat
      BY <1>0, <2>4, <2>5
    <3> QED
      BY <2>4, <3>1
  <2>6. ASSUME NEW i \in 1 .. Len(s)
        PROVE  i < m <=> s[i][2] <= x
    <3>1. s[i][2] \in Nat /\ (i < m \/ i = m \/ m < i)
      BY <1>0, <2>4
    <3> QED
      BY <2>4, <2>5, <3>1
  <2> QED
    BY <1>0, <2>1, <2>4, <2>6
<1> QED
  BY <1>1, <1>2

(* contains.                                                               *)
LEMMA InSetMeans ==
    ASSUME NEW s \in Ranges, NEW x \in Nat
    PROVE  InSet(s, x) <=> x \in Members(s)
<1> DEFINE it == Find(s, x)
<1>0. /\ Len(s) \in Nat
      /\ \A i \in 1 .. Len(s) : s[i][1] \in Nat /\ s[i][2] \in Nat /\ s[i][1] < s[i][2]
      /\ \A i, j \in 1 .. Len(s) : i < j => s[i][2] < s[j][1]
  BY RangesAre
<1>1. it \in 1 .. Len(s) + 1 /\ \A i \in 1 .. Len(s) : i < it <=> s[i][2] <= x
  BY FindIs
<1>2. InSet(s, x) <=> it <= Len(s) /\ s[it][1] <= x
  BY DEF InSet
<1>3. x \in Members(s) <=> \E i \in 1 .. Len(s) : s[i][1] <= x /\ x < s[i][2]
  BY InMembers
<1> HIDE DEF it
<1>4. ASSUME it <= Len(s), s[it][1] <= x
      PROVE  \E i \in 1 .. Len(s) : s[i][1] <= x /\ x < s[i][2]
  <2>1. it \in 1 .. Len(s) /\ ~(s[it][2] <= x) /\ s[it][2] \in Nat
    BY <1>0, <1>1, <1>4
  <2> QED
    BY <1>4, <2>1
<1>5. ASSUME NEW i \in 1 .. Len(s), s[i][1] <= x, x < s[i][2]
      PROVE  it <= Len(s) /\ s[it][1] <= x
  <2>1. s[i][2] \in Nat /\ ~(s[i][2] <= x)
    BY <1>0, <1>5
  <2>2. it <= i
    BY <1>0, <1>1, <2>1
  <2>3. CASE it = i
    BY <1>5, <2>3
  <2>4. CASE it < i
    <3>1. it \in 1 .. Len(s) /\ s[it][1] < s[it][2] /\ s[it][2] < s[i][1]
          /\ s[it][1] \in Nat /\ s[it][2] \in Nat /\ s[i][1] \in Nat
      BY <1>0, <1>1, <2>4
    <3> QED
      BY <1>5, <3>1
  <2> QED
    BY <1>0, <1>1, <2>2, <2>3, <2>4
<1> QED
  BY <1>2, <1>3, <1>4, <1>5

(* The ranges of a set are determined by its members.                      *)
LEMMA NextAgrees ==
    ASSUME NEW s \in Ranges, NEW t \in Ranges, Members(s) = Members(t),
           NEW k \in Nat, k + 1 <= Len(s), k <= Len(t), \A i \in 1 .. k : s[i] = t[i]
    PROVE  k + 1 <= Len(t) /\ t[k + 1][1] <= s[k + 1][1]
<1>s. /\ Len(s) \in Nat
      /\ \A i \in 1 .. Len(s) : s[i][1] \in Nat /\ s[i][2] \in Nat /\ s[i][1] < s[i][2]
      /\ \A i, j \in 1 .. Len(s) : i < j => s[i][2] < s[j][1]
  BY RangesAre
<1>t. /\ Len(t) \in Nat
      /\ \A i \in 1 .. Len(t) : t[i][1] \in Nat /\ t[i][2] \in Nat /\ t[i][1] < t[i][2]
      /\ \A i, j \in 1 .. Len(t) : i < j => t[i][2] < t[j][1]
  BY RangesAre
<1> DEFINE y == s[k + 1][1]
<1>1. k + 1 \in 1 .. Len(s)
  BY <1>s
<1>2. y \in Nat /\ y < s[k + 1][2] /\ \A i \in 1 .. k : s[i][2] < y
  BY <1>s, <1>1
<1>3. y \in Members(s)
  BY <1>1, <1>2, InMembers
<1> HIDE DEF y
<1>4. PICK j \in 1 .. Len(t) : t[j][1] <= y /\ y < t[j][2]
  BY <1>3, InMembers
<1>5. ~(j <= k)
  <2> SUFFICES ASSUME j <= k PROVE FALSE
    OBVIOUS
  <2>1. j \in 1 .. k /\ t[j][2] \in Nat
    BY <1>t
  <2>2. t[j][2] < y
    BY <1>2, <2>1
  <2> QED
    BY <1>2, <1>4, <2>1, <2>2
<1>6. k + 1 \in 1 .. Len(t) /\ (j = k + 1 \/ k + 1 < j)
  BY <1>t, <1>5
<1>7. CASE j = k + 1
  BY <1>4, <1>6, <1>7 DEF y
<1>8. CASE k + 1 < j
  <2>1. /\ t[k + 1][1] < t[k + 1][2] /\ t[k + 1][2] < t[j][1]
        /\ t[k + 1][1] \in Nat /\ t[k + 1][2] \in Nat /\ t[j][1] \in Nat
    BY <1>t, <1>6, <1>8
  <2>3. t[k + 1][1] < t[j][1]
    BY ONLY <2>1
  <2>2. t[k + 1][1] <= y
    BY ONLY <1>2, <1>4, <2>1, <2>3
  <2> QED
    BY <1>6, <2>2 DEF y
<1> QED
  BY <1>6, <1>7, <1>8

(* ... each ends where the other one does,                                 *)
LEMMA EndAgrees ==
    ASSUME NEW s \in Ranges, NEW t \in Ranges, Members(s) = Members(t),
           NEW m \in 1 .. Len(s), m \in 1 .. Len(t), s[m][1] = t[m][1]
    PROVE  t[m][2] <= s[m][2]
<1>s. /\ Len(s) \in Nat
      /\ \A i \in 1 .. Len(s) : s[i][1] \in Nat /\ s[i][2] \in Nat /\ s[i][1] < s[i][2]
      /\ \A i, j \in 1 .. Len(s) : i < j => s[i][2] < s[j][1]
  BY RangesAre
<1>t. t[m][1] \in Nat /\ t[m][2] \in Nat
  BY RangesAre
<1> DEFINE z == s[m][2]
<1>0. z \in Nat /\ s[m][1] \in Nat /\ s[m][1] < z
  BY <1>s
<1>1. SUFFICES ASSUME z < t[m][2] PROVE FALSE
  BY <1>0, <1>t
<1>2. z \in Members(t)
  BY <1>0, <1>1, InMembers
<1>3. PICK j \in 1 .. Len(s) : s[j][1] <= z /\ z < s[j][2]
  BY <1>2, InMembers
<1>4. CASE j = m
  BY <1>0, <1>3, <1>4
<1>5. CASE j < m
  <2>1. s[j][2] < s[m][1] /\ s[j][2] \in Nat
    BY <1>s, <1>5
  <2> QED
    BY <1>0, <1>3, <2>1
<1>6. CASE m < j
  <2>1. z < s[j][1] /\ s[j][1] \in Nat
    BY <1>s, <1>6
  <2> QED
    BY <1>0, <1>3, <2>1
<1> QED
  BY <1>s, <1>4, <1>5, <1>6

(* ... so that one begins with the other,                                  *)
LEMMA StartsWith ==
    ASSUME NEW s \in Ranges, NEW t \in Ranges, Members(s) = Members(t)
    PROVE  Len(s) <= Len(t) /\ \A i \in 1 .. Len(s) : s[i] = t[i]
<1> DEFINE T == {k \in Nat : k <= Len(s) => k <= Len(t) /\ \A i \in 1 .. k : s[i] = t[i]}
<1>0. Len(s) \in Nat /\ Len(t) \in Nat
  BY RangesAre
<1>1. 0 \in T
  BY <1>0
<1>2. ASSUME NEW k \in 0 .. Len(s) - 1, k \in T
      PROVE  k + 1 \in T
  <2>1. k \in Nat /\ k + 1 <= Len(s) /\ k <= Len(t) /\ \A i \in 1 .. k : s[i] = t[i]
    BY <1>0, <1>2
  <2>2. k + 1 <= Len(t) /\ t[k + 1][1] <= s[k + 1][1]
    BY <2>1, NextAgrees
  <2>3. s[k + 1][1] <= t[k + 1][1]
    BY <2>1, <2>2, NextAgrees
  <2>4. k + 1 \in 1 .. Len(s) /\ k + 1 \in 1 .. Len(t)
    BY <1>0, <2>1, <2>2
  <2> DEFINE m == k + 1
  <2> HIDE DEF m
  <2>5. /\ s[m] = << s[m][1], s[m][2] >> /\ t[m] = << t[m][1], t[m][2] >>
        /\ s[m][1] \in Nat /\ s[m][2] \in Nat /\ t[m][1] \in Nat /\ t[m][2] \in Nat
    BY <2>4, RangesAre DEF m
  <2>6. s[m][1] = t[m][1]
    BY <2>2, <2>3, <2>5 DEF m
  <2>7. t[m][2] <= s[m][2] /\ s[m][2] <= t[m][2]
    BY <2>4, <2>6, EndAgrees DEF m
  <2>8. s[m] = t[m]
    BY <2>5, <2>6, <2>7
  <2>9. \A i \in 1 .. k + 1 : s[i] = t[i]
    BY <2>1, <2>8 DEF m
  <2> QED
    BY <2>1, <2>2, <2>9
<1> HIDE DEF T
<1>3. 0 .. Len(s) \subseteq T
  BY <1>0, <1>1, <1>2, UpTo
<1>4. Len(s) \in T
  BY <1>0, <1>3
<1> QED
  BY <1>0, <1>4 DEF T

(* ... and they are the same.                                              *)
LEMMA SameMembers ==
    ASSUME NEW s \in Ranges, NEW t \in Ranges, Members(s) = Members(t)
    PROVE  s = t
<1>1. Len(s) <= Len(t) /\ \A i \in 1 .. Len(s) : s[i] = t[i]
  BY StartsWith
<1>2. Len(t) <= Len(s)
  BY StartsWith
<1>3. s \in Seq(Pairs) /\ t \in Seq(Pairs)
  BY RangesAre
<1>4. Len(s) = Len(t)
  BY <1>1, <1>2, <1>3
<1> QED
  BY <1>1, <1>3, <1>4

-----------------------------------------------------------------------------
(* One more index pushed.                                                  *)
LEMMA PushBackIs ==
    ASSUME NEW s \in Ranges, NEW n \in Nat, \A y \in Members(s) : y < n
    PROVE  PushBack(s, n) \in Ranges /\ Members(PushBack(s, n)) = Members(s) \cup {n}
<1> DEFINE L == Len(s)
           t == PushBack(s, n)
<1>0. /\ s \in Seq(Pairs) /\ L \in Nat
      /\ \A i \in 1 .. L : s[i][1] \in Nat /\ s[i][2] \in Nat /\ s[i][1] < s[i][2]
      /\ \A i, j \in 1 .. L : i < j => s[i][2] < s[j][1]
  BY RangesAre
<1>1. \A i \in 1 .. L : s[i][2] <= n
  <2> TAKE i \in 1 .. L
  <2> DEFINE e == s[i][2]
  <2>0. e \in Nat /\ s[i][1] \in Nat /\ s[i][1] < e
    BY <1>0
  <2> HIDE DEF e
  <2>1. e - 1 \in Nat /\ s[i][1] <= e - 1 /\ e - 1 < e
    BY ONLY <2>0
  <2>2. e - 1 \in Members(s)
    BY <2>1, InMembers DEF e
  <2>3. e - 1 < n
    BY <2>2
  <2>4. e <= n
    BY <2>0, <2>3
  <2> QED
    BY <2>4 DEF e
<1>2. CASE s # << >> /\ s[L][2] = n
  <2>1. L \in 1 .. L
    BY <1>0, <1>2
  <2>2. t = [s EXCEPT ![L] = << s[L][1], n + 1 >>]
    BY <1>2 DEF PushBack
  <2>3. << s[L][1], n + 1 >> \in Pairs
    BY <1>0, <2>1 DEF Pairs
  <2>4. /\ t \in Seq(Pairs) /\ Len(t) = L
        /\ \A i \in 1 .. L : t[i] = IF i = L THEN << s[L][1], n + 1 >> ELSE s[i]
    BY <1>0, <2>1, <2>2, <2>3
  <2> HIDE DEF t, L
  <2>5. t \in Ranges
    <3>1. \A i \in 1 .. L : t[i][1] < t[i][2]
      BY <1>0, <1>2, <2>1, <2>4
    <3>2. \A i \in 1 .. L - 1 : t[i][2] < t[i + 1][1]
      BY <1>0, <2>1, <2>4
    <3> QED
      BY <1>0, <2>4, <3>1, <3>2, MakesRanges
  <2>6. ASSUME NEW y \in Nat
        PROVE  (\E i \in 1 .. L : t[i][1] <= y /\ y < t[i][2])
               <=> (y = n \/ \E i \in 1 .. L : s[i][1] <= y /\ y < s[i][2])
    <3>1. ASSUME NEW i \in 1 .. L, i # L
          PROVE  t[i] = s[i]
      BY <2>4, <3>1
    <3>2. t[L][1] = s[L][1] /\ t[L][2] = n + 1 /\ s[L][1] \in Nat /\ s[L][1] < n /\ s[L][2] = n
      BY <1>0, <1>2, <2>1, <2>4
    <3>3. t[L][1] <= y /\ y < t[L][2] <=> y = n \/ (s[L][1] <= y /\ y < s[L][2])
      BY <3>2
    <3> QED
      BY <2>1, <3>1, <3>3
  <2>7. \A y : y \in Members(t) <=> y \in Members(s) \cup {n}
    BY <2>4, <2>5, <2>6, InMembers DEF L
  <2> QED
    BY <2>5, <2>7 DEF t
<1>3. CASE ~(s # << >> /\ s[L][2] = n)
  <2>2. t = Append(s, << n, n + 1 >>)
    BY <1>3 DEF PushBack
  <2>3. << n, n + 1 >> \in Pairs
    BY DEF Pairs
  <2>4. /\ t \in Seq(Pairs) /\ Len(t) = L + 1
        /\ \A i \in 1 .. L + 1 : t[i] = IF i = L + 1 THEN << n, n + 1 >> ELSE s[i]
    BY <1>0, <2>2, <2>3
  <2>8. L # 0 => s[L][2] < n
    BY <1>0, <1>1, <1>3
  <2> HIDE DEF t, L
  <2>5. t \in Ranges
    <3>1. \A i \in 1 .. L + 1 : t[i][1] < t[i][2]
      BY <1>0, <2>4
    <3>2. \A i \in 1 .. L : t[i][2] < t[i + 1][1]
      <4> TAKE i \in 1 .. L
      <4>1. CASE i = L
        BY <1>0, <2>4, <2>8, <4>1
      <4>2. CASE i # L
        <5>1. /\ i \in 1 .. L /\ i + 1 \in 1 .. L /\ i \in 1 .. L + 1 /\ i + 1 \in 1 .. L + 1
              /\ i < i + 1 /\ i # L + 1 /\ i + 1 # L + 1
          BY ONLY <1>0, <4>2, i \in 1 .. L
        <5>2. t[i] = s[i] /\ t[i + 1] = s[i + 1]
          BY ONLY <2>4, <5>1
        <5>3. s[i][2] < s[i + 1][1]
          BY <1>0, <5>1
        <5> QED
          BY ONLY <5>2, <5>3
      <4> QED
        BY <4>1, <4>2
    <3>3. L + 1 \in Nat /\ (L + 1) - 1 = L
      BY <1>0
    <3> QED
      BY <2>4, <3>1, <3>2, <3>3, MakesRanges
  <2>6. ASSUME NEW y \in Nat
        PROVE  (\E i \in 1 .. L + 1 : t[i][1] <= y /\ y < t[i][2])
               <=> (y = n \/ \E i \in 1 .. L : s[i][1] <= y /\ y < s[i][2])
    <3>1. ASSUME NEW i \in 1 .. L
          PROVE  t[i] = s[i] /\ i \in 1 .. L + 1
      BY <1>0, <2>4
    <3>2. L + 1 \in 1 .. L + 1 /\ t[L + 1][1] = n /\ t[L + 1][2] = n + 1
      BY <1>0, <2>4
    <3>3. t[L + 1][1] <= y /\ y < t[L + 1][2] <=> y = n
      BY <3>2
    <3>4. \A i \in 1 .. L + 1 : i = L + 1 \/ i \in 1 .. L
      BY <1>0
    <3> QED
      BY <3>1, <3>2, <3>3, <3>4
  <2>7. \A y : y \in Members(t) <=> y \in Members(s) \cup {n}
    BY <2>4, <2>5, <2>6, InMembers DEF L
  <2> QED
    BY <2>5, <2>7 DEF t
<1> QED
  BY <1>2, <1>3

(* Of what is no set, too.                                                 *)
LEMMA PushBackType ==
    ASSUME NEW s \in Seq(Pairs), NEW n \in Nat
    PROVE  PushBack(s, n) \in Seq(Pairs)
<1>1. << n, n + 1 >> \in Pairs
  BY DEF Pairs
<1>2. ASSUME s # << >>
      PROVE  Len(s) \in 1 .. Len(s) /\ << s[Len(s)][1], n + 1 >> \in Pairs
  <2>1. Len(s) \in 1 .. Len(s)
    BY <1>2
  <2>2. s[Len(s)] \in Pairs
    BY <2>1
  <2> QED
    BY <2>1, <2>2 DEF Pairs
<1> QED
  BY <1>1, <1>2 DEF PushBack

(* The empty set.                                                          *)
LEMMA EmptyRanges == << >> \in Ranges /\ Members(<< >>) = {}
<1>1. << >> \in Seq(Pairs) /\ DOMAIN << >> = {} /\ Len(<< >>) = 0
  OBVIOUS
<1> QED
  BY <1>1 DEF Ranges, WellFormed, Members

(* The function FromIndexes counts up with, on its own.                    *)
Pushed(S, end) ==
    CHOOSE f : f = [k \in 0 .. end |->
                      IF k = 0 THEN << >>
                      ELSE IF k - 1 \in S THEN PushBack(f[k - 1], k - 1)
                      ELSE f[k - 1]]

(* It takes the steps of FromIndexes.                                      *)
LEMMA PushedRuns ==
    ASSUME NEW S, NEW end \in Nat
    PROVE  /\ Pushed(S, end)[0] = << >>
           /\ \A k \in 1 .. end :
                Pushed(S, end)[k] = IF k - 1 \in S THEN PushBack(Pushed(S, end)[k - 1], k - 1)
                                    ELSE Pushed(S, end)[k - 1]
<1> DEFINE V == Seq(Pairs)
           step == [k \in 1 .. end |-> [u \in V |-> IF k - 1 \in S THEN PushBack(u, k - 1) ELSE u]]
           none == << >>
<1>1. step \in Steps(end, V)
  <2>1. ASSUME NEW k \in 1 .. end, NEW u \in V
        PROVE  (IF k - 1 \in S THEN PushBack(u, k - 1) ELSE u) \in V
    <3>1. k - 1 \in Nat
      OBVIOUS
    <3> QED
      BY <3>1, PushBackType
  <2> QED
    BY <2>1 DEF Steps
<1>2. none \in V
  OBVIOUS
<1> HIDE DEF V, step, none
<1>l. PICK f : IsLoop(f, end, V, none, step)
  BY <1>1, <1>2, LoopRuns
<1>3. f \in [0 .. end -> V] /\ f[0] = none /\ \A k \in 1 .. end : f[k] = step[k][f[k - 1]]
  BY <1>l DEF IsLoop
<1>4. ASSUME NEW k \in 0 .. end
      PROVE  f[k] = IF k = 0 THEN << >>
                    ELSE IF k - 1 \in S THEN PushBack(f[k - 1], k - 1)
                    ELSE f[k - 1]
  <2>1. CASE k = 0
    BY <1>3, <2>1 DEF none
  <2>2. CASE k # 0
    <3>1. k \in 1 .. end /\ k - 1 \in 0 .. end
      BY <2>2
    <3>2. f[k] = step[k][f[k - 1]] /\ f[k - 1] \in V
      BY <1>3, <3>1
    <3>3. f[k] = IF k - 1 \in S THEN PushBack(f[k - 1], k - 1) ELSE f[k - 1]
      BY <3>1, <3>2 DEF step
    <3> QED
      BY <2>2, <3>3
  <2> QED
    BY <2>1, <2>2
<1>5. f = [k \in 0 .. end |->
             IF k = 0 THEN << >>
             ELSE IF k - 1 \in S THEN PushBack(f[k - 1], k - 1)
             ELSE f[k - 1]]
  BY <1>3, <1>4
<1> DEFINE p == Pushed(S, end)
<1>6. p = [k \in 0 .. end |->
             IF k = 0 THEN << >>
             ELSE IF k - 1 \in S THEN PushBack(p[k - 1], k - 1)
             ELSE p[k - 1]]
  BY <1>5 DEF Pushed
<1> HIDE DEF p
<1>7. p[0] = << >> /\ \A k \in 1 .. end : p[k] = IF k - 1 \in S THEN PushBack(p[k - 1], k - 1)
                                                ELSE p[k - 1]
  BY <1>6
<1> QED
  BY <1>7 DEF p

(* FromIndexes(S) has the members S.                                       *)
LEMMA FromIndexesIs ==
    ASSUME NEW n \in Nat, NEW S \in SUBSET (0 .. n)
    PROVE  FromIndexes(S) \in Ranges /\ Members(FromIndexes(S)) = S
<1> DEFINE end == Max(S \cup {-1}) + 1
           p == Pushed(S, end)
<1>1. end \in Nat /\ \A y \in S : y < end
  <2> DEFINE T == {n - y : y \in S}
  <2>1. CASE S = {}
    <3>1. Max({-1}) = -1
      BY DEF Max
    <3> QED
      BY <2>1, <3>1
  <2>2. CASE S # {}
    <3>0. \A y \in S : n - y \in Nat
      OBVIOUS
    <3>1. T \in SUBSET Nat /\ T # {}
      BY <2>2, <3>0
    <3>2. PICK x \in T : \A y \in T : ~(y < x)
      BY <3>1, LeastNumber
    <3>3. PICK m \in S : x = n - m
      OBVIOUS
    <3>4. m \in Nat /\ \A y \in S : m >= y
      <4>1. ASSUME NEW y \in S
            PROVE  m >= y
        <5>1. n - y \in T /\ y \in 0 .. n /\ m \in 0 .. n
          OBVIOUS
        <5>2. ~(n - y < n - m)
          BY <3>2, <3>3, <5>1
        <5> QED
          BY <5>1, <5>2
      <4> QED
        BY <4>1
    <3>5. \E u \in S \cup {-1} : \A v \in S \cup {-1} : u >= v
      BY <3>4
    <3> DEFINE top == Max(S \cup {-1})
    <3>6. top \in S \cup {-1} /\ \A v \in S \cup {-1} : top >= v
      BY <3>5 DEF Max
    <3> HIDE DEF top
    <3>7. top \in Nat /\ \A y \in S : y <= top
      <4>1. top >= m
        BY <3>6
      <4>2. top # -1
        BY <3>4, <4>1
      <4>3. top \in Nat
        BY <3>6, <4>2
      <4>4. \A y \in S : y \in Nat /\ top >= y
        BY <3>6
      <4> QED
        BY <4>3, <4>4
    <3>8. \A y \in S : y \in Nat
      OBVIOUS
    <3> QED
      BY <3>7, <3>8 DEF top
  <2> QED
    BY <2>1, <2>2
<1>2. FromIndexes(S) = p[end]
  BY DEF FromIndexes, Pushed
<1> HIDE DEF end
<1>3. p[0] = << >> /\ \A k \in 1 .. end : p[k] = IF k - 1 \in S THEN PushBack(p[k - 1], k - 1)
                                                ELSE p[k - 1]
  BY <1>1, PushedRuns
<1> HIDE DEF p
<1> DEFINE T == {k \in 0 .. end : p[k] \in Ranges /\ Members(p[k]) = {y \in S : y < k}}
<1>4. 0 \in T
  <2>0. \A y \in S : ~(y < 0)
    OBVIOUS
  <2>1. {y \in S : y < 0} = {}
    BY <2>0
  <2> QED
    BY <1>1, <1>3, <2>1, EmptyRanges
<1>5. ASSUME NEW k \in 0 .. end - 1, k \in T
      PROVE  k + 1 \in T
  <2>1. k + 1 \in 1 .. end /\ (k + 1) - 1 = k /\ k \in Nat
    BY <1>1
  <2>2. p[k] \in Ranges /\ Members(p[k]) = {y \in S : y < k}
    BY <1>5
  <2>3. p[k + 1] = IF k \in S THEN PushBack(p[k], k) ELSE p[k]
    BY <1>3, <2>1
  <2>4. {y \in S : y < k + 1} = {y \in S : y < k} \cup (S \cap {k})
    <3>1. ASSUME NEW y \in S
          PROVE  y < k + 1 <=> y < k \/ y = k
      BY <2>1
    <3> QED
      BY <3>1
  <2>5. p[k + 1] \in Ranges /\ Members(p[k + 1]) = {y \in S : y < k + 1}
    <3>1. CASE k \in S
      <4>1. PushBack(p[k], k) \in Ranges /\ Members(PushBack(p[k], k)) = Members(p[k]) \cup {k}
        BY <2>1, <2>2, PushBackIs
      <4> QED
        BY <2>2, <2>3, <2>4, <3>1, <4>1
    <3>2. CASE k \notin S
      BY <2>2, <2>3, <2>4, <3>2
    <3> QED
      BY <3>1, <3>2
  <2> QED
    BY <2>1, <2>5
<1> HIDE DEF T
<1>6. end \in T
  BY <1>1, <1>4, <1>5, UpTo
<1>7. p[end] \in Ranges /\ Members(p[end]) = {y \in S : y < end}
  BY <1>6 DEF T
<1> QED
  BY <1>1, <1>2, <1>7 DEF p

-----------------------------------------------------------------------------
(* The members of what an operation leaves.                                *)
Covers(t, y) == \E i \in 1 .. Len(t) : t[i][1] <= y /\ y < t[i][2]

(* Members, shown index by index.                                          *)
LEMMA MembersAre ==
    ASSUME NEW t \in Ranges, NEW M \in SUBSET Nat,
           \A y \in Nat : Covers(t, y) <=> y \in M
    PROVE  Members(t) = M
<1>1. \A y : y \in Members(t) <=> y \in Nat /\ Covers(t, y)
  BY InMembers DEF Covers
<1>2. \A y : y \in Members(t) <=> y \in M
  BY <1>1
<1> QED
  BY <1>2

(* The same, read the other way.                                           *)
LEMMA CoversMembers ==
    ASSUME NEW s \in Ranges, NEW y \in Nat
    PROVE  y \in Members(s) <=> Covers(s, y)
  BY InMembers DEF Covers

(* Where an index that is not in the set goes.                             *)
LEMMA Gap ==
    ASSUME NEW s \in Ranges, NEW x \in Nat, NEW it, it = Find(s, x),
           ~(it <= Len(s) /\ s[it][1] <= x)
    PROVE  /\ it \in 1 .. Len(s) + 1
           /\ \A i \in 1 .. Len(s) : i < it => s[i][2] <= x
           /\ \A i \in 1 .. Len(s) : it <= i => x < s[i][1]
<1>0. /\ Len(s) \in Nat
      /\ \A i \in 1 .. Len(s) : s[i][1] \in Nat /\ s[i][2] \in Nat /\ s[i][1] < s[i][2]
      /\ \A i, j \in 1 .. Len(s) : i < j => s[i][2] < s[j][1]
  BY RangesAre
<1>1. it \in 1 .. Len(s) + 1 /\ \A i \in 1 .. Len(s) : i < it <=> s[i][2] <= x
  BY FindIs
<1>2. ASSUME NEW i \in 1 .. Len(s), it <= i
      PROVE  x < s[i][1]
  <2>1. it \in 1 .. Len(s) /\ x < s[it][1]
    BY <1>0, <1>1, <1>2
  <2>2. CASE it = i
    BY <2>1, <2>2
  <2>3. CASE it < i
    <3>1. /\ s[it][1] < s[it][2] /\ s[it][2] < s[i][1]
          /\ s[it][1] \in Nat /\ s[it][2] \in Nat /\ s[i][1] \in Nat
      BY <1>0, <2>1, <2>3
    <3> QED
      BY ONLY <2>1, <3>1, x \in Nat
  <2> QED
    BY <1>1, <1>2, <2>2, <2>3
<1> QED
  BY <1>1, <1>2

-----------------------------------------------------------------------------
(* The indexes of range number i; the sequence with another range in       *)
(* place of number p, and with one more there.                             *)
Held(s, i) == s[i][1] .. s[i][2] - 1
Put(s, p, a, b) == [s EXCEPT ![p] = << a, b >>]
PutIn(s, p, a, b) == InsertAt(s, p, << a, b >>)

\* Number x lies between the first k - 1 ranges and the others.
Splits(s, k, x) ==
  /\ \A i \in 1 .. Len(s) : i < k => s[i][2] <= x
  /\ \A i \in 1 .. Len(s) : k <= i => x <= s[i][1]

(* A range taken out.                                                      *)
LEMMA Removed ==
    ASSUME NEW s \in Ranges, NEW p \in 1 .. Len(s)
    PROVE  /\ RemoveAt(s, p) \in Ranges /\ Len(RemoveAt(s, p)) = Len(s) - 1
           /\ \A k \in 1 .. Len(s) - 1 : RemoveAt(s, p)[k] = IF k < p THEN s[k] ELSE s[k + 1]
           /\ Members(RemoveAt(s, p)) = Members(s) \ Held(s, p)
<1> DEFINE L == Len(s)
           t == RemoveAt(s, p)
<1> L = Len(s) /\ t = RemoveAt(s, p) /\ p \in 1 .. L
  OBVIOUS
<1> HIDE DEF L, t
<1>0. /\ s \in Seq(Pairs) /\ L \in Nat /\ p \in 1 .. L
      /\ \A i \in 1 .. L : s[i][1] \in Nat /\ s[i][2] \in Nat /\ s[i][1] < s[i][2]
      /\ \A i, j \in 1 .. L : i < j => s[i][2] < s[j][1]
  BY RangesAre
<1>1. /\ t \in Seq(Pairs) /\ Len(t) = L - 1
      /\ \A k \in 1 .. L - 1 : t[k] = IF k < p THEN s[k] ELSE s[k + 1]
  <2>1. p \in 1 .. Len(s)
    OBVIOUS
  <2>2. /\ RemoveAt(s, p) \in Seq(Pairs) /\ Len(RemoveAt(s, p)) = Len(s) - 1
        /\ \A k \in 1 .. Len(s) - 1 : RemoveAt(s, p)[k] = IF k < p THEN s[k] ELSE s[k + 1]
    BY ONLY <1>0, <2>1, RemoveAtIs
  <2> QED
    BY <2>2
<1>2. ASSUME NEW k \in 1 .. L - 1
      PROVE  \E i \in 1 .. L : t[k] = s[i] /\ i # p
  <2>1. CASE k < p
    <3>1. k \in 1 .. L /\ t[k] = s[k] /\ k # p
      BY ONLY <1>0, <1>1, <2>1, k \in 1 .. L - 1
    <3> QED
      BY <3>1
  <2>2. CASE ~(k < p)
    <3>1. k + 1 \in 1 .. L /\ t[k] = s[k + 1] /\ k + 1 # p
      BY ONLY <1>0, <1>1, <2>2, k \in 1 .. L - 1
    <3> QED
      BY <3>1
  <2> QED
    BY <2>1, <2>2
<1>3. ASSUME NEW i \in 1 .. L, i # p
      PROVE  \E k \in 1 .. L - 1 : t[k] = s[i]
  <2>1. CASE i < p
    <3>1. i \in 1 .. L - 1 /\ t[i] = s[i]
      BY ONLY <1>0, <1>1, <2>1, i \in 1 .. L
    <3> QED
      BY <3>1
  <2>2. CASE ~(i < p)
    <3>1. i - 1 \in 1 .. L - 1 /\ i - 1 + 1 = i /\ ~(i - 1 < p)
      BY ONLY <1>0, <1>3, <2>2, i \in 1 .. L
    <3>2. t[i - 1] = s[i]
      BY <1>1, <3>1
    <3> QED
      BY <3>1, <3>2
  <2> QED
    BY <2>1, <2>2
<1>4. ASSUME NEW k \in 1 .. L - 1 - 1
      PROVE  t[k][2] < t[k + 1][1]
  <2>0. k \in 1 .. L - 1 /\ k + 1 \in 1 .. L - 1
    BY ONLY <1>0, k \in 1 .. L - 1 - 1
  <2>1. PICK i \in 1 .. L, j \in 1 .. L : t[k] = s[i] /\ t[k + 1] = s[j] /\ i < j
    <3>1. CASE k + 1 < p
      <4>1. k \in 1 .. L /\ k + 1 \in 1 .. L /\ t[k] = s[k] /\ t[k + 1] = s[k + 1] /\ k < k + 1
        BY ONLY <1>0, <1>1, <2>0, <3>1
      <4> QED
        BY <4>1
    <3>2. CASE k + 1 = p
      <4>1. k \in 1 .. L /\ k + 1 + 1 \in 1 .. L /\ t[k] = s[k] /\ t[k + 1] = s[k + 1 + 1]
            /\ k < k + 1 + 1
        BY ONLY <1>0, <1>1, <2>0, <3>2
      <4> QED
        BY <4>1
    <3>3. CASE p <= k
      <4>1. k + 1 \in 1 .. L /\ k + 1 + 1 \in 1 .. L /\ t[k] = s[k + 1]
            /\ t[k + 1] = s[k + 1 + 1] /\ k + 1 < k + 1 + 1
        BY ONLY <1>0, <1>1, <2>0, <3>3
      <4> QED
        BY <4>1
    <3> QED
      BY ONLY <1>0, <2>0, <3>1, <3>2, <3>3
  <2> QED
    BY <1>0, <2>1
<1>5. ASSUME NEW k \in 1 .. L - 1
      PROVE  t[k][1] < t[k][2]
  BY <1>0, <1>2
<1>6. t \in Ranges
  <2>1. L - 1 \in Nat
    BY ONLY <1>0
  <2> QED
    BY <1>1, <1>4, <1>5, <2>1, MakesRanges
<1>7. ASSUME NEW y \in Nat
      PROVE  Covers(t, y) <=> y \in Members(s) \ (s[p][1] .. s[p][2] - 1)
  <2>1. ASSUME NEW i \in 1 .. L, i # p, s[i][1] <= y, y < s[i][2]
        PROVE  ~(s[p][1] <= y /\ y < s[p][2])
    <3>0. i < p \/ p < i
      BY ONLY <1>0, <2>1, i \in 1 .. L
    <3>1. /\ s[i][1] \in Nat /\ s[i][2] \in Nat /\ s[p][1] \in Nat /\ s[p][2] \in Nat
          /\ s[i][2] < s[p][1] \/ s[p][2] < s[i][1]
      BY ONLY <1>0, <3>0, i \in 1 .. L
    <3> QED
      BY ONLY <2>1, <3>1, y \in Nat
  <2>2. y \in s[p][1] .. s[p][2] - 1 <=> s[p][1] <= y /\ y < s[p][2]
    BY <1>0
  <2>3. Covers(s, y) /\ ~(s[p][1] <= y /\ y < s[p][2])
        <=> \E i \in 1 .. L : i # p /\ s[i][1] <= y /\ y < s[i][2]
    BY <1>0, <2>1 DEF Covers
  <2>4. Covers(t, y) <=> \E k \in 1 .. L - 1 : t[k][1] <= y /\ y < t[k][2]
    BY <1>1 DEF Covers
  <2>5. Covers(t, y) <=> \E i \in 1 .. L : i # p /\ s[i][1] <= y /\ y < s[i][2]
    BY <1>2, <1>3, <2>4
  <2> QED
    BY <2>2, <2>3, <2>5, CoversMembers
<1>8. Members(s) \ (s[p][1] .. s[p][2] - 1) \in SUBSET Nat
  BY InMembers
<1> QED
  BY <1>1, <1>6, <1>7, <1>8, MembersAre DEF L, t, Held

(* A range that becomes another one.                                       *)
LEMMA Replaced ==
    ASSUME NEW s \in Ranges, NEW p \in 1 .. Len(s),
           NEW a \in Nat, NEW b \in Nat, a < b,
           1 < p => s[p - 1][2] < a, p < Len(s) => b < s[p + 1][1]
    PROVE  /\ Put(s, p, a, b) \in Ranges /\ Len(Put(s, p, a, b)) = Len(s)
           /\ Put(s, p, a, b)[p][1] = a /\ Put(s, p, a, b)[p][2] = b
           /\ \A i \in 1 .. Len(s) : i # p => Put(s, p, a, b)[i] = s[i]
           /\ Members(Put(s, p, a, b)) = (Members(s) \ Held(s, p)) \cup (a .. b - 1)
<1> DEFINE L == Len(s)
           t == Put(s, p, a, b)
<1> L = Len(s) /\ t = [s EXCEPT ![p] = << a, b >>] /\ p \in 1 .. L /\ (p < L => b < s[p + 1][1])
  BY DEF Put
<1> HIDE DEF L, t
<1> DEFINE e == << a, b >>
<1>0. /\ s \in Seq(Pairs) /\ L \in Nat /\ p \in 1 .. L
      /\ \A i \in 1 .. L : s[i][1] \in Nat /\ s[i][2] \in Nat /\ s[i][1] < s[i][2]
      /\ \A i, j \in 1 .. L : i < j => s[i][2] < s[j][1]
  BY RangesAre
<1>e. e \in Pairs /\ e[1] = a /\ e[2] = b
  BY DEF Pairs
<1>t. t = [s EXCEPT ![p] = e]
  OBVIOUS
<1> HIDE DEF e
<1>1. /\ t \in Seq(Pairs) /\ Len(t) = L /\ t[p] = e
      /\ \A i \in 1 .. L : i # p => t[i] = s[i]
  BY <1>0, <1>e, <1>t
<1>2. t \in Ranges
  <2>1. \A i \in 1 .. L : t[i][1] < t[i][2]
    BY <1>0, <1>1, <1>e
  <2>2. ASSUME NEW i \in 1 .. L - 1
        PROVE  t[i][2] < t[i + 1][1]
    <3>1. i \in 1 .. L /\ i + 1 \in 1 .. L /\ i < i + 1 /\ i \in Nat /\ p \in Nat
      BY ONLY <1>0, i \in 1 .. L - 1
    <3>2. s[i][2] < s[i + 1][1]
      BY <1>0, <3>1
    <3>3. CASE i = p
      <4>1. b < s[i + 1][1]
        BY ONLY <1>0, <3>1, <3>3, p < L => b < s[p + 1][1], i \in 1 .. L - 1
      <4>2. t[i] = e /\ t[i + 1] = s[i + 1]
        BY ONLY <1>1, <3>1, <3>3
      <4> QED
        BY ONLY <1>e, <4>1, <4>2
    <3>4. CASE i + 1 = p
      <4>1. i = p - 1 /\ 1 < p
        BY ONLY <3>1, <3>4, i \in 1 .. L - 1
      <4>2. s[i][2] < a
        BY <4>1
      <4>3. t[i] = s[i] /\ t[i + 1] = e
        BY ONLY <1>1, <3>1, <3>4
      <4> QED
        BY ONLY <1>e, <4>2, <4>3
    <3>5. CASE i # p /\ i + 1 # p
      BY <1>1, <3>1, <3>2, <3>5
    <3> QED
      BY <3>3, <3>4, <3>5
  <2> QED
    BY <1>0, <1>1, <2>1, <2>2, MakesRanges
<1>7. ASSUME NEW y \in Nat
      PROVE  Covers(t, y) <=> y \in (Members(s) \ (s[p][1] .. s[p][2] - 1)) \cup (a .. b - 1)
  <2>1. ASSUME NEW i \in 1 .. L, i # p, s[i][1] <= y, y < s[i][2]
        PROVE  ~(s[p][1] <= y /\ y < s[p][2])
    <3>0. i < p \/ p < i
      BY ONLY <1>0, <2>1, i \in 1 .. L
    <3>1. /\ s[i][1] \in Nat /\ s[i][2] \in Nat /\ s[p][1] \in Nat /\ s[p][2] \in Nat
          /\ s[i][2] < s[p][1] \/ s[p][2] < s[i][1]
      BY ONLY <1>0, <3>0, i \in 1 .. L
    <3> QED
      BY ONLY <2>1, <3>1, y \in Nat
  <2>2. y \in s[p][1] .. s[p][2] - 1 <=> s[p][1] <= y /\ y < s[p][2]
    BY <1>0
  <2>3. Covers(s, y) /\ ~(s[p][1] <= y /\ y < s[p][2])
        <=> \E i \in 1 .. L : i # p /\ s[i][1] <= y /\ y < s[i][2]
    BY <1>0, <2>1 DEF Covers
  <2>4. y \in a .. b - 1 <=> a <= y /\ y < b
    OBVIOUS
  <2>5. Covers(t, y) <=> (a <= y /\ y < b)
                         \/ \E i \in 1 .. L : i # p /\ s[i][1] <= y /\ y < s[i][2]
    BY <1>1, <1>e DEF Covers
  <2> QED
    BY <2>2, <2>3, <2>4, <2>5, CoversMembers
<1>8. (Members(s) \ (s[p][1] .. s[p][2] - 1)) \cup (a .. b - 1) \in SUBSET Nat
  BY InMembers
<1>9. Members(t) = (Members(s) \ (s[p][1] .. s[p][2] - 1)) \cup (a .. b - 1)
  BY <1>2, <1>7, <1>8, MembersAre
<1> QED
  BY <1>1, <1>2, <1>9, <1>e DEF L, t, Held

-----------------------------------------------------------------------------
(* A new range between two others.                                         *)
LEMMA Inserted ==
    ASSUME NEW s \in Ranges, NEW p \in 1 .. Len(s) + 1,
           NEW a \in Nat, NEW b \in Nat, a < b,
           1 < p => s[p - 1][2] < a, p <= Len(s) => b < s[p][1]
    PROVE  /\ PutIn(s, p, a, b) \in Ranges
           /\ Members(PutIn(s, p, a, b)) = Members(s) \cup (a .. b - 1)
<1> DEFINE L == Len(s)
           t == PutIn(s, p, a, b)
<1> L = Len(s) /\ t = InsertAt(s, p, << a, b >>) /\ p \in 1 .. L + 1 /\ (p <= L => b < s[p][1])
  BY DEF PutIn
<1> HIDE DEF L, t
<1> DEFINE e == << a, b >>
<1>0. /\ s \in Seq(Pairs) /\ L \in Nat /\ p \in 1 .. L + 1
      /\ \A i \in 1 .. L : s[i][1] \in Nat /\ s[i][2] \in Nat /\ s[i][1] < s[i][2]
      /\ \A i, j \in 1 .. L : i < j => s[i][2] < s[j][1]
  BY RangesAre
<1>e. e \in Pairs /\ e[1] = a /\ e[2] = b
  BY DEF Pairs
<1>t. t = InsertAt(s, p, e)
  OBVIOUS
<1> HIDE DEF e
<1>1. /\ t \in Seq(Pairs) /\ Len(t) = L + 1
      /\ \A k \in 1 .. L + 1 : t[k] = IF k < p THEN s[k] ELSE IF k = p THEN e ELSE s[k - 1]
  <2>1. p \in 1 .. Len(s) + 1
    OBVIOUS
  <2>2. /\ InsertAt(s, p, e) \in Seq(Pairs) /\ Len(InsertAt(s, p, e)) = Len(s) + 1
        /\ \A k \in 1 .. Len(s) + 1 :
             InsertAt(s, p, e)[k] = IF k < p THEN s[k] ELSE IF k = p THEN e ELSE s[k - 1]
    BY ONLY <1>0, <1>e, <2>1, InsertAtIs
  <2> QED
    BY <1>t, <2>2
<1>2. ASSUME NEW k \in 1 .. L + 1
      PROVE  t[k] = e \/ \E i \in 1 .. L : t[k] = s[i]
  <2>1. CASE k < p
    <3>1. k \in 1 .. L /\ t[k] = s[k]
      BY ONLY <1>0, <1>1, <2>1, k \in 1 .. L + 1
    <3> QED
      BY <3>1
  <2>2. CASE k = p
    BY <1>1, <2>2
  <2>3. CASE p < k
    <3>1. k - 1 \in 1 .. L /\ t[k] = s[k - 1]
      BY ONLY <1>0, <1>1, <2>3, k \in 1 .. L + 1
    <3> QED
      BY <3>1
  <2>4. k < p \/ k = p \/ p < k
    BY ONLY <1>0, k \in 1 .. L + 1
  <2> QED
    BY <2>1, <2>2, <2>3, <2>4
<1>3. ASSUME NEW i \in 1 .. L
      PROVE  \E k \in 1 .. L + 1 : t[k] = s[i]
  <2>1. CASE i < p
    <3>1. i \in 1 .. L + 1 /\ t[i] = s[i]
      BY ONLY <1>0, <1>1, <2>1, i \in 1 .. L
    <3> QED
      BY <3>1
  <2>2. CASE ~(i < p)
    <3>1. i + 1 \in 1 .. L + 1 /\ i + 1 - 1 = i /\ p < i + 1
      BY ONLY <1>0, <2>2, i \in 1 .. L
    <3>2. t[i + 1] = s[i + 1 - 1]
      BY ONLY <1>0, <1>1, <3>1, i \in 1 .. L
    <3> QED
      BY <3>1, <3>2
  <2> QED
    BY <2>1, <2>2
<1>4. p \in 1 .. L + 1 /\ t[p] = e
  BY <1>0, <1>1
<1>5. ASSUME NEW k \in 1 .. L + 1
      PROVE  t[k][1] < t[k][2]
  BY <1>0, <1>2, <1>e
<1>6. ASSUME NEW k \in 1 .. (L + 1) - 1
      PROVE  t[k][2] < t[k + 1][1]
  <2>0. k \in 1 .. L /\ k \in 1 .. L + 1 /\ k + 1 \in 1 .. L + 1 /\ k + 1 - 1 = k
    BY ONLY <1>0, k \in 1 .. (L + 1) - 1
  <2>1. CASE k + 1 < p
    <3>1. k + 1 \in 1 .. L /\ t[k] = s[k] /\ t[k + 1] = s[k + 1] /\ k < k + 1
      BY ONLY <1>0, <1>1, <2>0, <2>1
    <3> QED
      BY <1>0, <2>0, <3>1
  <2>2. CASE k + 1 = p
    <3>1. 1 < p /\ p - 1 = k /\ t[k] = s[k] /\ t[k + 1] = e
      BY ONLY <1>0, <1>1, <2>0, <2>2
    <3>2. s[k][2] < a
      BY <3>1
    <3> QED
      BY <1>e, <3>1, <3>2
  <2>3. CASE k = p
    <3>1. t[k] = e /\ t[k + 1] = s[k]
      BY ONLY <1>0, <1>1, <2>0, <2>3
    <3>2. b < s[k][1]
      BY <1>0, <2>0, <2>3
    <3> QED
      BY <1>e, <3>1, <3>2
  <2>4. CASE p < k
    <3>0. k - 1 \in 1 .. L /\ k - 1 < k /\ ~(k < p) /\ k # p /\ ~(k + 1 < p) /\ k + 1 # p
      BY ONLY <1>0, <2>0, <2>4
    <3>2. t[k] = s[k - 1]
      BY ONLY <1>1, <2>0, <3>0
    <3>3. t[k + 1] = s[k + 1 - 1]
      BY ONLY <1>1, <2>0, <3>0
    <3>1. k - 1 \in 1 .. L /\ t[k] = s[k - 1] /\ t[k + 1] = s[k] /\ k - 1 < k
      BY ONLY <2>0, <3>0, <3>2, <3>3
    <3> QED
      BY <1>0, <2>0, <3>1
  <2>5. k + 1 < p \/ k + 1 = p \/ k = p \/ p < k
    BY ONLY <1>0, <2>0
  <2> QED
    BY <2>1, <2>2, <2>3, <2>4, <2>5
<1>7. t \in Ranges
  <2>1. L + 1 \in Nat
    BY ONLY <1>0
  <2> QED
    BY <1>1, <1>5, <1>6, <2>1, MakesRanges
<1>8. ASSUME NEW y \in Nat
      PROVE  Covers(t, y) <=> y \in Members(s) \cup (a .. b - 1)
  <2>1. y \in a .. b - 1 <=> a <= y /\ y < b
    OBVIOUS
  <2>2. Covers(t, y) <=> \E k \in 1 .. L + 1 : t[k][1] <= y /\ y < t[k][2]
    BY <1>1 DEF Covers
  <2>3. Covers(s, y) <=> \E i \in 1 .. L : s[i][1] <= y /\ y < s[i][2]
    BY DEF Covers
  <2>4. ASSUME Covers(t, y)
        PROVE  (a <= y /\ y < b) \/ Covers(s, y)
    <3>1. PICK k \in 1 .. L + 1 : t[k][1] <= y /\ y < t[k][2]
      BY <2>2, <2>4
    <3>2. CASE t[k] = e
      BY <1>e, <3>1, <3>2
    <3>3. CASE \E i \in 1 .. L : t[k] = s[i]
      BY <2>3, <3>1, <3>3
    <3> QED
      BY <1>2, <3>2, <3>3
  <2>5. ASSUME a <= y, y < b
        PROVE  Covers(t, y)
    BY <1>4, <1>e, <2>2, <2>5
  <2>6. ASSUME Covers(s, y)
        PROVE  Covers(t, y)
    <3>1. PICK i \in 1 .. L : s[i][1] <= y /\ y < s[i][2]
      BY <2>3, <2>6
    <3>2. PICK k \in 1 .. L + 1 : t[k] = s[i]
      BY <1>3
    <3> QED
      BY <2>2, <3>1, <3>2
  <2> QED
    BY <2>1, <2>4, <2>5, <2>6, CoversMembers
<1>9. Members(s) \cup (a .. b - 1) \in SUBSET Nat
  BY InMembers
<1>10. Members(t) = Members(s) \cup (a .. b - 1)
  BY <1>7, <1>8, <1>9, MembersAre
<1> QED
  BY <1>7, <1>10 DEF t

(* The ranges from number k on moved; x lies between them and the others.  *)
LEMMA Shifted ==
    ASSUME NEW s \in Ranges, NEW k \in 1 .. Len(s) + 1, NEW d \in Int, NEW x \in Nat,
           Splits(s, k, x),
           k <= Len(s) => 0 <= s[k][1] + d,
           1 < k /\ k <= Len(s) => s[k - 1][2] < s[k][1] + d
    PROVE  /\ ShiftFrom(s, k, d) \in Ranges /\ Len(ShiftFrom(s, k, d)) = Len(s)
           /\ \A i \in 1 .. Len(s) : i < k => ShiftFrom(s, k, d)[i] = s[i]
           /\ \A i \in 1 .. Len(s) : k <= i => /\ ShiftFrom(s, k, d)[i][1] = s[i][1] + d
                                               /\ ShiftFrom(s, k, d)[i][2] = s[i][2] + d
           /\ \A z \in Int : z \in Members(ShiftFrom(s, k, d)) <=>
                 (z < x /\ z \in Members(s)) \/ (x <= z - d /\ z - d \in Members(s))
<1> DEFINE L == Len(s)
           t == ShiftFrom(s, k, d)
<1> /\ L = Len(s) /\ t = ShiftFrom(s, k, d) /\ k \in 1 .. L + 1
    /\ (k <= L => 0 <= s[k][1] + d) /\ (1 < k /\ k <= L => s[k - 1][2] < s[k][1] + d)
    /\ \A i \in 1 .. L : i < k => s[i][2] <= x
    /\ \A i \in 1 .. L : k <= i => x <= s[i][1]
  BY DEF Splits
<1> HIDE DEF L, t
<1>0. /\ s \in Seq(Pairs) /\ L \in Nat /\ k \in 1 .. L + 1 /\ DOMAIN s = 1 .. L
      /\ \A i \in 1 .. L : s[i][1] \in Nat /\ s[i][2] \in Nat /\ s[i][1] < s[i][2]
      /\ \A i, j \in 1 .. L : i < j => s[i][2] < s[j][1]
  BY RangesAre
<1>x. /\ \A i \in 1 .. L : i < k => s[i][2] <= x
      /\ \A i \in 1 .. L : k <= i => x <= s[i][1]
  OBVIOUS
<1>1. \A i \in 1 .. L : k <= i => s[i][1] + d \in Nat /\ s[i][2] + d \in Nat
  <2> SUFFICES ASSUME NEW i \in 1 .. L, k <= i
               PROVE  s[i][1] + d \in Nat /\ s[i][2] + d \in Nat
    OBVIOUS
  <2>1. k \in 1 .. L /\ 0 <= s[k][1] + d
    BY <1>0
  <2>2. s[k][1] <= s[i][1]
    <3>1. CASE k = i
      BY <1>0, <3>1
    <3>2. CASE k < i
      <4>1. /\ s[k][1] < s[k][2] /\ s[k][2] < s[i][1]
            /\ s[k][1] \in Nat /\ s[k][2] \in Nat /\ s[i][1] \in Nat
        BY <1>0, <2>1, <3>2
      <4> QED
        BY ONLY <4>1
    <3> QED
      BY <1>0, <3>1, <3>2
  <2>3. s[k][1] \in Nat /\ s[i][1] \in Nat /\ s[i][2] \in Nat /\ s[i][1] < s[i][2]
    BY <1>0, <2>1
  <2>4. 0 <= s[i][1] + d
    <3> DEFINE u == s[k][1]
               v == s[i][1]
    <3>1. u \in Nat /\ v \in Nat /\ u <= v /\ 0 <= u + d
      BY <2>1, <2>2, <2>3
    <3> HIDE DEF u, v
    <3>2. 0 <= v + d
      BY ONLY <3>1, d \in Int
    <3> QED
      BY <3>2 DEF v
  <2> DEFINE u == s[i][1]
             v == s[i][2]
  <2>5. u \in Nat /\ v \in Nat /\ u < v /\ 0 <= u + d
    BY ONLY <2>3, <2>4
  <2> HIDE DEF u, v
  <2>6. u + d \in Nat /\ v + d \in Nat /\ u + d < v + d
    BY ONLY <2>5, d \in Int
  <2> QED
    BY <2>3, <2>6 DEF u, v
<1>2. /\ DOMAIN t = 1 .. L
      /\ \A i \in 1 .. L : i < k => t[i] = s[i]
      /\ \A i \in 1 .. L : k <= i => t[i] = << s[i][1] + d, s[i][2] + d >>
  BY <1>0 DEF ShiftFrom
<1>3. t \in Seq(Pairs) /\ Len(t) = L
  <2>1. ASSUME NEW i \in 1 .. L
        PROVE  t[i] \in Pairs
    <3>1. CASE i < k
      BY <1>0, <1>2, <3>1
    <3>2. CASE k <= i
      <4>1. << s[i][1] + d, s[i][2] + d >> \in Pairs
        BY <1>1, <3>2 DEF Pairs
      <4>2. t[i] = << s[i][1] + d, s[i][2] + d >>
        BY <1>2, <3>2
      <4> QED
        BY <4>1, <4>2, Zenon
    <3> QED
      BY <1>0, <3>1, <3>2
  <2>2. t = [i \in 1 .. L |-> t[i]]
    BY <1>0, <1>2 DEF ShiftFrom
  <2> QED
    BY <1>0, <2>1, <2>2
<1>4. \A i \in 1 .. L : k <= i => t[i][1] = s[i][1] + d /\ t[i][2] = s[i][2] + d
  BY <1>2
<1>5. t \in Ranges
  <2>1. ASSUME NEW i \in 1 .. L
        PROVE  t[i][1] < t[i][2]
    <3>0. s[i][1] \in Nat /\ s[i][2] \in Nat /\ s[i][1] < s[i][2]
      BY <1>0
    <3>1. CASE i < k
      <4>1. t[i] = s[i]
        BY <1>2, <3>1
      <4> QED
        BY <3>0, <4>1
    <3>2. CASE k <= i
      <4>1. t[i][1] = s[i][1] + d /\ t[i][2] = s[i][2] + d
        BY <1>4, <3>2
      <4> QED
        BY ONLY <3>0, <4>1, d \in Int
    <3>3. i < k \/ k <= i
      BY ONLY <1>0, i \in 1 .. L
    <3> QED
      BY <3>1, <3>2, <3>3
  <2>2. ASSUME NEW i \in 1 .. L - 1
        PROVE  t[i][2] < t[i + 1][1]
    <3>0. i \in 1 .. L /\ i + 1 \in 1 .. L /\ i < i + 1
      BY ONLY <1>0, i \in 1 .. L - 1
    <3>1. s[i][2] < s[i + 1][1] /\ s[i][2] \in Nat /\ s[i + 1][1] \in Nat
      BY <1>0, <3>0
    <3>2. CASE i + 1 < k
      <4>1. i < k
        BY ONLY <1>0, <3>0, <3>2
      <4> QED
        BY <1>2, <3>0, <3>1, <3>2, <4>1
    <3>3. CASE i + 1 = k
      <4>1. i = k - 1 /\ 1 < k /\ k <= L /\ i < k /\ k <= i + 1
        BY ONLY <1>0, <3>0, <3>3
      <4>2. s[i][2] < s[k][1] + d
        BY <4>1
      <4>3. t[i] = s[i] /\ t[i + 1][1] = s[i + 1][1] + d
        BY ONLY <1>2, <1>4, <3>0, <4>1
      <4> QED
        BY <3>3, <4>2, <4>3
    <3>4. CASE k <= i
      <4>1. k <= i + 1
        BY ONLY <1>0, <3>0, <3>4
      <4>2. t[i][2] = s[i][2] + d /\ t[i + 1][1] = s[i + 1][1] + d
        BY ONLY <1>4, <3>0, <3>4, <4>1
      <4> DEFINE c1 == s[i][2]
                 c2 == s[i + 1][1]
      <4>3. c1 \in Nat /\ c2 \in Nat /\ c1 < c2
        BY ONLY <3>1
      <4>5. t[i][2] = c1 + d /\ t[i + 1][1] = c2 + d
        BY ONLY <4>2
      <4> HIDE DEF c1, c2
      <4>4. c1 + d < c2 + d
        BY ONLY <4>3, d \in Int
      <4> QED
        BY ONLY <4>4, <4>5
    <3>5. i + 1 < k \/ i + 1 = k \/ k <= i
      BY ONLY <1>0, <3>0
    <3> QED
      BY <3>2, <3>3, <3>4, <3>5
  <2> QED
    BY <1>0, <1>3, <2>1, <2>2, MakesRanges
<1> DEFINE M == {y \in Members(s) : y < x} \cup {y + d : y \in {z \in Members(s) : x <= z}}
<1>6. ASSUME NEW y \in Members(t)
      PROVE  y \in M
  <2>1. PICK i \in 1 .. L : t[i][1] <= y /\ y < t[i][2]
    BY <1>3, <1>5, InMembers
  <2>2. y \in Nat
    BY <1>5, InMembers
  <2>3. CASE i < k
    <3>1. s[i][1] <= y /\ y < s[i][2] /\ s[i][2] <= x /\ s[i][2] \in Nat
      BY <1>0, <1>2, <1>x, <2>1, <2>3
    <3>2. y \in Members(s)
      BY <2>2, <3>1, InMembers
    <3>3. y < x
      BY ONLY <2>2, <3>1, x \in Nat
    <3> QED
      BY <3>2, <3>3
  <2>4. CASE k <= i
    <3>1. /\ s[i][1] + d <= y /\ y < s[i][2] + d /\ x <= s[i][1]
          /\ s[i][1] \in Nat /\ s[i][2] \in Nat
      BY <1>0, <1>4, <1>x, <2>1, <2>4
    <3> DEFINE c1 == s[i][1]
               c2 == s[i][2]
    <3>4. c1 + d <= y /\ y < c2 + d /\ x <= c1 /\ c1 \in Nat /\ c2 \in Nat
      BY ONLY <3>1
    <3> HIDE DEF c1, c2
    <3>5. c1 <= y - d /\ y - d < c2 /\ y - d \in Nat /\ x <= y - d /\ y = (y - d) + d
      BY ONLY <2>2, <3>4, d \in Int, x \in Nat
    <3>2. s[i][1] <= y - d /\ y - d < s[i][2] /\ y - d \in Nat /\ x <= y - d /\ y = (y - d) + d
      BY ONLY <3>5 DEF c1, c2
    <3>3. y - d \in Members(s)
      BY <3>2, InMembers
    <3> QED
      BY <3>2, <3>3
  <2> QED
    BY <1>0, <2>3, <2>4
<1>7. ASSUME NEW y \in Members(s)
      PROVE  (y < x => y \in Members(t)) /\ (x <= y => y + d \in Members(t))
  <2>1. PICK i \in 1 .. L : s[i][1] <= y /\ y < s[i][2]
    BY InMembers
  <2>2. y \in Nat /\ s[i][1] \in Nat /\ s[i][2] \in Nat
    BY <1>0, InMembers
  <2>3. CASE i < k
    <3>1. s[i][2] <= x /\ t[i] = s[i]
      BY <1>2, <1>x, <2>3
    <3>2. ~(x <= y)
      BY ONLY <2>1, <2>2, <3>1, x \in Nat
    <3>3. y \in Members(t)
      BY <1>3, <1>5, <2>1, <2>2, <3>1, InMembers
    <3> QED
      BY <3>2, <3>3
  <2>4. CASE k <= i
    <3>1. x <= s[i][1] /\ t[i][1] = s[i][1] + d /\ t[i][2] = s[i][2] + d /\ s[i][1] + d \in Nat
      BY <1>1, <1>4, <1>x, <2>4
    <3>2. ~(y < x) /\ y + d \in Nat /\ t[i][1] <= y + d /\ y + d < t[i][2]
      <4> DEFINE u == s[i][1]
                 v == s[i][2]
      <4>1. /\ u \in Nat /\ v \in Nat /\ u <= y /\ y < v /\ x <= u /\ u + d \in Nat
            /\ t[i][1] = u + d /\ t[i][2] = v + d
        BY <2>1, <2>2, <3>1
      <4> HIDE DEF u, v
      <4>2. ~(y < x) /\ 0 <= y + d /\ u + d <= y + d /\ y + d < v + d
        BY ONLY <4>1, <2>2, x \in Nat, d \in Int
      <4>3. y + d \in Nat
        BY ONLY <4>2, <2>2, d \in Int
      <4> QED
        BY <4>1, <4>2, <4>3
    <3>3. y + d \in Members(t)
      BY <1>3, <1>5, <3>2, InMembers
    <3> QED
      BY <3>2, <3>3
  <2> QED
    BY <1>0, <2>3, <2>4
<1>8. Members(t) = M
  BY <1>6, <1>7
<1>9. ASSUME NEW z \in Int
      PROVE  z \in M <=> (z < x /\ z \in Members(s)) \/ (x <= z - d /\ z - d \in Members(s))
  <2>1. \A y \in Members(s) : y \in Nat
    BY InMembers
  <2>2. ASSUME x <= z - d, z - d \in Members(s)
        PROVE  z \in {y + d : y \in {u \in Members(s) : x <= u}}
    <3>1. z = (z - d) + d
      BY ONLY z \in Int, d \in Int
    <3> QED
      BY <2>2, <3>1
  <2>3. ASSUME z \in {y + d : y \in {u \in Members(s) : x <= u}}
        PROVE  x <= z - d /\ z - d \in Members(s)
    <3>1. PICK y \in Members(s) : x <= y /\ z = y + d
      BY <2>3
    <3>2. z - d = y
      BY ONLY <3>1, <2>1, d \in Int, y \in Members(s)
    <3> QED
      BY <3>1, <3>2
  <2> QED
    BY <2>2, <2>3
<1> QED
  BY <1>2, <1>3, <1>4, <1>5, <1>8, <1>9 DEF L, t

-----------------------------------------------------------------------------
(* A range is part of its set.                                             *)
LEMMA RangeIn ==
    ASSUME NEW s \in Ranges, NEW i \in 1 .. Len(s)
    PROVE  Held(s, i) \subseteq Members(s)
<1>1. s[i][1] \in Nat /\ s[i][2] \in Nat
  BY RangesAre
<1>2. ASSUME NEW y \in Held(s, i)
      PROVE  y \in Members(s)
  <2>1. y \in Nat /\ s[i][1] <= y /\ y < s[i][2]
    BY <1>1 DEF Held
  <2> QED
    BY <2>1, InMembers
<1> QED
  BY <1>2

(* A range and the next one, joined or nearly joined.                      *)
Join(s, p, b) == [RemoveAt(s, p) EXCEPT ![p - 1] = << s[p - 1][1], b >>]

(* It is a set again, without the gap or with a smaller one.               *)
LEMMA Joined ==
    ASSUME NEW s \in Ranges, NEW p \in 2 .. Len(s), NEW b \in Nat,
           s[p - 1][1] < b, p < Len(s) => b < s[p + 1][1]
    PROVE  /\ Join(s, p, b) \in Ranges /\ Len(Join(s, p, b)) = Len(s) - 1
           /\ Join(s, p, b)[p - 1][2] = b
           /\ \A i \in 1 .. Len(s) : i < p - 1 => Join(s, p, b)[i] = s[i]
           /\ \A i \in 1 .. Len(s) - 1 : p <= i => Join(s, p, b)[i] = s[i + 1]
           /\ Members(Join(s, p, b)) = ((Members(s) \ Held(s, p)) \ Held(s, p - 1))
                                       \cup (s[p - 1][1] .. b - 1)
<1> DEFINE L == Len(s)
           r == RemoveAt(s, p)
           q == p - 1
           a == s[p - 1][1]
           t == Put(r, q, a, b)
<1>j. Join(s, p, b) = t
  BY DEF Join, Put
<1>L. L = Len(s) /\ p \in 2 .. L /\ r = RemoveAt(s, p) /\ q = p - 1 /\ t = Put(r, q, a, b)
      /\ s[q][1] = a
  OBVIOUS
<1>r. /\ L \in Nat
      /\ \A i \in 1 .. L : s[i][1] \in Nat /\ s[i][2] \in Nat /\ s[i][1] < s[i][2]
      /\ \A i, j \in 1 .. L : i < j => s[i][2] < s[j][1]
  BY RangesAre
<1>b. a < b /\ (p < L => b < s[p + 1][1])
  OBVIOUS
<1> HIDE DEF L, r, q, a, t
<1>0. p \in 1 .. L /\ q \in 1 .. L /\ q \in 1 .. L - 1 /\ q < p /\ q + 1 = p /\ p \in Nat /\ L \in Nat
  BY ONLY <1>L, <1>r
<1>1. /\ r \in Ranges /\ Len(r) = L - 1
      /\ \A k \in 1 .. L - 1 : r[k] = IF k < p THEN s[k] ELSE s[k + 1]
      /\ Members(r) = Members(s) \ Held(s, p)
  <2>1. p \in 1 .. Len(s)
    BY <1>0, <1>L
  <2> QED
    BY ONLY <2>1, s \in Ranges, <1>L, Removed
<1>a. a = s[q][1] /\ a \in Nat
  BY <1>0, <1>L, <1>r
<1>2. L - 1 \in Nat /\ r[q] = s[q]
  BY ONLY <1>0, <1>1
<1>3. 1 < q => r[q - 1][2] < a
  <2>1. ASSUME 1 < q
        PROVE  r[q - 1] = s[q - 1] /\ q - 1 \in 1 .. L /\ q - 1 < q
    BY ONLY <1>0, <1>1, <2>1
  <2>2. ASSUME 1 < q
        PROVE  s[q - 1][2] < s[q][1]
    BY <1>0, <1>r, <2>1, <2>2
  <2> QED
    BY <1>a, <2>1, <2>2
<1>4. q < L - 1 => b < r[q + 1][1]
  <2>1. ASSUME q < L - 1
        PROVE  r[q + 1] = s[p + 1] /\ p < L
    <3>1. q + 1 \in 1 .. L - 1 /\ ~(q + 1 < p) /\ q + 1 + 1 = p + 1 /\ p < L
      BY ONLY <1>0, <2>1
    <3> QED
      BY <1>1, <3>1
  <2> QED
    BY <1>b, <2>1
<1>5. /\ t \in Ranges /\ Len(t) = L - 1 /\ t[q][2] = b
      /\ \A i \in 1 .. L - 1 : i # q => t[i] = r[i]
      /\ Members(t) = (Members(r) \ Held(r, q)) \cup (a .. b - 1)
  <2>1. q \in 1 .. Len(r) /\ (q < Len(r) => b < r[q + 1][1])
    BY <1>0, <1>1, <1>4
  <2> DEFINE u == Put(r, q, a, b)
  <2>t. t = u
    BY <1>L
  <2>h. r \in Ranges /\ a \in Nat /\ b \in Nat /\ a < b
    BY <1>1, <1>a, <1>b
  <2>2. /\ u \in Ranges /\ Len(u) = Len(r) /\ u[q][2] = b
        /\ \A i \in 1 .. Len(r) : i # q => u[i] = r[i]
        /\ Members(u) = (Members(r) \ Held(r, q)) \cup (a .. b - 1)
    BY ONLY <2>h, <1>3, <2>1, Replaced
  <2> QED
    BY <1>1, <2>2, <2>t
<1>6. \A i \in 1 .. L : i < q => t[i] = s[i]
  <2> SUFFICES ASSUME NEW i \in 1 .. L, i < q
               PROVE  t[i] = s[i]
    OBVIOUS
  <2>1. i \in 1 .. L - 1 /\ i # q /\ i < p
    BY ONLY <1>0, i \in 1 .. L, i < q
  <2> QED
    BY <1>1, <1>5, <2>1
<1>7. \A i \in 1 .. L - 1 : p <= i => t[i] = s[i + 1]
  <2> SUFFICES ASSUME NEW i \in 1 .. L - 1, p <= i
               PROVE  t[i] = s[i + 1]
    OBVIOUS
  <2>1. i # q /\ ~(i < p)
    BY ONLY <1>0, i \in 1 .. L - 1, p <= i
  <2> QED
    BY <1>1, <1>5, <2>1
<1>8. Members(t) = ((Members(s) \ Held(s, p)) \ Held(s, q)) \cup (a .. b - 1)
  <2>1. Held(r, q) = Held(s, q)
    BY <1>2 DEF Held
  <2> QED
    BY <1>1, <1>5, <2>1
<1>9. t \in Ranges /\ Len(t) = L - 1 /\ t[q][2] = b
  BY <1>5
<1>10. q = p - 1 /\ L = Len(s) /\ a = s[p - 1][1]
  BY DEF q, L, a
<1> QED
  BY <1>6, <1>7, <1>8, <1>9, <1>10, <1>j

(* add_index.                                                              *)
LEMMA AddIndexIs ==
    ASSUME NEW s \in Ranges, NEW x \in Nat
    PROVE  AddIndex(s, x) \in Ranges /\ Members(AddIndex(s, x)) = Members(s) \cup {x}
<1> DEFINE it == Find(s, x)
           t == AddIndex(s, x)
           L == Len(s)
           M == Members(s)
           after == it > 1 /\ s[it - 1][2] = x
           before == it <= L /\ s[it][1] = x + 1
           held == it <= L /\ s[it][1] <= x
<1>0. /\ L \in Nat
      /\ \A i \in 1 .. L : s[i][1] \in Nat /\ s[i][2] \in Nat /\ s[i][1] < s[i][2]
      /\ \A i, j \in 1 .. L : i < j => s[i][2] < s[j][1]
  BY RangesAre
<1>1. held => x \in M
  BY InSetMeans DEF InSet
<1>2. /\ it \in 1 .. L + 1
      /\ ~held => /\ \A i \in 1 .. L : i < it => s[i][2] <= x
                  /\ \A i \in 1 .. L : it <= i => x < s[i][1]
  BY FindIs, Gap
<1>t. t = CASE held -> s
            [] after /\ before -> Join(s, it, s[it][2])
            [] after /\ ~before -> Put(s, it - 1, s[it - 1][1], x + 1)
            [] before /\ ~after -> Put(s, it, x, s[it][2])
            [] OTHER -> PutIn(s, it, x, x + 1)
  BY DEF AddIndex, DoAdd, Join, Put, PutIn
<1>h. \A i \in 1 .. L : Held(s, i) \subseteq M /\ Held(s, i) = s[i][1] .. s[i][2] - 1
  BY RangeIn DEF Held
<1>L. L = Len(s)
  OBVIOUS
<1> HIDE DEF it, t, L, M
<1>3. CASE held
  <2>a. ~after
    <3>1. it > 1 => it - 1 \in 1 .. L /\ it \in 1 .. L /\ it - 1 < it
      BY ONLY <1>0, <1>2, <1>3
    <3>2. it > 1 => s[it - 1][2] < s[it][1] /\ s[it - 1][2] \in Nat /\ s[it][1] \in Nat
      BY <1>0, <3>1
    <3> QED
      BY <1>3, <3>2
  <2>b. ~before
    <3>1. it \in 1 .. L
      BY ONLY <1>0, <1>2, <1>3
    <3>2. s[it][1] \in Nat
      BY <1>0, <3>1
    <3> QED
      BY <1>3, <3>2
  <2> HIDE DEF after, before, held
  <2>1. t = s
    BY <1>t, <1>3, <2>a, <2>b
  <2>2. t \in Ranges /\ Members(t) = M \cup {x}
    BY <1>1, <1>3, <2>1 DEF M
  <2> QED
    BY <2>2 DEF t, M
<1>4. CASE ~held /\ after /\ before
  <2>1. it \in 2 .. L /\ it - 1 \in 1 .. L /\ it \in 1 .. L /\ it - 1 < it
    BY ONLY <1>0, <1>2, <1>4
  <2> DEFINE b == s[it][2]
             a == s[it - 1][1]
  <2>2. b \in Nat /\ a \in Nat /\ a < x /\ x + 1 < b /\ s[it][1] = x + 1 /\ s[it - 1][2] = x
    BY <1>0, <1>4, <2>1
  <2>3. it < L => b < s[it + 1][1]
    <3>1. it < L => it + 1 \in 1 .. L /\ it < it + 1
      BY ONLY <1>0, <2>1
    <3> QED
      BY <1>0, <2>1, <3>1
  <2>4. t = Join(s, it, b)
    BY <1>t, <1>4
  <2>5. Held(s, it) = x + 1 .. b - 1 /\ Held(s, it - 1) = a .. x - 1
    BY <1>h, <2>1, <2>2
  <2>s. s[it - 1][1] < b
    BY <2>2
  <2> HIDE DEF b
  <2>6. t \in Ranges /\ Members(t) = ((M \ Held(s, it)) \ Held(s, it - 1)) \cup (s[it - 1][1] .. b - 1)
    <3>1. it \in 2 .. Len(s) /\ (it < Len(s) => b < s[it + 1][1])
      BY ONLY <2>1, <2>3, <1>L
    <3> QED
      BY ONLY <3>1, <2>2, <2>4, <2>s, s \in Ranges, Joined DEF M
  <2>7. Members(t) = ((M \ Held(s, it)) \ Held(s, it - 1)) \cup (a .. b - 1)
    BY <2>6
  <2> HIDE DEF a
  <2>8. a .. b - 1 = (a .. x - 1) \cup {x} \cup (x + 1 .. b - 1)
    BY <2>2
  <2>9. Members(t) = M \cup {x}
    BY <1>h, <2>1, <2>5, <2>7, <2>8
  <2> QED
    BY <2>6, <2>9 DEF t, M
<1>5. CASE ~held /\ after /\ ~before
  <2> DEFINE p == it - 1
             a == s[p][1]
  <2>1. p \in 1 .. L /\ p < it /\ p + 1 = it
    BY ONLY <1>0, <1>2, <1>5
  <2>2. a \in Nat /\ a < x /\ s[p][2] = x /\ a < x + 1 /\ x + 1 \in Nat
    BY <1>0, <1>5, <2>1
  <2>3. p < L => x + 1 < s[p + 1][1]
    <3>1. p < L => it \in 1 .. L /\ it <= it /\ it <= L
      BY ONLY <1>0, <1>2, <2>1
    <3>2. p < L => x < s[it][1] /\ s[it][1] \in Nat /\ s[it][1] # x + 1
      BY <1>0, <1>2, <1>5, <3>1
    <3>3. p < L => x + 1 < s[it][1]
      BY ONLY <3>2, x \in Nat
    <3> QED
      BY <2>1, <3>3
  <2>4. 1 < p => s[p - 1][2] < a
    <3>1. 1 < p => p - 1 \in 1 .. L /\ p - 1 < p
      BY ONLY <1>0, <2>1
    <3> QED
      BY <1>0, <2>1, <3>1
  <2>5. t = Put(s, p, a, x + 1)
    BY <1>t, <1>5
  <2>6. Held(s, p) = a .. x - 1 /\ Held(s, p) = s[p][1] .. s[p][2] - 1 /\ Held(s, p) \subseteq M
    BY <1>h, <2>1, <2>2
  <2> HIDE DEF p, a
  <2>7. t \in Ranges /\ Members(t) = (M \ Held(s, p)) \cup (a .. (x + 1) - 1)
    <3>1. p \in 1 .. Len(s) /\ (p < Len(s) => x + 1 < s[p + 1][1])
      BY ONLY <2>1, <2>3, <1>L
    <3> QED
      BY ONLY <3>1, <2>2, <2>4, <2>5, s \in Ranges, Replaced DEF M
  <2>8. a .. (x + 1) - 1 = (a .. x - 1) \cup {x}
    BY <2>2
  <2>9. Members(t) = M \cup {x}
    BY <2>6, <2>7, <2>8
  <2> QED
    BY <2>7, <2>9 DEF t, M
<1>6. CASE ~held /\ before /\ ~after
  <2> DEFINE b == s[it][2]
  <2>1. it \in 1 .. L
    BY ONLY <1>0, <1>2, <1>6
  <2>2. b \in Nat /\ x + 1 < b /\ s[it][1] = x + 1 /\ x < b
    BY <1>0, <1>6, <2>1
  <2>3. it < L => b < s[it + 1][1]
    <3>1. it < L => it + 1 \in 1 .. L /\ it < it + 1
      BY ONLY <1>0, <2>1
    <3> QED
      BY <1>0, <2>1, <3>1
  <2>4. 1 < it => s[it - 1][2] < x
    <3>1. 1 < it => it - 1 \in 1 .. L /\ it - 1 < it
      BY ONLY <1>0, <2>1
    <3>2. 1 < it => s[it - 1][2] <= x /\ s[it - 1][2] # x /\ s[it - 1][2] \in Nat
      BY <1>0, <1>2, <1>6, <3>1
    <3> QED
      BY ONLY <3>2, x \in Nat
  <2>5. t = Put(s, it, x, b)
    BY <1>t, <1>6
  <2>6. Held(s, it) = x + 1 .. b - 1 /\ Held(s, it) = s[it][1] .. s[it][2] - 1 /\ Held(s, it) \subseteq M
    BY <1>h, <2>1, <2>2
  <2> HIDE DEF b
  <2>7. t \in Ranges /\ Members(t) = (M \ Held(s, it)) \cup (x .. b - 1)
    <3>1. it \in 1 .. Len(s) /\ (it < Len(s) => b < s[it + 1][1])
      BY ONLY <2>1, <2>3, <1>L
    <3> QED
      BY ONLY <3>1, <2>2, <2>4, <2>5, s \in Ranges, x \in Nat, Replaced DEF M
  <2>8. x .. b - 1 = {x} \cup (x + 1 .. b - 1)
    BY <2>2
  <2>9. Members(t) = M \cup {x}
    BY <2>6, <2>7, <2>8
  <2> QED
    BY <2>7, <2>9 DEF t, M
<1>7. CASE ~held /\ ~after /\ ~before
  <2>1. 1 < it => s[it - 1][2] < x
    <3>1. 1 < it => it - 1 \in 1 .. L /\ it - 1 < it
      BY ONLY <1>0, <1>2
    <3>2. 1 < it => s[it - 1][2] <= x /\ s[it - 1][2] # x /\ s[it - 1][2] \in Nat
      BY <1>0, <1>2, <1>7, <3>1
    <3> QED
      BY ONLY <3>2, x \in Nat
  <2>2. it <= L => x + 1 < s[it][1]
    <3>1. it <= L => it \in 1 .. L /\ it <= it
      BY ONLY <1>0, <1>2
    <3>2. it <= L => x < s[it][1] /\ s[it][1] \in Nat /\ s[it][1] # x + 1
      BY <1>0, <1>2, <1>7, <3>1
    <3> QED
      BY ONLY <3>2, x \in Nat
  <2>3. x + 1 \in Nat /\ x < x + 1
    OBVIOUS
  <2>4. t = PutIn(s, it, x, x + 1)
    BY <1>t, <1>7
  <2>5. t \in Ranges /\ Members(t) = M \cup (x .. (x + 1) - 1)
    <3> DEFINE b == x + 1
    <3>1. it \in 1 .. Len(s) + 1 /\ (it <= Len(s) => b < s[it][1])
      BY ONLY <1>2, <2>2, <1>L
    <3>2. b \in Nat /\ x < b /\ t = PutIn(s, it, x, b)
      BY <2>4
    <3> HIDE DEF b
    <3>3. PutIn(s, it, x, b) \in Ranges /\ Members(PutIn(s, it, x, b)) = Members(s) \cup (x .. b - 1)
      BY ONLY <3>1, <2>1, <3>2, s \in Ranges, x \in Nat, Inserted
    <3> QED
      BY <3>2, <3>3 DEF b, M
  <2>6. x .. (x + 1) - 1 = {x}
    OBVIOUS
  <2> QED
    BY <2>5, <2>6 DEF t, M
<1> QED
  BY <1>3, <1>4, <1>5, <1>6, <1>7

-----------------------------------------------------------------------------
(* The ranges from number k on moved up.                                   *)
LEMMA MovedUp ==
    ASSUME NEW s \in Ranges, NEW k \in 1 .. Len(s) + 1, NEW X \in Nat, Splits(s, k, X), NEW n \in Nat
    PROVE  /\ ShiftFrom(s, k, n) \in Ranges /\ Len(ShiftFrom(s, k, n)) = Len(s)
           /\ \A i \in 1 .. Len(s) : i < k => ShiftFrom(s, k, n)[i] = s[i]
           /\ \A i \in 1 .. Len(s) : k <= i => /\ ShiftFrom(s, k, n)[i][1] = s[i][1] + n
                                               /\ ShiftFrom(s, k, n)[i][2] = s[i][2] + n
           /\ \A z \in Int : z \in Members(ShiftFrom(s, k, n)) <=>
                 (z < X /\ z \in Members(s)) \/ (X <= z - n /\ z - n \in Members(s))
<1>0. /\ Len(s) \in Nat
      /\ \A i \in 1 .. Len(s) : s[i][1] \in Nat /\ s[i][2] \in Nat /\ s[i][1] < s[i][2]
      /\ \A i, j \in 1 .. Len(s) : i < j => s[i][2] < s[j][1]
  BY RangesAre
<1>1. k <= Len(s) => 0 <= s[k][1] + n
  BY <1>0
<1>2. 1 < k /\ k <= Len(s) => s[k - 1][2] < s[k][1] + n
  <2>1. 1 < k /\ k <= Len(s) => k - 1 \in 1 .. Len(s) /\ k \in 1 .. Len(s) /\ k - 1 < k
    BY <1>0
  <2>2. 1 < k /\ k <= Len(s) => /\ s[k - 1][2] < s[k][1]
                                /\ s[k - 1][2] \in Nat /\ s[k][1] \in Nat
    BY <1>0, <2>1
  <2> QED
    BY ONLY <2>2, n \in Nat
<1>3. n \in Int
  OBVIOUS
<1> QED
  BY <1>1, <1>2, <1>3, Shifted

(* shift_for_insert_at.                                                    *)
LEMMA ShiftForInsertIs ==
    ASSUME NEW s \in Ranges, NEW x \in Nat, NEW n \in Nat, n > 0
    PROVE  /\ ShiftForInsert(s, x, n) \in Ranges
           /\ \A z \in Nat : z \in Members(ShiftForInsert(s, x, n)) <=>
                (z < x /\ z \in Members(s)) \/ (x <= z - n /\ z - n \in Members(s))
<1> DEFINE it == Find(s, x)
           t == ShiftForInsert(s, x, n)
           L == Len(s)
           M == Members(s)
           r == ShiftFrom(s, it, n)
           cut == it <= L /\ s[it][1] < x
<1>0. /\ L \in Nat
      /\ \A i \in 1 .. L : s[i][1] \in Nat /\ s[i][2] \in Nat /\ s[i][1] < s[i][2]
      /\ \A i, j \in 1 .. L : i < j => s[i][2] < s[j][1]
  BY RangesAre
<1>1. /\ it \in 1 .. L + 1
      /\ \A i \in 1 .. L : i < it <=> s[i][2] <= x
  BY FindIs
<1>t. t = IF cut THEN PutIn(Put(r, it, s[it][1], x), it + 1, x + n, s[it][2] + n) ELSE r
  BY DEF ShiftForInsert, Put, PutIn
<1>L. L = Len(s) /\ M = Members(s)
  OBVIOUS
<1>r. r = ShiftFrom(s, it, n)
  OBVIOUS
<1>n. n \in Int /\ 0 < n
  OBVIOUS
<1> HIDE DEF it, t, L, M, r
<1>2. ASSUME NEW X \in Nat, Splits(s, it, X)
      PROVE  /\ r \in Ranges /\ Len(r) = L
             /\ \A i \in 1 .. L : i < it => r[i] = s[i]
             /\ \A i \in 1 .. L : it <= i => r[i][1] = s[i][1] + n /\ r[i][2] = s[i][2] + n
             /\ \A z \in Int : z \in Members(r) <=> (z < X /\ z \in M) \/ (X <= z - n /\ z - n \in M)
  <2>1. it \in 1 .. Len(s) + 1
    BY <1>1, <1>L
  <2>4. /\ ShiftFrom(s, it, n) \in Ranges /\ Len(ShiftFrom(s, it, n)) = Len(s)
        /\ \A i \in 1 .. Len(s) : i < it => ShiftFrom(s, it, n)[i] = s[i]
        /\ \A i \in 1 .. Len(s) : it <= i => /\ ShiftFrom(s, it, n)[i][1] = s[i][1] + n
                                             /\ ShiftFrom(s, it, n)[i][2] = s[i][2] + n
        /\ \A z \in Int : z \in Members(ShiftFrom(s, it, n)) <=>
              (z < X /\ z \in Members(s)) \/ (X <= z - n /\ z - n \in Members(s))
    BY ONLY <1>2, <2>1, s \in Ranges, X \in Nat, n \in Nat, MovedUp
  <2> QED
    BY <2>4, <1>L, <1>r
<1>3. CASE ~cut
  <2>1. Splits(s, it, x)
    <3>1. \A i \in 1 .. L : it <= i => x <= s[i][1]
      <4> SUFFICES ASSUME NEW i \in 1 .. L, it <= i
                   PROVE  x <= s[i][1]
        OBVIOUS
      <4>1. it \in 1 .. L
        BY ONLY <1>0, <1>1, it <= i, i \in 1 .. L
      <4>2. x <= s[it][1]
        BY <1>0, <1>3, <4>1
      <4>3. CASE i = it
        BY <4>2, <4>3
      <4>4. CASE it < i
        <5>1. /\ s[it][1] < s[it][2] /\ s[it][2] < s[i][1]
              /\ s[it][1] \in Nat /\ s[it][2] \in Nat /\ s[i][1] \in Nat
          BY <1>0, <4>1, <4>4
        <5> QED
          BY ONLY <4>2, <5>1, x \in Nat
      <4> QED
        BY <1>1, <4>3, <4>4
    <3> QED
      BY <1>1, <3>1, <1>L DEF Splits
  <2>2. r \in Ranges /\ \A z \in Int : z \in Members(r) <=> (z < x /\ z \in M) \/ (x <= z - n /\ z - n \in M)
    BY <1>2, <2>1
  <2>3. t = r
    BY <1>t, <1>3
  <2> QED
    BY <2>2, <2>3 DEF t, M
<1>4. CASE cut
  <2> DEFINE a == s[it][1]
             b == s[it][2]
             u == Put(r, it, a, x)
  <2>1. it \in 1 .. L
    BY ONLY <1>0, <1>1, <1>4
  <2>2. a \in Nat /\ b \in Nat /\ a < x /\ x < b /\ ~(b <= x)
    BY <1>0, <1>1, <1>4, <2>1
  <2>ab. a = s[it][1] /\ b = s[it][2] /\ u = Put(r, it, a, x)
    OBVIOUS
  <2>t. t = PutIn(u, it + 1, x + n, b + n)
    BY <1>t, <1>4
  <2> HIDE DEF a, b, u
  <2>3. Splits(s, it, a)
    <3>1. \A i \in 1 .. L : i < it => s[i][2] <= a
      BY <1>0, <2>1, <2>ab
    <3>2. ASSUME NEW i \in 1 .. L, it <= i
          PROVE  a <= s[i][1]
      <4>3. CASE i = it
        BY <2>2, <2>ab, <4>3
      <4>4. CASE it < i
        <5>1. b < s[i][1] /\ s[i][1] \in Nat /\ a < b
          BY <1>0, <2>1, <2>ab, <4>4
        <5> QED
          BY ONLY <2>2, <5>1
      <4> QED
        BY <1>1, <3>2, <4>3, <4>4
    <3> QED
      BY <3>1, <3>2, <1>L DEF Splits
  <2>4. /\ r \in Ranges /\ Len(r) = L
        /\ \A i \in 1 .. L : i < it => r[i] = s[i]
        /\ \A i \in 1 .. L : it <= i => r[i][1] = s[i][1] + n /\ r[i][2] = s[i][2] + n
        /\ \A z \in Int : z \in Members(r) <=> (z < a /\ z \in M) \/ (a <= z - n /\ z - n \in M)
    BY <1>2, <2>2, <2>3
  <2>5. 1 < it => r[it - 1][2] < a
    <3>1. 1 < it => it - 1 \in 1 .. L /\ it - 1 < it
      BY ONLY <1>0, <2>1
    <3> QED
      BY <1>0, <2>1, <2>4, <2>ab, <3>1
  <2>6. it < L => r[it + 1][1] = s[it + 1][1] + n /\ b < s[it + 1][1] /\ s[it + 1][1] \in Nat
    <3>1. it < L => it + 1 \in 1 .. L /\ it < it + 1 /\ it <= it + 1
      BY ONLY <1>0, <2>1
    <3> QED
      BY <1>0, <2>1, <2>4, <2>ab, <3>1
  <2>7. it < L => x < r[it + 1][1] /\ b + n < r[it + 1][1]
    BY ONLY <2>2, <2>6, <1>n, x \in Nat
  <2>8. /\ u \in Ranges /\ Len(u) = L
        /\ u[it][2] = x
        /\ \A i \in 1 .. L : i # it => u[i] = r[i]
        /\ Members(u) = (Members(r) \ Held(r, it)) \cup (a .. x - 1)
    <3>1. it \in 1 .. Len(r) /\ (it < Len(r) => x < r[it + 1][1])
      BY <2>1, <2>4, <2>7
    <3>2. r \in Ranges /\ a \in Nat /\ x \in Nat /\ a < x
      BY <2>2, <2>4
    <3>3. /\ Put(r, it, a, x) \in Ranges /\ Len(Put(r, it, a, x)) = Len(r)
          /\ Put(r, it, a, x)[it][2] = x
          /\ \A i \in 1 .. Len(r) : i # it => Put(r, it, a, x)[i] = r[i]
          /\ Members(Put(r, it, a, x)) = (Members(r) \ Held(r, it)) \cup (a .. x - 1)
      BY ONLY <2>5, <3>1, <3>2, Replaced
    <3> QED
      BY <2>4, <2>ab, <3>3
  <2>9. t \in Ranges /\ Members(t) = Members(u) \cup (x + n .. (b + n) - 1)
    <3> DEFINE p == it + 1
               c == x + n
               d == b + n
    <3>1. p \in 1 .. Len(u) + 1 /\ c \in Nat /\ d \in Nat /\ c < d /\ x < c
      BY ONLY <1>0, <1>n, <2>1, <2>2, <2>8, x \in Nat, n \in Nat
    <3>2. 1 < p => u[p - 1][2] < c
      <4>1. p - 1 = it
        BY <2>1
      <4> QED
        BY <2>8, <3>1, <4>1
    <3>3. p <= Len(u) => d < u[p][1]
      <4>1. p <= Len(u) => p \in 1 .. L /\ p # it /\ it < L
        BY ONLY <1>0, <2>1, <2>8
      <4> QED
        BY <2>7, <2>8, <4>1
    <3>4. t = PutIn(u, p, c, d) /\ u \in Ranges
      BY <2>t, <2>8
    <3> HIDE DEF p, c, d
    <3>5. PutIn(u, p, c, d) \in Ranges /\ Members(PutIn(u, p, c, d)) = Members(u) \cup (c .. d - 1)
      BY ONLY <3>1, <3>2, <3>3, <3>4, Inserted
    <3>6. c .. d - 1 = x + n .. (b + n) - 1
      BY DEF c, d
    <3> QED
      BY <3>4, <3>5, <3>6
  <2>10. Held(r, it) = a + n .. (b + n) - 1
    <3>1. it \in 1 .. L /\ it <= it
      BY <2>1
    <3>2. r[it][1] = a + n /\ r[it][2] = b + n
      BY <2>4, <2>ab, <3>1
    <3> QED
      BY <3>2 DEF Held
  <2>11. \A z \in Int : a <= z /\ z < b => z \in M
    <3>1. Held(s, it) \subseteq M /\ Held(s, it) = a .. b - 1
      BY <2>1, <2>ab, <1>L, RangeIn DEF Held
    <3> QED
      BY <2>2, <3>1
  <2>12. ASSUME NEW z \in Nat
         PROVE  z \in Members(t) <=> (z < x /\ z \in M) \/ (x <= z - n /\ z - n \in M)
    <3>1. z \in Members(t) <=> (z \in Members(r) /\ ~(a + n <= z /\ z < b + n))
                               \/ (a <= z /\ z < x) \/ (x + n <= z /\ z < b + n)
      BY <2>2, <2>8, <2>9, <2>10
    <3>2. z \in Members(r) <=> (z < a /\ z \in M) \/ (a <= z - n /\ z - n \in M)
      BY <2>4
    <3>3. (a <= z /\ z < b => z \in M) /\ (a <= z - n /\ z - n < b => z - n \in M)
      <4>1. z - n \in Int /\ z \in Int
        BY <1>n
      <4> QED
        BY <2>11, <4>1
    <3> QED
      BY ONLY <1>n, <2>2, <3>1, <3>2, <3>3, x \in Nat, z \in Nat
  <2> QED
    BY <2>9, <2>12 DEF t, M
<1> QED
  BY <1>3, <1>4

-----------------------------------------------------------------------------
(* The ranges from number k on moved one down.                             *)
LEMMA MovedDown ==
    ASSUME NEW r \in Ranges, NEW k \in 1 .. Len(r) + 1, NEW X \in Nat, Splits(r, k, X), X > 0,
           1 < k /\ k <= Len(r) => r[k - 1][2] + 1 < r[k][1]
    PROVE  /\ ShiftFrom(r, k, -1) \in Ranges
           /\ \A z \in Nat : z \in Members(ShiftFrom(r, k, -1)) <=>
                 (z < X /\ z \in Members(r)) \/ (X <= z + 1 /\ z + 1 \in Members(r))
<1> DEFINE d == -1
<1>0. /\ Len(r) \in Nat
      /\ \A i \in 1 .. Len(r) : r[i][1] \in Nat /\ r[i][2] \in Nat
  BY RangesAre
<1>d. d \in Int /\ \A z \in Nat : z - d = z + 1 /\ z \in Int
  OBVIOUS
<1>1. k <= Len(r) => 0 <= r[k][1] + d
  <2>1. k <= Len(r) => k \in 1 .. Len(r) /\ k <= k
    BY <1>0
  <2>2. k <= Len(r) => X <= r[k][1] /\ r[k][1] \in Nat
    BY <1>0, <2>1 DEF Splits
  <2> QED
    BY <2>2
<1>2. 1 < k /\ k <= Len(r) => r[k - 1][2] < r[k][1] + d
  <2>1. 1 < k /\ k <= Len(r) => k - 1 \in 1 .. Len(r) /\ k \in 1 .. Len(r)
    BY <1>0
  <2>2. 1 < k /\ k <= Len(r) => r[k - 1][2] \in Nat /\ r[k][1] \in Nat
    BY <1>0, <2>1
  <2> SUFFICES ASSUME 1 < k, k <= Len(r)
               PROVE  r[k - 1][2] < r[k][1] + d
    OBVIOUS
  <2> DEFINE c1 == r[k - 1][2]
             c2 == r[k][1]
  <2>3. c1 \in Nat /\ c2 \in Nat /\ c1 + 1 < c2
    BY <2>2
  <2> HIDE DEF c1, c2
  <2>4. c1 < c2 + d
    BY ONLY <2>3
  <2> QED
    BY <2>4 DEF c1, c2
<1> HIDE DEF d
<1>3. /\ ShiftFrom(r, k, d) \in Ranges
      /\ \A z \in Int : z \in Members(ShiftFrom(r, k, d)) <=>
            (z < X /\ z \in Members(r)) \/ (X <= z - d /\ z - d \in Members(r))
  BY <1>1, <1>2, <1>d, Shifted
<1>4. \A z \in Nat : z \in Members(ShiftFrom(r, k, d)) <=>
            (z < X /\ z \in Members(r)) \/ (X <= z + 1 /\ z + 1 \in Members(r))
  BY <1>3, <1>d
<1>5. ShiftFrom(r, k, d) = ShiftFrom(r, k, -1)
  BY DEF d
<1> QED
  BY <1>3, <1>4, <1>5

(* erase_at.                                                               *)
LEMMA EraseIndexIs ==
    ASSUME NEW s \in Ranges, NEW x \in Nat
    PROVE  /\ EraseIndex(s, x) \in Ranges
           /\ \A z \in Nat : z \in Members(EraseIndex(s, x)) <=>
                (z < x /\ z \in Members(s)) \/ (x <= z /\ z + 1 \in Members(s))
<1> DEFINE it == Find(s, x)
           t == EraseIndex(s, x)
           L == Len(s)
           M == Members(s)
           a == s[it][1]
           b == s[it][2]
           holds == a <= x
           single == a + 1 = b
           closes == ~holds /\ it > 1 /\ s[it - 1][2] + 1 = a
<1>0. /\ L \in Nat
      /\ \A i \in 1 .. L : s[i][1] \in Nat /\ s[i][2] \in Nat /\ s[i][1] < s[i][2]
      /\ \A i, j \in 1 .. L : i < j => s[i][2] < s[j][1]
  BY RangesAre
<1>1. it \in 1 .. L + 1 /\ \A i \in 1 .. L : i < it <=> s[i][2] <= x
  BY FindIs
<1>g. ~(it <= L /\ s[it][1] <= x) => \A i \in 1 .. L : it <= i => x < s[i][1]
  BY Gap
<1>t. t = IF ~(it <= L) THEN s
          ELSE CASE holds /\ single -> ShiftFrom(RemoveAt(s, it), it, -1)
                 [] holds /\ ~single -> ShiftFrom(Put(s, it, a, b - 1), it + 1, -1)
                 [] closes -> ShiftFrom(Join(s, it, b - 1), it, -1)
                 [] OTHER -> ShiftFrom(s, it, -1)
  BY DEF EraseIndex, DoErase, Put, Join
<1>L. L = Len(s) /\ M = Members(s) /\ a = s[it][1] /\ b = s[it][2]
  OBVIOUS
<1>m. \A y \in Nat : y \in M <=> \E i \in 1 .. L : s[i][1] <= y /\ y < s[i][2]
  BY InMembers
<1> HIDE DEF it, t, L, M, a, b
<1>2. CASE ~(it <= L)
  <2>1. t = s
    BY <1>t, <1>2
  <2>2. \A i \in 1 .. L : s[i][2] <= x
    BY <1>0, <1>1, <1>2
  <2>3. ASSUME NEW y \in Nat, y \in M
        PROVE  y < x
    <3>1. PICK i \in 1 .. L : s[i][1] <= y /\ y < s[i][2]
      BY <1>m, <2>3
    <3>2. s[i][2] <= x /\ s[i][2] \in Nat
      BY <1>0, <2>2
    <3> QED
      BY ONLY <3>1, <3>2, x \in Nat, y \in Nat
  <2>4. ASSUME NEW z \in Nat
        PROVE  z \in M <=> (z < x /\ z \in M) \/ (x <= z /\ z + 1 \in M)
    <3>1. z + 1 \in Nat /\ (z + 1 \in M => z + 1 < x) /\ (z \in M => z < x)
      BY <2>3
    <3> QED
      BY <3>1
  <2> QED
    BY <2>1, <2>4, <1>L DEF t
<1>3. ASSUME it <= L
      PROVE  /\ it \in 1 .. L /\ a \in Nat /\ b \in Nat /\ a < b /\ x < b
             /\ it < L => it + 1 \in 1 .. L /\ b < s[it + 1][1] /\ s[it + 1][1] \in Nat
             /\ 1 < it => /\ it - 1 \in 1 .. L /\ s[it - 1][2] < a /\ s[it - 1][2] \in Nat
                          /\ s[it - 1][2] <= x
             /\ Held(s, it) = a .. b - 1 /\ Held(s, it) \subseteq M
  <2>1. it \in 1 .. L
    BY ONLY <1>0, <1>1, <1>3
  <2>2. a \in Nat /\ b \in Nat /\ a < b /\ ~(b <= x)
    BY <1>0, <1>1, <1>L, <2>1
  <2>3. it < L => it + 1 \in 1 .. L /\ it < it + 1
    BY ONLY <1>0, <2>1
  <2>4. 1 < it => it - 1 \in 1 .. L /\ it - 1 < it
    BY ONLY <1>0, <2>1
  <2>5. it < L => b < s[it + 1][1] /\ s[it + 1][1] \in Nat
    BY <1>0, <1>L, <2>1, <2>3
  <2>6. 1 < it => s[it - 1][2] < a /\ s[it - 1][2] \in Nat /\ s[it - 1][2] <= x
    BY <1>0, <1>1, <1>L, <2>1, <2>4
  <2>7. Held(s, it) = a .. b - 1 /\ Held(s, it) \subseteq M
    <3>1. Held(s, it) \subseteq M
      BY <1>L, <2>1, RangeIn
    <3> QED
      BY <1>L, <3>1 DEF Held
  <2> QED
    BY <2>1, <2>2, <2>3, <2>4, <2>5, <2>6, <2>7
<1>x. \A i \in 1 .. L : i < it => s[i][2] <= x /\ s[i][2] \in Nat
  BY <1>0, <1>1
<1>y. ASSUME it <= L, NEW i \in 1 .. L, it < i
      PROVE  b < s[i][1] /\ s[i][1] \in Nat
  BY <1>0, <1>3, <1>L, <1>y
<1>n. ~(b <= x) \/ ~(it <= L)
  BY <1>3
<1>4. CASE it <= L /\ holds /\ single
  <2> DEFINE r == RemoveAt(s, it)
             X == x + 1
  <2>0. a = x /\ b = x + 1 /\ X \in Nat /\ X > 0
    BY <1>3, <1>4
  <2>1. /\ r \in Ranges /\ Len(r) = L - 1
        /\ \A k \in 1 .. L - 1 : r[k] = IF k < it THEN s[k] ELSE s[k + 1]
        /\ Members(r) = M \ Held(s, it)
    BY <1>3, <1>4, <1>L, Removed
  <2>t. t = ShiftFrom(r, it, -1)
    <3>1. it <= L /\ holds /\ single /\ ~closes
      BY <1>4
    <3> HIDE DEF holds, single, closes
    <3> QED
      BY <1>t, <3>1
  <2> HIDE DEF r
  <2>2. it \in 1 .. Len(r) + 1
    BY ONLY <1>0, <1>3, <1>4, <2>1
  <2>3. Splits(r, it, X)
    <3>1. ASSUME NEW i \in 1 .. L - 1, i < it
          PROVE  r[i][2] <= X
      <4>1. i \in 1 .. L /\ r[i] = s[i]
        BY ONLY <1>0, <2>1, <3>1, i \in 1 .. L - 1
      <4>2. s[i][2] <= x /\ s[i][2] \in Nat
        BY <1>x, <3>1, <4>1
      <4> QED
        BY ONLY <4>1, <4>2, x \in Nat
    <3>2. ASSUME NEW i \in 1 .. L - 1, it <= i
          PROVE  X <= r[i][1]
      <4>1. i + 1 \in 1 .. L /\ it < i + 1 /\ r[i] = s[i + 1]
        BY ONLY <1>0, <1>1, <2>1, <3>2, i \in 1 .. L - 1
      <4>2. b < s[i + 1][1] /\ s[i + 1][1] \in Nat
        BY <1>4, <1>y, <4>1
      <4> QED
        BY ONLY <2>0, <4>1, <4>2, x \in Nat
    <3> QED
      BY <2>1, <3>1, <3>2 DEF Splits
  <2>4. 1 < it /\ it <= Len(r) => r[it - 1][2] + 1 < r[it][1]
    <3> SUFFICES ASSUME 1 < it, it <= Len(r)
                 PROVE  r[it - 1][2] + 1 < r[it][1]
      OBVIOUS
    <3>1. it - 1 \in 1 .. L - 1 /\ it \in 1 .. L - 1 /\ it < L /\ it - 1 < it
      BY <1>0, <1>1, <2>1
    <3>2. r[it - 1] = s[it - 1] /\ r[it] = s[it + 1]
      BY ONLY <2>1, <3>1, <1>1
    <3>3. b < s[it + 1][1] /\ s[it + 1][1] \in Nat /\ s[it - 1][2] < a /\ s[it - 1][2] \in Nat
      BY <1>3, <1>4, <3>1
    <3> QED
      BY ONLY <2>0, <3>2, <3>3, x \in Nat
  <2> HIDE DEF X
  <2>5. /\ ShiftFrom(r, it, -1) \in Ranges
        /\ \A z \in Nat : z \in Members(ShiftFrom(r, it, -1)) <=>
              (z < X /\ z \in Members(r)) \/ (X <= z + 1 /\ z + 1 \in Members(r))
    BY ONLY <2>0, <2>1, <2>2, <2>3, <2>4, MovedDown
  <2>6. \A y \in Nat : y \in Members(r) <=> y \in M /\ y # x
    <3>1. Held(s, it) = {x}
      BY <1>3, <1>4, <2>0
    <3> QED
      BY <2>1, <3>1
  <2>7. ASSUME NEW z \in Nat
        PROVE  z \in Members(t) <=> (z < x /\ z \in M) \/ (x <= z /\ z + 1 \in M)
    <3>1. z \in Members(t) <=> (z < x + 1 /\ z \in M /\ z # x)
                               \/ (x + 1 <= z + 1 /\ z + 1 \in M /\ z + 1 # x)
      <4>1. z + 1 \in Nat
        OBVIOUS
      <4> QED
        BY <2>5, <2>6, <2>t, <4>1 DEF X
    <3> QED
      BY ONLY <3>1, x \in Nat, z \in Nat
  <2> QED
    BY <2>5, <2>7, <2>t, <1>L DEF t
<1>5. CASE it <= L /\ holds /\ ~single
  <2> DEFINE c == b - 1
             k == it + 1
             r == Put(s, it, a, c)
  <2>0. c \in Nat /\ a < c /\ b > 0 /\ x <= c /\ b = c + 1
    BY <1>3, <1>5
  <2>1. /\ r \in Ranges /\ Len(r) = L /\ r[it][2] = c
        /\ \A i \in 1 .. L : i # it => r[i] = s[i]
        /\ Members(r) = (M \ Held(s, it)) \cup (a .. c - 1)
    <3>1. it \in 1 .. Len(s) /\ (1 < it => s[it - 1][2] < a) /\ a \in Nat
      BY <1>3, <1>5, <1>L
    <3>2. it < Len(s) => c < s[it + 1][1]
      BY <1>3, <1>5, <1>L, <2>0
    <3> HIDE DEF c
    <3>3. c \in Nat /\ a < c /\ s \in Ranges
      BY <2>0
    <3>4. /\ Put(s, it, a, c) \in Ranges /\ Len(Put(s, it, a, c)) = Len(s)
          /\ Put(s, it, a, c)[it][2] = c
          /\ \A i \in 1 .. Len(s) : i # it => Put(s, it, a, c)[i] = s[i]
          /\ Members(Put(s, it, a, c)) = (Members(s) \ Held(s, it)) \cup (a .. c - 1)
      BY ONLY <3>1, <3>2, <3>3, Replaced
    <3> QED
      BY <3>4, <1>L
  <2>t. t = ShiftFrom(r, k, -1)
    <3>1. it <= L /\ holds /\ ~single /\ ~closes
      BY <1>5
    <3> HIDE DEF holds, single, closes
    <3> QED
      BY <1>t, <3>1
  <2> HIDE DEF r
  <2>2. k \in 1 .. Len(r) + 1
    BY ONLY <1>0, <1>3, <1>5, <2>1
  <2>3. Splits(r, k, b)
    <3>1. ASSUME NEW i \in 1 .. L, i < k
          PROVE  r[i][2] <= b
      <4>1. CASE i = it
        BY <2>0, <2>1, <4>1
      <4>2. CASE i < it
        <5>1. r[i] = s[i]
          BY <1>1, <2>1, <4>2
        <5>2. s[i][2] <= x /\ s[i][2] \in Nat /\ x < b /\ b \in Nat
          BY <1>3, <1>5, <1>x, <4>2
        <5> QED
          BY ONLY <5>1, <5>2, x \in Nat
      <4>3. i = it \/ i < it
        BY ONLY <1>1, <1>0, <3>1, i \in 1 .. L
      <4> QED
        BY <4>1, <4>2, <4>3
    <3>2. ASSUME NEW i \in 1 .. L, k <= i
          PROVE  b <= r[i][1]
      <4>1. it < i /\ i # it
        BY ONLY <1>0, <1>1, <3>2, i \in 1 .. L
      <4>2. r[i] = s[i] /\ b < s[i][1] /\ s[i][1] \in Nat
        BY <1>5, <1>y, <2>1, <4>1
      <4> QED
        BY <1>3, <1>5, <4>2
    <3> QED
      BY <2>1, <3>1, <3>2 DEF Splits
  <2>4. 1 < k /\ k <= Len(r) => r[k - 1][2] + 1 < r[k][1]
    <3> SUFFICES ASSUME 1 < k, k <= Len(r)
                 PROVE  r[k - 1][2] + 1 < r[k][1]
      OBVIOUS
    <3>1. k - 1 = it /\ k \in 1 .. L /\ it < k /\ k # it
      BY ONLY <1>0, <1>1, <2>1, k <= Len(r)
    <3>2. r[k] = s[k] /\ b < s[k][1] /\ s[k][1] \in Nat
      BY <1>5, <1>y, <2>1, <3>1
    <3>3. r[k - 1][2] = c
      BY <2>1, <3>1
    <3> QED
      BY ONLY <2>0, <3>2, <3>3
  <2>k. k = it + 1
    OBVIOUS
  <2> HIDE DEF k, c
  <2>5. /\ ShiftFrom(r, k, -1) \in Ranges
        /\ \A z \in Nat : z \in Members(ShiftFrom(r, k, -1)) <=>
              (z < b /\ z \in Members(r)) \/ (b <= z + 1 /\ z + 1 \in Members(r))
    <3>1. b \in Nat /\ r \in Ranges
      BY <1>3, <1>5, <2>1
    <3> QED
      BY ONLY <2>0, <3>1, <2>2, <2>3, <2>4, MovedDown
  <2>6. \A y \in Nat : y \in Members(r) <=> (y \in M /\ ~(a <= y /\ y < b)) \/ (a <= y /\ y < c)
    BY <1>3, <1>5, <2>0, <2>1
  <2>7. ASSUME NEW z \in Nat
        PROVE  z \in Members(t) <=> (z < x /\ z \in M) \/ (x <= z /\ z + 1 \in M)
    <3>1. z + 1 \in Nat
      OBVIOUS
    <3>2. z \in Members(t) <=> (z < b /\ z \in Members(r)) \/ (b <= z + 1 /\ z + 1 \in Members(r))
      BY <2>5, <2>t
    <3>3. z \in Members(r) <=> (z \in M /\ ~(a <= z /\ z < b)) \/ (a <= z /\ z < c)
      BY <2>6
    <3>4. z + 1 \in Members(r) <=> (z + 1 \in M /\ ~(a <= z + 1 /\ z + 1 < b))
                                   \/ (a <= z + 1 /\ z + 1 < c)
      BY <2>6, <3>1
    <3>5. (a <= z /\ z < b => z \in M) /\ (a <= z + 1 /\ z + 1 < b => z + 1 \in M)
      BY <1>3, <1>5, <3>1
    <3>6. a \in Nat /\ a <= x /\ x < b
      BY <1>3, <1>5
    <3> QED
      BY ONLY <2>0, <3>2, <3>3, <3>4, <3>5, <3>6, x \in Nat, z \in Nat
  <2> QED
    BY <2>5, <2>7, <2>t, <1>L DEF t
<1>6. CASE it <= L /\ closes
  <2> DEFINE c == b - 1
             r == Join(s, it, c)
             e == s[it - 1][1]
  <2>0. /\ c \in Nat /\ b = c + 1 /\ x < a /\ s[it - 1][2] = x /\ a = x + 1
        /\ it \in 2 .. L /\ it - 1 \in 1 .. L /\ b > 0 /\ a \in Nat /\ a < b
    <3>1. it > 1 /\ it <= L /\ ~(a <= x) /\ s[it - 1][2] + 1 = a
      BY <1>6
    <3>2. it \in 1 .. L /\ a \in Nat /\ b \in Nat /\ a < b
      BY <1>3, <3>1
    <3>3. it \in 2 .. L /\ it - 1 \in 1 .. L
      BY ONLY <1>0, <3>1, <3>2
    <3>4. s[it - 1][2] \in Nat /\ s[it - 1][2] <= x
      BY <1>3, <3>1, <3>2
    <3>5. x < a /\ s[it - 1][2] = x /\ a = x + 1
      BY ONLY <3>1, <3>2, <3>4, x \in Nat
    <3>6. c \in Nat /\ b = c + 1 /\ b > 0
      BY <3>2
    <3> QED
      BY <3>2, <3>3, <3>5, <3>6
  <2>e. e \in Nat /\ e < x /\ e < c
    <3>1. e \in Nat /\ e < x
      BY <1>0, <2>0
    <3> QED
      BY ONLY <2>0, <3>1, x \in Nat
  <2>1. /\ r \in Ranges /\ Len(r) = L - 1
        /\ r[it - 1][2] = c
        /\ \A i \in 1 .. L : i < it - 1 => r[i] = s[i]
        /\ \A i \in 1 .. L - 1 : it <= i => r[i] = s[i + 1]
        /\ Members(r) = ((M \ Held(s, it)) \ Held(s, it - 1)) \cup (e .. c - 1)
    <3>1. it \in 2 .. Len(s) /\ e = s[it - 1][1] /\ s[it - 1][1] < c
      BY <1>L, <2>0, <2>e
    <3>2. it < Len(s) => c < s[it + 1][1]
      BY <1>3, <1>6, <1>L, <2>0
    <3> HIDE DEF c, e
    <3>3. c \in Nat
      BY ONLY <2>0
    <3>4. /\ r \in Ranges /\ Len(r) = Len(s) - 1
          /\ r[it - 1][2] = c
          /\ \A i \in 1 .. Len(s) : i < it - 1 => r[i] = s[i]
          /\ \A i \in 1 .. Len(s) - 1 : it <= i => r[i] = s[i + 1]
          /\ Members(r) = ((Members(s) \ Held(s, it)) \ Held(s, it - 1)) \cup (s[it - 1][1] .. c - 1)
      <4>1. r = Join(s, it, c)
        OBVIOUS
      <4> HIDE DEF r, it
      <4>2. it < Len(s) => c < s[it + 1][1]
        BY <3>2
      <4>3. it \in 2 .. Len(s) /\ s[it - 1][1] < c
        BY <3>1
      <4> QED
        BY ONLY <4>1, <4>2, <4>3, <3>3, s \in Ranges, Joined
    <3> QED
      BY ONLY <3>1, <3>4, <1>L
  <2>t. t = ShiftFrom(r, it, -1)
    <3>1. it <= L /\ ~holds /\ closes
      BY <1>6
    <3> HIDE DEF holds, single, closes
    <3> QED
      BY <1>t, <3>1
  <2> HIDE DEF r
  <2>2. it \in 1 .. Len(r) + 1
    BY ONLY <1>0, <2>0, <2>1
  <2>3. Splits(r, it, b)
    <3>1. ASSUME NEW i \in 1 .. L - 1, i < it
          PROVE  r[i][2] <= b
      <4>1. CASE i = it - 1
        BY <2>0, <2>1, <4>1
      <4>2. CASE i < it - 1
        <5>1. r[i] = s[i]
          BY <1>0, <2>1, <4>2
        <5>2. s[i][2] <= x /\ s[i][2] \in Nat /\ x < b /\ b \in Nat
          BY <1>0, <1>3, <1>6, <1>x, <3>1, i \in 1 .. L - 1
        <5> QED
          BY ONLY <5>1, <5>2, x \in Nat
      <4>3. i = it - 1 \/ i < it - 1
        BY ONLY <1>1, <1>0, <3>1, i \in 1 .. L - 1
      <4> QED
        BY <4>1, <4>2, <4>3
    <3>2. ASSUME NEW i \in 1 .. L - 1, it <= i
          PROVE  b <= r[i][1]
      <4>1. i + 1 \in 1 .. L /\ it < i + 1 /\ r[i] = s[i + 1]
        <5>1. r[i] = s[i + 1]
          BY <2>1, <3>2
        <5>2. L \in Nat /\ it \in Nat
          BY ONLY <1>0, <2>0
        <5> QED
          BY ONLY <3>2, <5>1, <5>2, i \in 1 .. L - 1
      <4>2. b < s[i + 1][1] /\ s[i + 1][1] \in Nat
        BY <1>6, <1>y, <4>1
      <4> QED
        BY <1>3, <1>6, <4>1, <4>2
    <3> QED
      BY <2>1, <3>1, <3>2 DEF Splits
  <2>4. 1 < it /\ it <= Len(r) => r[it - 1][2] + 1 < r[it][1]
    <3> SUFFICES ASSUME 1 < it, it <= Len(r)
                 PROVE  r[it - 1][2] + 1 < r[it][1]
      OBVIOUS
    <3>1. it \in 1 .. L - 1 /\ it < L /\ it <= it
      BY <1>0, <1>1, <2>1
    <3>2. r[it] = s[it + 1] /\ b < s[it + 1][1] /\ s[it + 1][1] \in Nat
      BY <1>3, <1>6, <2>1, <3>1
    <3> QED
      BY ONLY <2>0, <2>1, <3>2
  <2> HIDE DEF c, e
  <2>5. /\ ShiftFrom(r, it, -1) \in Ranges
        /\ \A z \in Nat : z \in Members(ShiftFrom(r, it, -1)) <=>
              (z < b /\ z \in Members(r)) \/ (b <= z + 1 /\ z + 1 \in Members(r))
    <3>1. b \in Nat /\ r \in Ranges
      BY <1>3, <1>6, <2>1
    <3> QED
      BY ONLY <2>0, <3>1, <2>2, <2>3, <2>4, MovedDown
  <2>h. Held(s, it - 1) = e .. x - 1 /\ Held(s, it - 1) \subseteq M
    <3>1. Held(s, it - 1) \subseteq M
      BY <1>L, <2>0, RangeIn
    <3> QED
      BY <2>0, <3>1 DEF Held, e
  <2>6. \A y \in Nat : y \in Members(r) <=>
           (y \in M /\ ~(a <= y /\ y < b) /\ ~(e <= y /\ y < x)) \/ (e <= y /\ y < c)
    BY <1>3, <1>6, <2>0, <2>1, <2>e, <2>h
  <2>7. ASSUME NEW z \in Nat
        PROVE  z \in Members(t) <=> (z < x /\ z \in M) \/ (x <= z /\ z + 1 \in M)
    <3>1. z + 1 \in Nat
      OBVIOUS
    <3>2. z \in Members(t) <=> (z < b /\ z \in Members(r)) \/ (b <= z + 1 /\ z + 1 \in Members(r))
      BY <2>5, <2>t
    <3>3. z \in Members(r) <=> (z \in M /\ ~(a <= z /\ z < b) /\ ~(e <= z /\ z < x))
                               \/ (e <= z /\ z < c)
      BY <2>6
    <3>4. z + 1 \in Members(r) <=> (z + 1 \in M /\ ~(a <= z + 1 /\ z + 1 < b) /\ ~(e <= z + 1 /\ z + 1 < x))
                                   \/ (e <= z + 1 /\ z + 1 < c)
      BY <2>6, <3>1
    <3>5. /\ (a <= z /\ z < b => z \in M) /\ (a <= z + 1 /\ z + 1 < b => z + 1 \in M)
          /\ (e <= z /\ z < x => z \in M)
      <4>1. a <= z /\ z < b => z \in M
        BY <1>3, <1>6
      <4>2. a <= z + 1 /\ z + 1 < b => z + 1 \in M
        BY <1>3, <1>6, <3>1
      <4>3. e <= z /\ z < x => z \in M
        <5>1. e <= z /\ z < x => z \in e .. x - 1
          BY ONLY <2>e, z \in Nat, x \in Nat
        <5> QED
          BY ONLY <2>h, <5>1
      <4> QED
        BY ONLY <4>1, <4>2, <4>3
    <3>6. z = x => z \notin M
      <4>1. ~(it <= L /\ s[it][1] <= x)
        BY <1>L, <2>0
      <4>2. x \notin M
        <5>1. ~InSet(s, x)
          BY <4>1, <1>L DEF InSet, it
        <5> QED
          BY <5>1, <1>L, InSetMeans
      <4> QED
        BY <4>2
    <3> QED
      BY ONLY <2>0, <2>e, <3>2, <3>3, <3>4, <3>5, <3>6, x \in Nat, z \in Nat
  <2> QED
    BY <2>5, <2>7, <2>t, <1>L DEF t
<1>7. CASE it <= L /\ ~holds /\ ~closes
  <2> DEFINE X == x + 1
  <2>t. t = ShiftFrom(s, it, -1)
    <3>1. it <= L /\ ~holds /\ ~closes
      BY <1>7
    <3> HIDE DEF holds, single, closes
    <3> QED
      BY <1>t, <3>1
  <2>0. X \in Nat /\ X > 0 /\ x < a /\ ~(it <= L /\ s[it][1] <= x)
    BY <1>3, <1>7, <1>L
  <2>1. it \in 1 .. Len(s) + 1
    BY <1>1, <1>L
  <2>2. Splits(s, it, X)
    <3>1. \A i \in 1 .. L : i < it => s[i][2] <= X
      BY <1>x
    <3>2. \A i \in 1 .. L : it <= i => X <= s[i][1]
      BY <1>0, <1>g, <2>0
    <3> HIDE DEF X
    <3> QED
      BY <3>1, <3>2, <1>L DEF Splits
  <2>3. 1 < it /\ it <= Len(s) => s[it - 1][2] + 1 < s[it][1]
    <3>1. 1 < it => s[it - 1][2] < a /\ s[it - 1][2] + 1 # a /\ a \in Nat /\ s[it - 1][2] \in Nat
      BY <1>3, <1>7
    <3> QED
      BY ONLY <3>1, <1>L
  <2>4. x \notin M
    <3>1. ~InSet(s, x)
      BY <2>0, <1>L DEF InSet, it
    <3> QED
      BY <3>1, <1>L, InSetMeans
  <2> HIDE DEF X
  <2>5. /\ ShiftFrom(s, it, -1) \in Ranges
        /\ \A z \in Nat : z \in Members(ShiftFrom(s, it, -1)) <=>
              (z < X /\ z \in Members(s)) \/ (X <= z + 1 /\ z + 1 \in Members(s))
    BY ONLY <2>0, <2>1, <2>2, <2>3, s \in Ranges, MovedDown
  <2>7. ASSUME NEW z \in Nat
        PROVE  z \in Members(t) <=> (z < x /\ z \in M) \/ (x <= z /\ z + 1 \in M)
    <3>1. z \in Members(t) <=> (z < X /\ z \in M) \/ (X <= z + 1 /\ z + 1 \in M)
      BY <2>5, <2>t, <1>L
    <3>2. X = x + 1
      BY DEF X
    <3>3. z = x => z \notin M
      BY <2>4
    <3> QED
      BY ONLY <3>1, <3>2, <3>3, x \in Nat, z \in Nat
  <2> QED
    BY <2>5, <2>7, <2>t, <1>L DEF t
<1> QED
  BY <1>2, <1>4, <1>5, <1>6, <1>7

-----------------------------------------------------------------------------
(* The function InsertRange adds the new indexes with, on its own.         *)
Added(u, x, n) ==
    CHOOSE f : f = [k \in 0 .. n |-> IF k = 0 THEN u ELSE AddIndex(f[k - 1], x + k - 1)]

(* It adds them all.                                                       *)
LEMMA AddedRuns ==
    ASSUME NEW u \in Ranges, NEW x \in Nat, NEW n \in Nat
    PROVE  /\ Added(u, x, n)[n] \in Ranges
           /\ \A z \in Nat : z \in Members(Added(u, x, n)[n]) <=>
                z \in Members(u) \/ (x <= z /\ z < x + n)
<1> DEFINE step == [k \in 1 .. n |-> [v \in Ranges |-> AddIndex(v, x + k - 1)]]
<1>1. step \in Steps(n, Ranges)
  <2>1. ASSUME NEW k \in 1 .. n, NEW v \in Ranges
        PROVE  AddIndex(v, x + k - 1) \in Ranges
    <3>1. x + k - 1 \in Nat
      OBVIOUS
    <3> QED
      BY <3>1, AddIndexIs
  <2> QED
    BY <2>1 DEF Steps
<1> HIDE DEF step
<1>l. PICK f : IsLoop(f, n, Ranges, u, step)
  BY <1>1, LoopRuns
<1>3. f \in [0 .. n -> Ranges] /\ f[0] = u /\ \A k \in 1 .. n : f[k] = step[k][f[k - 1]]
  BY <1>l DEF IsLoop
<1>4. ASSUME NEW k \in 0 .. n
      PROVE  f[k] = IF k = 0 THEN u ELSE AddIndex(f[k - 1], x + k - 1)
  <2>1. CASE k = 0
    BY <1>3, <2>1
  <2>2. CASE k # 0
    <3>1. k \in 1 .. n /\ k - 1 \in 0 .. n
      BY <2>2
    <3>2. f[k] = step[k][f[k - 1]] /\ f[k - 1] \in Ranges
      BY <1>3, <3>1
    <3>3. f[k] = AddIndex(f[k - 1], x + k - 1)
      BY <3>1, <3>2 DEF step
    <3> QED
      BY <2>2, <3>3
  <2> QED
    BY <2>1, <2>2
<1>5. f = [k \in 0 .. n |-> IF k = 0 THEN u ELSE AddIndex(f[k - 1], x + k - 1)]
  BY <1>3, <1>4
<1> DEFINE p == Added(u, x, n)
<1>6. p = [k \in 0 .. n |-> IF k = 0 THEN u ELSE AddIndex(p[k - 1], x + k - 1)]
  BY <1>5 DEF Added
<1> HIDE DEF p
<1>7. p[0] = u /\ \A k \in 1 .. n : p[k] = AddIndex(p[k - 1], x + k - 1)
  BY <1>6
<1> DEFINE T == {k \in 0 .. n : /\ p[k] \in Ranges
                                /\ Members(p[k]) = Members(u) \cup (x .. x + k - 1)}
<1>8. 0 \in T
  <2>1. x .. x + 0 - 1 = {}
    OBVIOUS
  <2> QED
    BY <1>7, <2>1
<1>9. ASSUME NEW k \in 0 .. n - 1, k \in T
      PROVE  k + 1 \in T
  <2>1. k + 1 \in 1 .. n /\ k + 1 \in 0 .. n /\ (k + 1) - 1 = k /\ x + (k + 1) - 1 = x + k /\ x + k \in Nat
    OBVIOUS
  <2>2. p[k] \in Ranges /\ Members(p[k]) = Members(u) \cup (x .. x + k - 1)
    BY <1>9
  <2>3. p[k + 1] = AddIndex(p[k], x + k)
    <3>1. p[k + 1] = AddIndex(p[(k + 1) - 1], x + (k + 1) - 1)
      BY <1>7, <2>1
    <3> QED
      BY <2>1, <3>1
  <2>4. p[k + 1] \in Ranges /\ Members(p[k + 1]) = Members(p[k]) \cup {x + k}
    BY <2>1, <2>2, <2>3, AddIndexIs
  <2>5. x .. x + (k + 1) - 1 = (x .. x + k - 1) \cup {x + k}
    OBVIOUS
  <2> QED
    BY <2>1, <2>2, <2>4, <2>5
<1> HIDE DEF T
<1>10. n \in T
  BY <1>8, <1>9, UpTo
<1>11. p[n] \in Ranges /\ Members(p[n]) = Members(u) \cup (x .. x + n - 1)
  BY <1>10 DEF T
<1>12. ASSUME NEW z \in Nat
       PROVE  z \in x .. x + n - 1 <=> x <= z /\ z < x + n
  OBVIOUS
<1> QED
  BY <1>11, <1>12 DEF p

(* insert_at.                                                              *)
LEMMA InsertRangeIs ==
    ASSUME NEW s \in Ranges, NEW x \in Nat, NEW n \in Nat
    PROVE  /\ InsertRange(s, x, n) \in Ranges
           /\ \A z \in Nat : z \in Members(InsertRange(s, x, n)) <=>
                \/ z < x /\ z \in Members(s)
                \/ x <= z - n /\ z - n \in Members(s)
                \/ x <= z /\ z < x + n
<1> DEFINE it == Find(s, x)
           k == it + 1
           t == InsertRange(s, x, n)
           L == Len(s)
           M == Members(s)
           a == s[it][1]
           b == s[it][2]
           held == it <= L /\ a <= x
<1>0. /\ L \in Nat
      /\ \A i \in 1 .. L : s[i][1] \in Nat /\ s[i][2] \in Nat /\ s[i][1] < s[i][2]
      /\ \A i, j \in 1 .. L : i < j => s[i][2] < s[j][1]
  BY RangesAre
<1>1. it \in 1 .. L + 1 /\ \A i \in 1 .. L : i < it <=> s[i][2] <= x
  BY FindIs
<1>g. ~held => \A i \in 1 .. L : it <= i => x < s[i][1]
  BY Gap
<1>t. t = IF held THEN Put(ShiftFrom(s, k, n), it, a, b + n)
          ELSE Added(ShiftFrom(s, it, n), x, n)[n]
  BY DEF InsertRange, InSet, Put, Added
<1>L. L = Len(s) /\ M = Members(s) /\ a = s[it][1] /\ b = s[it][2] /\ k = it + 1
  OBVIOUS
<1> HIDE DEF it, k, t, L, M, a, b
<1>2. CASE held
  <2> DEFINE r == ShiftFrom(s, k, n)
             c == b + n
  <2>1. it \in 1 .. L /\ k \in 1 .. Len(s) + 1
    BY ONLY <1>0, <1>1, <1>2, <1>L
  <2>2. a \in Nat /\ b \in Nat /\ a < b /\ a <= x /\ x < b /\ c \in Nat /\ a < c
    BY <1>0, <1>1, <1>2, <1>L, <2>1
  <2>3. Splits(s, k, b)
    <3>1. ASSUME NEW i \in 1 .. L, i < k
          PROVE  s[i][2] <= b
      <4>1. CASE i = it
        BY <1>L, <2>2, <4>1
      <4>2. CASE i < it
        <5>1. s[i][2] <= x /\ s[i][2] \in Nat
          BY <1>0, <1>1, <4>2
        <5> QED
          BY ONLY <2>2, <5>1, x \in Nat
      <4>3. i = it \/ i < it
        BY ONLY <1>1, <1>0, <1>L, <3>1, i \in 1 .. L
      <4> QED
        BY <4>1, <4>2, <4>3
    <3>2. ASSUME NEW i \in 1 .. L, k <= i
          PROVE  b <= s[i][1]
      <4>1. it < i
        BY ONLY <1>0, <1>1, <1>L, <3>2, i \in 1 .. L
      <4>2. b < s[i][1] /\ s[i][1] \in Nat
        BY <1>0, <1>L, <2>1, <4>1
      <4> QED
        BY <2>2, <4>2
    <3> QED
      BY <3>1, <3>2, <1>L DEF Splits
  <2>4. /\ r \in Ranges /\ Len(r) = L
        /\ \A i \in 1 .. L : i < k => r[i] = s[i]
        /\ \A i \in 1 .. L : k <= i => r[i][1] = s[i][1] + n /\ r[i][2] = s[i][2] + n
        /\ \A z \in Int : z \in Members(r) <=> (z < b /\ z \in M) \/ (b <= z - n /\ z - n \in M)
    <3>1. b \in Nat
      BY <2>2
    <3>2. /\ ShiftFrom(s, k, n) \in Ranges /\ Len(ShiftFrom(s, k, n)) = Len(s)
          /\ \A i \in 1 .. Len(s) : i < k => ShiftFrom(s, k, n)[i] = s[i]
          /\ \A i \in 1 .. Len(s) : k <= i => /\ ShiftFrom(s, k, n)[i][1] = s[i][1] + n
                                              /\ ShiftFrom(s, k, n)[i][2] = s[i][2] + n
          /\ \A z \in Int : z \in Members(ShiftFrom(s, k, n)) <=>
                (z < b /\ z \in Members(s)) \/ (b <= z - n /\ z - n \in Members(s))
      BY ONLY <2>1, <2>3, <3>1, s \in Ranges, n \in Nat, MovedUp
    <3> QED
      BY <3>2, <1>L
  <2>t. t = Put(r, it, a, c)
    BY <1>t, <1>2
  <2>c. c = b + n
    OBVIOUS
  <2> HIDE DEF r, c
  <2>5. 1 < it => r[it - 1][2] < a
    <3>1. 1 < it => it - 1 \in 1 .. L /\ it - 1 < it /\ it - 1 < k
      BY ONLY <1>0, <1>L, <2>1
    <3> QED
      BY <1>0, <1>L, <2>1, <2>4, <3>1
  <2>6. it < L => c < r[it + 1][1]
    <3>1. it < L => it + 1 \in 1 .. L /\ it < it + 1 /\ k <= it + 1
      BY ONLY <1>0, <1>L, <2>1
    <3>2. it < L => /\ r[it + 1][1] = s[it + 1][1] + n
                    /\ b < s[it + 1][1] /\ s[it + 1][1] \in Nat
      BY <1>0, <1>L, <2>1, <2>4, <3>1
    <3> QED
      BY ONLY <2>2, <2>c, <3>2, n \in Nat
  <2>7. r[it] = s[it]
    <3>1. it < k
      BY ONLY <1>L, <2>1
    <3> QED
      BY <2>1, <2>4, <3>1
  <2>8. t \in Ranges /\ Members(t) = (Members(r) \ (a .. b - 1)) \cup (a .. c - 1)
    <3>1. r \in Ranges /\ it \in 1 .. Len(r) /\ (it < Len(r) => c < r[it + 1][1])
      BY <2>1, <2>4, <2>6
    <3>2. a \in Nat /\ c \in Nat /\ a < c
      BY <2>2
    <3>3. /\ Put(r, it, a, c) \in Ranges
          /\ Members(Put(r, it, a, c)) = (Members(r) \ Held(r, it)) \cup (a .. c - 1)
      BY ONLY <2>5, <3>1, <3>2, Replaced
    <3>4. Held(r, it) = a .. b - 1
      BY <1>L, <2>7 DEF Held
    <3> QED
      BY <2>t, <3>3, <3>4
  <2>9. \A z \in Int : a <= z /\ z < b => z \in M
    <3>1. Held(s, it) \subseteq M /\ Held(s, it) = a .. b - 1
      BY <2>1, <1>L, RangeIn DEF Held
    <3> QED
      BY <2>2, <3>1
  <2>10. ASSUME NEW z \in Nat
         PROVE  z \in Members(t) <=> \/ z < x /\ z \in M
                                     \/ x <= z - n /\ z - n \in M
                                     \/ x <= z /\ z < x + n
    <3>1. z \in Members(t) <=> (z \in Members(r) /\ ~(a <= z /\ z < b)) \/ (a <= z /\ z < c)
      BY <2>2, <2>8
    <3>2. z \in Members(r) <=> (z < b /\ z \in M) \/ (b <= z - n /\ z - n \in M)
      BY <2>4
    <3>3. (a <= z /\ z < b => z \in M) /\ (a <= z - n /\ z - n < b => z - n \in M)
      <4>1. z - n \in Int /\ z \in Int
        OBVIOUS
      <4> QED
        BY <2>9, <4>1
    <3> QED
      BY ONLY <2>2, <2>c, <3>1, <3>2, <3>3, x \in Nat, z \in Nat, n \in Nat
  <2> QED
    BY <2>8, <2>10 DEF t, M
<1>3. CASE ~held
  <2> DEFINE r == ShiftFrom(s, it, n)
  <2>1. Splits(s, it, x) /\ it \in 1 .. Len(s) + 1
    <3>1. \A i \in 1 .. L : i < it => s[i][2] <= x
      BY <1>1
    <3>2. \A i \in 1 .. L : it <= i => x <= s[i][1]
      BY <1>0, <1>3, <1>g
    <3> QED
      BY <3>1, <3>2, <1>1, <1>L DEF Splits
  <2>2. /\ r \in Ranges
        /\ \A z \in Int : z \in Members(r) <=>
              (z < x /\ z \in Members(s)) \/ (x <= z - n /\ z - n \in Members(s))
    BY ONLY <2>1, s \in Ranges, x \in Nat, n \in Nat, MovedUp
  <2>t. t = Added(r, x, n)[n]
    BY <1>t, <1>3
  <2> HIDE DEF r
  <2>3. t \in Ranges /\ \A z \in Nat : z \in Members(t) <=> z \in Members(r) \/ (x <= z /\ z < x + n)
    BY <2>2, <2>t, AddedRuns
  <2>4. \A z \in Nat : z \in Int
    OBVIOUS
  <2> QED
    BY <2>2, <2>3, <2>4 DEF t
<1> QED
  BY <1>2, <1>3

-----------------------------------------------------------------------------
(* The lesser and the greater of two numbers.                              *)
LEMMA LesserIs ==
    ASSUME NEW a \in Nat, NEW b \in Nat
    PROVE  Min({a, b}) = IF a <= b THEN a ELSE b
<1> DEFINE m == Min({a, b})
<1>1. {a, b} \in SUBSET Nat /\ {a, b} # {}
  OBVIOUS
<1>2. m \in {a, b} /\ \A y \in {a, b} : m <= y
  BY ONLY <1>1, MinIs
<1> HIDE DEF m
<1>3. m = IF a <= b THEN a ELSE b
  BY <1>2
<1> QED
  BY <1>3 DEF m

\* The greater of two numbers.
LEMMA GreaterIs ==
    ASSUME NEW a \in Int, NEW b \in Int
    PROVE  Max({a, b}) = IF a <= b THEN b ELSE a
<1> DEFINE m == Max({a, b})
<1>1. \E u \in {a, b} : \A v \in {a, b} : u >= v
  OBVIOUS
<1>2. m \in {a, b} /\ \A y \in {a, b} : m >= y
  BY <1>1 DEF Max
<1> HIDE DEF m
<1>3. m = IF a <= b THEN b ELSE a
  BY <1>2
<1> QED
  BY <1>3 DEF m

(* The members of the first k ranges.                                      *)
Prefix(s, k) == {y \in Nat : \E i \in 1 .. k : s[i][1] <= y /\ y < s[i][2]}

(* It grows range by range.                                                *)
LEMMA PrefixIs ==
    ASSUME NEW s \in Ranges
    PROVE  /\ Prefix(s, 0) = {} /\ Prefix(s, Len(s)) = Members(s)
           /\ \A k \in 1 .. Len(s) : /\ Prefix(s, k) = Prefix(s, k - 1) \cup Held(s, k)
                                     /\ \A y \in Prefix(s, k - 1) : y \in Nat /\ y + 1 < s[k][1]
<1>0. /\ Len(s) \in Nat
      /\ \A i \in 1 .. Len(s) : s[i][1] \in Nat /\ s[i][2] \in Nat /\ s[i][1] < s[i][2]
      /\ \A i, j \in 1 .. Len(s) : i < j => s[i][2] < s[j][1]
  BY RangesAre
<1>1. Prefix(s, 0) = {}
  BY DEF Prefix
<1>2. Prefix(s, Len(s)) = Members(s)
  <2>1. \A y : y \in Members(s) <=> y \in Prefix(s, Len(s))
    BY InMembers DEF Prefix
  <2> QED
    BY <2>1
<1>3. ASSUME NEW k \in 1 .. Len(s)
      PROVE  Prefix(s, k) = Prefix(s, k - 1) \cup Held(s, k)
  <2>1. \A i : i \in 1 .. k <=> i \in 1 .. k - 1 \/ i = k
    BY <1>0
  <2>2. \A y : y \in Held(s, k) <=> y \in Nat /\ s[k][1] <= y /\ y < s[k][2]
    BY <1>0 DEF Held
  <2> QED
    BY <2>1, <2>2 DEF Prefix
<1>4. ASSUME NEW k \in 1 .. Len(s), NEW y \in Prefix(s, k - 1)
      PROVE  y \in Nat /\ y + 1 < s[k][1]
  <2>1. y \in Nat
    BY DEF Prefix
  <2>2. PICK i \in 1 .. k - 1 : y < s[i][2]
    BY DEF Prefix
  <2>3. i \in 1 .. Len(s) /\ i < k
    BY <1>0
  <2>4. s[i][2] < s[k][1] /\ s[i][2] \in Nat /\ s[k][1] \in Nat
    BY <1>0, <2>3
  <2> QED
    BY ONLY <2>1, <2>2, <2>4
<1> QED
  BY <1>1, <1>2, <1>3, <1>4

(* A range, unless it is empty, behind all the others.                     *)
LEMMA PartAdded ==
    ASSUME NEW u \in Ranges, NEW a \in Nat, NEW b \in Nat, \A y \in Members(u) : y + 1 < a
    PROVE  /\ u \o Part(a, b) \in Ranges
           /\ \A z \in Nat : z \in Members(u \o Part(a, b)) <=> z \in Members(u) \/ (a <= z /\ z < b)
<1>1. CASE ~(a < b)
  <2>1. Part(a, b) = << >> /\ u \in Seq(Pairs)
    BY <1>1, RangesAre DEF Part
  <2>2. u \o Part(a, b) = u
    BY <2>1
  <2> QED
    BY <1>1, <2>2
<1>2. CASE a < b
  <2> DEFINE L == Len(u)
             e == << a, b >>
             p == L + 1
  <2>0. /\ u \in Seq(Pairs) /\ L \in Nat /\ p \in 1 .. Len(u) + 1
        /\ \A i \in 1 .. L : u[i][1] \in Nat /\ u[i][2] \in Nat /\ u[i][1] < u[i][2]
    BY RangesAre
  <2>1. \A i \in 1 .. L : u[i][2] < a
    <3> SUFFICES ASSUME NEW i \in 1 .. L
                 PROVE  u[i][2] < a
      OBVIOUS
    <3> DEFINE c == u[i][2]
    <3>0. c \in Nat /\ u[i][1] \in Nat /\ u[i][1] < c
      BY <2>0
    <3> HIDE DEF c
    <3>1. c - 1 \in Nat /\ u[i][1] <= c - 1 /\ c - 1 < c
      BY ONLY <3>0
    <3>2. c - 1 \in Members(u)
      BY <3>1, InMembers DEF c
    <3>3. (c - 1) + 1 < a
      BY <3>2
    <3>4. c < a
      BY <3>0, <3>3
    <3> QED
      BY <3>4 DEF c
  <2>2. u \o Part(a, b) = PutIn(u, p, a, b)
    <3>1. e \in Pairs
      BY DEF Pairs
    <3>2. PutIn(u, p, a, b) = InsertAt(u, p, e) /\ Part(a, b) = << e >>
      BY <1>2 DEF PutIn, Part
    <3> HIDE DEF e
    <3>3. /\ InsertAt(u, p, e) \in Seq(Pairs) /\ Len(InsertAt(u, p, e)) = Len(u) + 1
          /\ \A k \in 1 .. Len(u) + 1 :
                InsertAt(u, p, e)[k] = IF k < p THEN u[k] ELSE IF k = p THEN e ELSE u[k - 1]
      <4>1. u \in Seq(Pairs) /\ p \in 1 .. Len(u) + 1
        BY ONLY <2>0
      <4> HIDE DEF p
      <4> QED
        BY ONLY <3>1, <4>1, InsertAtIs
    <3>4. /\ u \o << e >> \in Seq(Pairs) /\ Len(u \o << e >>) = L + 1
          /\ \A k \in 1 .. L + 1 : (u \o << e >>)[k] = IF k < L + 1 THEN u[k] ELSE e
      BY <2>0, <3>1
    <3>5. \A k \in 1 .. L + 1 : (u \o << e >>)[k] = InsertAt(u, p, e)[k]
      BY <2>0, <3>3, <3>4
    <3> DEFINE v == u \o << e >>
               w == InsertAt(u, p, e)
    <3>6. /\ v \in Seq(Pairs) /\ w \in Seq(Pairs) /\ Len(v) = Len(w)
          /\ \A k \in 1 .. Len(v) : v[k] = w[k]
      BY <3>3, <3>4, <3>5
    <3> HIDE DEF v, w
    <3>7. v = w
      BY ONLY <3>6
    <3> QED
      BY <3>2, <3>7 DEF v, w
  <2>3. 1 < p => u[p - 1][2] < a
    BY <2>0, <2>1
  <2>4. p <= Len(u) => b < u[p][1]
    BY <2>0
  <2> HIDE DEF p
  <2>5. /\ PutIn(u, p, a, b) \in Ranges
        /\ Members(PutIn(u, p, a, b)) = Members(u) \cup (a .. b - 1)
    BY ONLY <1>2, <2>0, <2>3, <2>4, u \in Ranges, a \in Nat, b \in Nat, Inserted
  <2> QED
    BY <2>2, <2>5
<1> QED
  BY <1>1, <1>2

(* Parts of a range.                                                       *)
LEMMA PartType ==
    ASSUME NEW a \in Nat, NEW b \in Nat
    PROVE  Part(a, b) \in Seq(Pairs)
<1> DEFINE e == << a, b >>
<1>1. e \in Pairs
  BY DEF Pairs
<1>2. Part(a, b) = IF a < b THEN << e >> ELSE << >>
  BY DEF Part
<1> HIDE DEF e
<1>3. << e >> \in Seq(Pairs) /\ << >> \in Seq(Pairs)
  BY <1>1
<1> QED
  BY <1>2, <1>3, Zenon

(* What remove leaves of one range.                                        *)
Left(r, from, to) == Part(r[1], Min({r[2], from})) \o Part(Max({r[1], to}), r[2])

(* The function RemoveRange collects with, on its own.                     *)
LeftOf(s, from, to) ==
    CHOOSE f : f = [k \in 0 .. Len(s) |-> IF k = 0 THEN << >> ELSE f[k - 1] \o Left(s[k], from, to)]

(* What remove leaves of a range.                                          *)
LEMMA LeftType ==
    ASSUME NEW s \in Ranges, NEW k \in 1 .. Len(s), NEW from \in Nat, NEW to \in Nat
    PROVE  Left(s[k], from, to) \in Seq(Pairs)
<1>0. s[k][1] \in Nat /\ s[k][2] \in Nat
  BY RangesAre
<1>1. Min({s[k][2], from}) = IF s[k][2] <= from THEN s[k][2] ELSE from
  BY ONLY <1>0, from \in Nat, LesserIs
<1>2. Max({s[k][1], to}) = IF s[k][1] <= to THEN to ELSE s[k][1]
  BY ONLY <1>0, to \in Nat, s[k][1] \in Int, to \in Int, GreaterIs
<1>3. Min({s[k][2], from}) \in Nat /\ Max({s[k][1], to}) \in Nat
  BY <1>0, <1>1, <1>2
<1>4. Part(s[k][1], Min({s[k][2], from})) \in Seq(Pairs) /\ Part(Max({s[k][1], to}), s[k][2]) \in Seq(Pairs)
  BY <1>0, <1>3, PartType
<1> QED
  BY <1>4 DEF Left

(* It takes the steps of RemoveRange.                                      *)
LEMMA LeftRuns ==
    ASSUME NEW s \in Ranges, NEW from \in Nat, NEW to \in Nat
    PROVE  /\ LeftOf(s, from, to)[0] = << >>
           /\ \A k \in 1 .. Len(s) :
                LeftOf(s, from, to)[k] = LeftOf(s, from, to)[k - 1] \o Left(s[k], from, to)
<1> DEFINE n == Len(s)
           V == Seq(Pairs)
           step == [k \in 1 .. n |-> [u \in V |-> u \o Left(s[k], from, to)]]
           none == << >>
<1>0. n \in Nat
  BY RangesAre
<1>1. step \in Steps(n, V)
  <2>1. ASSUME NEW k \in 1 .. n, NEW u \in V
        PROVE  u \o Left(s[k], from, to) \in V
    <3>1. Left(s[k], from, to) \in Seq(Pairs)
      BY LeftType
    <3> HIDE DEF n
    <3> QED
      BY <3>1
  <2> QED
    BY <2>1 DEF Steps
<1>2. none \in V
  OBVIOUS
<1> HIDE DEF n, V, step, none
<1>l. PICK f : IsLoop(f, n, V, none, step)
  BY <1>0, <1>1, <1>2, LoopRuns
<1>3. f \in [0 .. n -> V] /\ f[0] = none /\ \A k \in 1 .. n : f[k] = step[k][f[k - 1]]
  BY <1>l DEF IsLoop
<1>4. ASSUME NEW k \in 0 .. n
      PROVE  f[k] = IF k = 0 THEN << >> ELSE f[k - 1] \o Left(s[k], from, to)
  <2>1. CASE k = 0
    BY <1>3, <2>1 DEF none
  <2>2. CASE k # 0
    <3>1. k \in 1 .. n /\ k - 1 \in 0 .. n
      BY <1>0, <2>2
    <3>2. f[k] = step[k][f[k - 1]] /\ f[k - 1] \in V
      BY <1>3, <3>1
    <3>3. f[k] = f[k - 1] \o Left(s[k], from, to)
      BY <3>1, <3>2 DEF step
    <3> QED
      BY <2>2, <3>3
  <2> QED
    BY <2>1, <2>2
<1>5. f = [k \in 0 .. n |-> IF k = 0 THEN << >> ELSE f[k - 1] \o Left(s[k], from, to)]
  BY <1>3, <1>4
<1> DEFINE p == LeftOf(s, from, to)
<1>6. p = [k \in 0 .. n |-> IF k = 0 THEN << >> ELSE p[k - 1] \o Left(s[k], from, to)]
  BY <1>5 DEF LeftOf, n
<1> HIDE DEF p
<1>7. p[0] = << >> /\ \A k \in 1 .. n : p[k] = p[k - 1] \o Left(s[k], from, to)
  <2>1. \A k \in 0 .. n : p[k] = IF k = 0 THEN << >> ELSE p[k - 1] \o Left(s[k], from, to)
    BY <1>6, Zenon
  <2>2. 0 \in 0 .. n /\ \A k \in 1 .. n : k \in 0 .. n /\ k # 0
    BY <1>0
  <2> QED
    BY <2>1, <2>2, Zenon
<1> QED
  BY <1>7 DEF p, n

(* remove(index, count).                                                   *)
LEMMA RemoveRangeIs ==
    ASSUME NEW s \in Ranges, NEW from \in Nat, NEW to \in Nat, from < to
    PROVE  /\ RemoveRange(s, from, to) \in Ranges
           /\ \A z \in Nat : z \in Members(RemoveRange(s, from, to)) <=>
                z \in Members(s) /\ ~(from <= z /\ z < to)
<1> DEFINE n == Len(s)
           p == LeftOf(s, from, to)
           t == RemoveRange(s, from, to)
<1>0. /\ n \in Nat
      /\ \A i \in 1 .. n : s[i][1] \in Nat /\ s[i][2] \in Nat /\ s[i][1] < s[i][2]
  BY RangesAre
<1>t. t = p[n]
  BY DEF RemoveRange, LeftOf, Left
<1>1. p[0] = << >> /\ \A k \in 1 .. n : p[k] = p[k - 1] \o Left(s[k], from, to)
  BY LeftRuns
<1>2. /\ Prefix(s, 0) = {} /\ Prefix(s, n) = Members(s)
      /\ \A k \in 1 .. n : /\ Prefix(s, k) = Prefix(s, k - 1) \cup Held(s, k)
                           /\ \A y \in Prefix(s, k - 1) : y \in Nat /\ y + 1 < s[k][1]
  BY PrefixIs
<1> HIDE DEF p, t, n
<1> DEFINE T == {k \in 0 .. n : /\ p[k] \in Ranges
                                /\ \A z \in Nat : z \in Members(p[k]) <=>
                                     z \in Prefix(s, k) /\ ~(from <= z /\ z < to)}
<1>3. 0 \in T
  BY <1>0, <1>1, <1>2, EmptyRanges
<1>4. ASSUME NEW k \in 0 .. n - 1, k \in T
      PROVE  k + 1 \in T
  <2> DEFINE j == k + 1
             u == p[k]
             a == s[j][1]
             b == s[j][2]
             c == Min({b, from})
             d == Max({a, to})
             v == u \o Part(a, c)
  <2>0. j \in 1 .. n /\ j \in 0 .. n /\ j - 1 = k
    BY <1>0
  <2>1. u \in Ranges /\ \A z \in Nat : z \in Members(u) <=> z \in Prefix(s, k) /\ ~(from <= z /\ z < to)
    BY <1>4
  <2>2. p[j] = u \o (Part(a, c) \o Part(d, b))
    <3>1. p[j] = p[j - 1] \o Left(s[j], from, to)
      BY <1>1, <2>0
    <3> QED
      BY <2>0, <3>1 DEF Left
  <2>3. /\ a \in Nat /\ b \in Nat /\ a < b
        /\ c = (IF b <= from THEN b ELSE from) /\ d = (IF a <= to THEN to ELSE a)
    BY <1>0, <2>0, LesserIs, GreaterIs
  <2>h. Held(s, j) = a .. b - 1
    BY DEF Held
  <2>4. /\ Prefix(s, j) = Prefix(s, k) \cup (a .. b - 1)
        /\ \A y \in Prefix(s, k) : y \in Nat /\ y + 1 < a
    <3> HIDE DEF j
    <3>1. Prefix(s, j) = Prefix(s, j - 1) \cup Held(s, j)
          /\ \A y \in Prefix(s, j - 1) : y \in Nat /\ y + 1 < s[j][1]
      BY <1>2, <2>0
    <3> QED
      BY <2>0, <2>h, <3>1
  <2>v. v = u \o Part(a, c)
    OBVIOUS
  <2> HIDE DEF j, u, a, b, c, d, v
  <2>5. c \in Nat /\ d \in Nat
    BY <2>3
  <2>6. \A y \in Members(u) : y \in Nat /\ y + 1 < a
    BY <2>1, <2>4, InMembers
  <2>7. v \in Ranges /\ \A z \in Nat : z \in Members(v) <=> z \in Members(u) \/ (a <= z /\ z < c)
    BY <2>1, <2>3, <2>5, <2>6, <2>v, PartAdded
  <2>8. \A y \in Members(v) : y + 1 < d
    <3> SUFFICES ASSUME NEW y \in Members(v)
                 PROVE  y + 1 < d
      OBVIOUS
    <3>1. y \in Nat
      BY <2>7, InMembers
    <3>2. CASE y \in Members(u)
      <4>1. y + 1 < a
        BY <2>6, <3>2
      <4> QED
        BY ONLY <2>3, <3>1, <4>1, to \in Nat
    <3>3. CASE a <= y /\ y < c
      BY ONLY <2>3, <2>5, <3>1, <3>3, from < to, from \in Nat, to \in Nat
    <3> QED
      BY <2>7, <3>1, <3>2, <3>3
  <2>9. p[j] = v \o Part(d, b)
    <3>1. u \in Seq(Pairs)
      BY <2>1, RangesAre
    <3>2. Part(a, c) \in Seq(Pairs) /\ Part(d, b) \in Seq(Pairs)
      BY <2>3, <2>5, PartType
    <3>3. u \o (Part(a, c) \o Part(d, b)) = (u \o Part(a, c)) \o Part(d, b)
      <4> DEFINE w == Part(a, c)
                 z == Part(d, b)
      <4>1. w \in Seq(Pairs) /\ z \in Seq(Pairs)
        BY ONLY <3>2
      <4> HIDE DEF w, z
      <4>2. u \o (w \o z) = (u \o w) \o z
        BY ONLY <3>1, <4>1
      <4> QED
        BY ONLY <4>2 DEF w, z
    <3> QED
      BY <2>2, <2>v, <3>3
  <2>10. p[j] \in Ranges /\ \A z \in Nat : z \in Members(p[j]) <=> z \in Members(v) \/ (d <= z /\ z < b)
    <3>1. v \in Ranges
      BY <2>7
    <3>2. b \in Nat /\ d \in Nat
      BY <2>3, <2>5
    <3>3. \A y \in Members(v) : y + 1 < d
      BY <2>8
    <3>4. /\ v \o Part(d, b) \in Ranges
          /\ \A z \in Nat : z \in Members(v \o Part(d, b)) <=> z \in Members(v) \/ (d <= z /\ z < b)
      BY ONLY <3>1, <3>2, <3>3, PartAdded
    <3> QED
      BY <2>9, <3>4
  <2>11. ASSUME NEW z \in Nat
         PROVE  z \in Members(p[j]) <=> z \in Prefix(s, j) /\ ~(from <= z /\ z < to)
    <3>1. z \in Members(p[j]) <=> z \in Members(u) \/ (a <= z /\ z < c) \/ (d <= z /\ z < b)
      BY <2>7, <2>10
    <3>2. z \in Members(u) <=> z \in Prefix(s, k) /\ ~(from <= z /\ z < to)
      BY <2>1
    <3>3. z \in Prefix(s, j) <=> z \in Prefix(s, k) \/ (a <= z /\ z < b)
      BY <2>3, <2>4
    <3> QED
      BY ONLY <2>3, <3>1, <3>2, <3>3, z \in Nat, from \in Nat, to \in Nat, from < to
  <2> QED
    BY <2>0, <2>10, <2>11 DEF j
<1> HIDE DEF T
<1>5. n \in T
  <2>1. 0 .. n \subseteq T
    BY <1>0, <1>3, <1>4, UpTo
  <2> QED
    BY ONLY <1>0, <2>1
<1>6. p[n] \in Ranges /\ \A z \in Nat : z \in Members(p[n]) <=>
                            z \in Prefix(s, n) /\ ~(from <= z /\ z < to)
  BY <1>5 DEF T
<1> QED
  BY <1>2, <1>6, <1>t DEF t

-----------------------------------------------------------------------------
(* Two sets without a common element, counted.                             *)
LEMMA DisjointUnion ==
    ASSUME NEW S, IsFiniteSet(S), NEW T, IsFiniteSet(T), S \cap T = {}
    PROVE  IsFiniteSet(S \cup T) /\ Cardinality(S \cup T) = Cardinality(S) + Cardinality(T)
<1>1. Cardinality(S) \in Nat /\ Cardinality(T) \in Nat /\ Cardinality(S \cap T) = 0
  BY FS_CardinalityType, FS_EmptySet
<1>2. IsFiniteSet(S \cup T)
      /\ Cardinality(S \cup T) = Cardinality(S) + Cardinality(T) - Cardinality(S \cap T)
  BY FS_Union
<1> QED
  BY <1>1, <1>2

(* Counting.                                                               *)
Overlapping(r, to) == Max({0, Min({r[2], to}) - Max({r[1], 0})})

(* The function CountIn counts with, on its own.                           *)
Counted(s, to) ==
    CHOOSE f : f = [k \in 0 .. Len(s) |-> IF k = 0 THEN 0 ELSE f[k - 1] + Overlapping(s[k], to)]

(* How many indexes of a range are below x.                                *)
LEMMA OverlappingIs ==
    ASSUME NEW s \in Ranges, NEW k \in 1 .. Len(s), NEW x \in Nat
    PROVE  Overlapping(s[k], x) \in Nat /\ LET c == IF s[k][2] <= x THEN s[k][2] ELSE x
                                          IN  Overlapping(s[k], x) = IF s[k][1] <= c THEN c - s[k][1] ELSE 0
<1> DEFINE a == s[k][1]
           b == s[k][2]
           c == IF b <= x THEN b ELSE x
<1>0. a \in Nat /\ b \in Nat
  BY RangesAre
<1>1. Overlapping(s[k], x) = Max({0, Min({b, x}) - Max({a, 0})})
  BY DEF Overlapping
<1> HIDE DEF a, b
<1>2. Min({b, x}) = c /\ Max({a, 0}) = a
  <2>1. Max({a, 0}) = IF a <= 0 THEN 0 ELSE a
    BY <1>0, GreaterIs
  <2>2. Min({b, x}) = c
    BY <1>0, LesserIs
  <2> QED
    BY <1>0, <2>1, <2>2
<1>3. c \in Nat
  BY <1>0
<1>c. c = IF b <= x THEN b ELSE x
  OBVIOUS
<1> HIDE DEF c
<1> DEFINE d == c - a
<1>d. d \in Int /\ (0 <= d <=> a <= c)
  BY <1>0, <1>3
<1>4. Overlapping(s[k], x) = Max({0, d})
  BY <1>1, <1>2
<1>e. d = c - a
  OBVIOUS
<1> HIDE DEF d
<1>f. Max({0, d}) = IF 0 <= d THEN d ELSE 0
  BY <1>d, GreaterIs
<1>5. Overlapping(s[k], x) \in Nat /\ Overlapping(s[k], x) = IF a <= c THEN c - a ELSE 0
  BY <1>d, <1>e, <1>f, <1>4
<1> QED
  BY <1>5, <1>c DEF a, b

(* It takes the steps of CountIn.                                          *)
LEMMA CountedRuns ==
    ASSUME NEW s \in Ranges, NEW to \in Nat
    PROVE  /\ Counted(s, to)[0] = 0
           /\ \A k \in 1 .. Len(s) : Counted(s, to)[k] = Counted(s, to)[k - 1] + Overlapping(s[k], to)
<1> DEFINE n == Len(s)
           step == [k \in 1 .. n |-> [u \in Nat |-> u + Overlapping(s[k], to)]]
<1>0. n \in Nat
  BY RangesAre
<1>1. step \in Steps(n, Nat)
  <2>1. ASSUME NEW k \in 1 .. n, NEW u \in Nat
        PROVE  u + Overlapping(s[k], to) \in Nat
    <3>1. Overlapping(s[k], to) \in Nat
      BY OverlappingIs
    <3> QED
      BY <3>1
  <2> QED
    BY <2>1 DEF Steps
<1> HIDE DEF n, step
<1>l. PICK f : IsLoop(f, n, Nat, 0, step)
  BY <1>0, <1>1, LoopRuns
<1>3. f \in [0 .. n -> Nat] /\ f[0] = 0 /\ \A k \in 1 .. n : f[k] = step[k][f[k - 1]]
  BY <1>l DEF IsLoop
<1>4. ASSUME NEW k \in 0 .. n
      PROVE  f[k] = IF k = 0 THEN 0 ELSE f[k - 1] + Overlapping(s[k], to)
  <2>1. CASE k = 0
    BY <1>3, <2>1
  <2>2. CASE k # 0
    <3>1. k \in 1 .. n /\ k - 1 \in 0 .. n
      BY <1>0, <2>2
    <3>2. f[k] = step[k][f[k - 1]] /\ f[k - 1] \in Nat
      BY <1>3, <3>1
    <3>3. f[k] = f[k - 1] + Overlapping(s[k], to)
      BY <3>1, <3>2 DEF step
    <3> QED
      BY <2>2, <3>3
  <2> QED
    BY <2>1, <2>2
<1>5. f = [k \in 0 .. n |-> IF k = 0 THEN 0 ELSE f[k - 1] + Overlapping(s[k], to)]
  BY <1>3, <1>4
<1> DEFINE p == Counted(s, to)
<1>6. p = [k \in 0 .. n |-> IF k = 0 THEN 0 ELSE p[k - 1] + Overlapping(s[k], to)]
  BY <1>5 DEF Counted, n
<1> HIDE DEF p
<1>7. p[0] = 0 /\ \A k \in 1 .. n : p[k] = p[k - 1] + Overlapping(s[k], to)
  BY <1>0, <1>6
<1> QED
  BY <1>7 DEF p, n

(* count(0, index).                                                        *)
LEMMA CountIs ==
    ASSUME NEW s \in Ranges, NEW x \in Nat
    PROVE  CountIn(s, 0, x) = Cardinality({y \in Members(s) : y < x})
<1> DEFINE n == Len(s)
           p == Counted(s, x)
           Under(k) == {y \in Prefix(s, k) : y < x}
<1>0. /\ n \in Nat
      /\ \A i \in 1 .. n : s[i][1] \in Nat /\ s[i][2] \in Nat /\ s[i][1] < s[i][2]
  BY RangesAre
<1>t. CountIn(s, 0, x) = p[n]
  BY DEF CountIn, Counted, Overlapping
<1>1. p[0] = 0 /\ \A k \in 1 .. n : p[k] = p[k - 1] + Overlapping(s[k], x)
  BY CountedRuns
<1>2. /\ Prefix(s, 0) = {} /\ Prefix(s, n) = Members(s)
      /\ \A k \in 1 .. n : /\ Prefix(s, k) = Prefix(s, k - 1) \cup Held(s, k)
                           /\ \A y \in Prefix(s, k - 1) : y \in Nat /\ y + 1 < s[k][1]
  BY PrefixIs
<1>3. \A k \in 1 .. n : LET c == IF s[k][2] <= x THEN s[k][2] ELSE x
                        IN  Overlapping(s[k], x) = IF s[k][1] <= c THEN c - s[k][1] ELSE 0
  BY OverlappingIs
<1> HIDE DEF p, n
<1> DEFINE T == {k \in 0 .. n : IsFiniteSet(Under(k)) /\ p[k] = Cardinality(Under(k))}
<1>4. 0 \in T
  <2>1. Under(0) = {}
    BY <1>2
  <2> HIDE DEF Under
  <2> QED
    BY <1>0, <1>1, <2>1, FS_EmptySet
<1>5. ASSUME NEW k \in 0 .. n - 1, k \in T
      PROVE  k + 1 \in T
  <2> DEFINE j == k + 1
             a == s[j][1]
             b == s[j][2]
             c == IF b <= x THEN b ELSE x
             new == a .. c - 1
  <2>0. j \in 1 .. n /\ j \in 0 .. n /\ j - 1 = k
    BY <1>0
  <2>1. a \in Nat /\ b \in Nat /\ a < b /\ c \in Nat
    BY <1>0, <2>0
  <2>2. p[j] = p[k] + (IF a <= c THEN c - a ELSE 0)
    <3> HIDE DEF j
    <3>1. p[j] = p[j - 1] + Overlapping(s[j], x)
      BY <1>1, <2>0
    <3>2. Overlapping(s[j], x) = IF a <= c THEN c - a ELSE 0
      BY <1>3, <2>0
    <3> QED
      BY <2>0, <3>1, <3>2
  <2>3. /\ Prefix(s, j) = Prefix(s, k) \cup (a .. b - 1)
        /\ \A y \in Prefix(s, k) : y \in Nat /\ y + 1 < a
    <3>1. Held(s, j) = a .. b - 1
      BY DEF Held
    <3> HIDE DEF j
    <3>2. Prefix(s, j) = Prefix(s, j - 1) \cup Held(s, j)
          /\ \A y \in Prefix(s, j - 1) : y \in Nat /\ y + 1 < s[j][1]
      BY <1>2, <2>0
    <3> QED
      BY <2>0, <3>1, <3>2
  <2> HIDE DEF j, a, b
  <2>4. Under(j) = Under(k) \cup new
    <3>1. \A y : y \in a .. b - 1 /\ y < x <=> y \in new
      BY <2>1
    <3> HIDE DEF new
    <3> QED
      BY <2>3, <3>1
  <2>5. Under(k) \cap new = {}
    <3>1. \A y \in Under(k) : y \in Nat /\ y + 1 < a
      BY <2>3
    <3> QED
      BY <2>1, <3>1
  <2>6. IsFiniteSet(new) /\ Cardinality(new) = IF a <= c THEN c - a ELSE 0
    <3> HIDE DEF c
    <3>1. a \in Int /\ c - 1 \in Int
      BY <2>1
    <3>2. IsFiniteSet(a .. c - 1) /\ Cardinality(a .. c - 1) = IF a > c - 1 THEN 0 ELSE c - 1 - a + 1
      BY ONLY <3>1, FS_Interval
    <3> QED
      BY <2>1, <3>2
  <2>7. IsFiniteSet(Under(k)) /\ p[k] = Cardinality(Under(k))
    BY <1>5
  <2> HIDE DEF new, c, Under
  <2>8. IsFiniteSet(Under(j)) /\ Cardinality(Under(j)) = Cardinality(Under(k)) + Cardinality(new)
    BY <2>4, <2>5, <2>6, <2>7, DisjointUnion
  <2>9. p[j] = Cardinality(Under(j))
    BY <2>2, <2>6, <2>7, <2>8
  <2> QED
    BY <2>0, <2>8, <2>9 DEF j
<1> HIDE DEF T
<1>6. n \in T
  <2>1. 0 .. n \subseteq T
    BY ONLY <1>0, <1>4, <1>5, UpTo
  <2> QED
    BY <1>0, <2>1
<1>7. p[n] = Cardinality(Under(n))
  BY <1>6 DEF T
<1> QED
  BY <1>2, <1>7, <1>t

(* The index that an index has once those of the set are inserted.         *)
Passed(u, r) == IF r[1] > u THEN u ELSE u + (r[2] - r[1])

(* The function ShiftIndex counts with, on its own.                        *)
Shifting(s, x) ==
    CHOOSE f : f = [k \in 0 .. Len(s) |-> IF k = 0 THEN x ELSE Passed(f[k - 1], s[k])]

(* It is a number.                                                         *)
LEMMA PassedType ==
    ASSUME NEW s \in Ranges, NEW k \in 1 .. Len(s), NEW u \in Nat
    PROVE  Passed(u, s[k]) \in Nat
<1>1. s[k][1] \in Nat /\ s[k][2] \in Nat /\ s[k][1] < s[k][2]
  BY RangesAre
<1> QED
  BY <1>1 DEF Passed

(* It takes the steps of ShiftIndex.                                       *)
LEMMA ShiftingRuns ==
    ASSUME NEW s \in Ranges, NEW x \in Nat
    PROVE  /\ Shifting(s, x)[0] = x
           /\ \A k \in 1 .. Len(s) : Shifting(s, x)[k] = Passed(Shifting(s, x)[k - 1], s[k])
<1> DEFINE n == Len(s)
           step == [k \in 1 .. n |-> [u \in Nat |-> Passed(u, s[k])]]
<1>0. n \in Nat
  BY RangesAre
<1>1. step \in Steps(n, Nat)
  <2>1. ASSUME NEW k \in 1 .. n, NEW u \in Nat
        PROVE  Passed(u, s[k]) \in Nat
    BY PassedType
  <2> QED
    BY <2>1 DEF Steps
<1> HIDE DEF n, step
<1>l. PICK f : IsLoop(f, n, Nat, x, step)
  BY <1>0, <1>1, LoopRuns
<1>3. f \in [0 .. n -> Nat] /\ f[0] = x /\ \A k \in 1 .. n : f[k] = step[k][f[k - 1]]
  BY <1>l DEF IsLoop
<1>4. ASSUME NEW k \in 0 .. n
      PROVE  f[k] = IF k = 0 THEN x ELSE Passed(f[k - 1], s[k])
  <2>1. CASE k = 0
    BY <1>3, <2>1
  <2>2. CASE k # 0
    <3>1. k \in 1 .. n /\ k - 1 \in 0 .. n
      BY <1>0, <2>2
    <3>2. f[k] = step[k][f[k - 1]] /\ f[k - 1] \in Nat
      BY <1>3, <3>1
    <3>3. f[k] = Passed(f[k - 1], s[k])
      BY <3>1, <3>2 DEF step
    <3> QED
      BY <2>2, <3>3
  <2> QED
    BY <2>1, <2>2
<1>5. f = [k \in 0 .. n |-> IF k = 0 THEN x ELSE Passed(f[k - 1], s[k])]
  BY <1>3, <1>4
<1> DEFINE p == Shifting(s, x)
<1>6. p = [k \in 0 .. n |-> IF k = 0 THEN x ELSE Passed(p[k - 1], s[k])]
  BY <1>5 DEF Shifting, n
<1> HIDE DEF p
<1>7. p[0] = x /\ \A k \in 1 .. n : p[k] = Passed(p[k - 1], s[k])
  BY <1>0, <1>6
<1> QED
  BY <1>7 DEF p, n

\* Number y is the one that is not in the set and has x such numbers before it.
IsFree(S, y, x) == y \in Nat /\ y \notin S /\ Cardinality((0 .. y) \ S) = x + 1

(* There is only one such number.                                          *)
LEMMA OneFree ==
    ASSUME NEW S, NEW x \in Nat, NEW y, NEW z, IsFree(S, y, x), IsFree(S, z, x)
    PROVE  y = z
<1>1. ASSUME NEW u, NEW v, IsFree(S, u, x), IsFree(S, v, x), u < v
      PROVE  FALSE
  <2>0. u \in Nat /\ v \in Nat /\ v \notin S
    BY <1>1 DEF IsFree
  <2> DEFINE A == (0 .. u) \ S
             B == (0 .. v) \ S
  <2>1. IsFiniteSet(B)
    <3>1. IsFiniteSet(0 .. v)
      BY <2>0, FS_Interval
    <3> QED
      BY <3>1, FS_Difference
  <2>2. A \in SUBSET B /\ v \in B /\ v \notin A
    BY <1>1, <2>0
  <2>3. Cardinality(A) = Cardinality(B)
    BY <1>1 DEF IsFree
  <2> HIDE DEF A, B
  <2> QED
    BY <2>1, <2>2, <2>3, FS_Subset
<1>2. y \in Nat /\ z \in Nat
  BY DEF IsFree
<1> QED
  BY <1>1, <1>2

(* shift.                                                                  *)
LEMMA ShiftIndexIs ==
    ASSUME NEW s \in Ranges, NEW x \in Nat
    PROVE  IsFree(Members(s), ShiftIndex(s, x), x)
<1> DEFINE n == Len(s)
           p == Shifting(s, x)
<1>0. /\ n \in Nat
      /\ \A i \in 1 .. n : s[i][1] \in Nat /\ s[i][2] \in Nat /\ s[i][1] < s[i][2]
  BY RangesAre
<1>t. ShiftIndex(s, x) = p[n]
  BY DEF ShiftIndex, Shifting, Passed
<1>1. p[0] = x /\ \A k \in 1 .. n : p[k] = Passed(p[k - 1], s[k])
  BY ShiftingRuns
<1>2. /\ Prefix(s, 0) = {} /\ Prefix(s, n) = Members(s)
      /\ \A k \in 1 .. n : /\ Prefix(s, k) = Prefix(s, k - 1) \cup Held(s, k)
                           /\ \A y \in Prefix(s, k - 1) : y \in Nat /\ y + 1 < s[k][1]
  BY PrefixIs
<1> HIDE DEF p, n
<1> DEFINE T == {k \in 0 .. n : IsFree(Prefix(s, k), p[k], x)}
<1>3. 0 \in T
  <2>1. Cardinality(0 .. x) = x + 1
    <3>1. Cardinality(0 .. x) = IF 0 > x THEN 0 ELSE x - 0 + 1
      BY FS_Interval
    <3> QED
      BY <3>1
  <2>2. (0 .. x) \ {} = 0 .. x
    OBVIOUS
  <2>3. IsFree({}, x, x)
    BY <2>1, <2>2 DEF IsFree
  <2>4. IsFree(Prefix(s, 0), p[0], x)
    BY <1>1, <1>2, <2>3, Zenon
  <2>5. 0 \in 0 .. n
    BY <1>0
  <2> QED
    BY <2>4, <2>5
<1>4. ASSUME NEW k \in 0 .. n - 1, k \in T
      PROVE  k + 1 \in T
  <2> DEFINE j == k + 1
             a == s[j][1]
             b == s[j][2]
             g == p[k]
             P == Prefix(s, k)
             Q == Prefix(s, j)
  <2>0. j \in 1 .. n /\ j \in 0 .. n /\ j - 1 = k
    BY <1>0
  <2>1. a \in Nat /\ b \in Nat /\ a < b
    BY <1>0, <2>0
  <2>2. g \in Nat /\ g \notin P /\ Cardinality((0 .. g) \ P) = x + 1
    BY <1>4 DEF IsFree
  <2>3. p[j] = IF a > g THEN g ELSE g + (b - a)
    <3> HIDE DEF j
    <3>1. p[j] = Passed(p[j - 1], s[j])
      BY <1>1, <2>0
    <3> QED
      BY <2>0, <3>1 DEF Passed
  <2>4. /\ Q = P \cup (a .. b - 1)
        /\ \A y \in P : y \in Nat /\ y + 1 < a
    <3>1. Held(s, j) = a .. b - 1
      BY DEF Held
    <3> HIDE DEF j
    <3>2. Prefix(s, j) = Prefix(s, j - 1) \cup Held(s, j)
          /\ \A y \in Prefix(s, j - 1) : y \in Nat /\ y + 1 < s[j][1]
      BY <1>2, <2>0
    <3> QED
      BY <2>0, <3>1, <3>2
  <2> HIDE DEF j, a, b, g, P, Q
  <2>5. CASE a > g
    <3>1. p[j] = g /\ g \notin Q
      BY <2>1, <2>2, <2>3, <2>4, <2>5
    <3>2. (0 .. g) \ Q = (0 .. g) \ P
      BY <2>1, <2>2, <2>4, <2>5
    <3>3. IsFree(Q, p[j], x)
      BY <2>2, <3>1, <3>2 DEF IsFree
    <3> QED
      BY <2>0, <3>3 DEF j, Q
  <2>6. CASE a <= g
    <3> DEFINE h == g + (b - a)
               low == (0 .. a - 1) \ P
               old == a .. g
               new == b .. h
    <3>0. p[j] = h
      BY <2>1, <2>2, <2>3, <2>6
    <3>1. h \in Nat /\ b <= h /\ h - b = g - a
      BY ONLY <2>1, <2>2, <2>6
    <3> HIDE DEF h
    <3>2. h \notin Q
      <4>1. h \notin P
        BY <2>1, <2>4, <3>1
      <4> QED
        BY <2>1, <2>4, <3>1, <4>1
    <3>3. (0 .. g) \ P = low \cup old
      BY <2>1, <2>2, <2>4, <2>6
    <3>4. (0 .. h) \ Q = low \cup new
      BY <2>1, <2>4, <3>1
    <3>5. low \cap old = {} /\ low \cap new = {}
      BY <2>1
    <3>6. /\ IsFiniteSet(old) /\ Cardinality(old) = g - a + 1
          /\ IsFiniteSet(new) /\ Cardinality(new) = h - b + 1
      <4>1. IsFiniteSet(a .. g) /\ Cardinality(a .. g) = IF a > g THEN 0 ELSE g - a + 1
        BY <2>1, <2>2, FS_Interval
      <4>2. IsFiniteSet(b .. h) /\ Cardinality(b .. h) = IF b > h THEN 0 ELSE h - b + 1
        BY <2>1, <3>1, FS_Interval
      <4> QED
        BY <2>1, <2>2, <2>6, <3>1, <4>1, <4>2
    <3>7. IsFiniteSet(low)
      <4>1. IsFiniteSet(0 .. a - 1)
        BY <2>1, FS_Interval
      <4> QED
        BY <4>1, FS_Difference
    <3> HIDE DEF low, old, new
    <3>8. Cardinality(low \cup old) = Cardinality(low) + Cardinality(old)
      BY <3>5, <3>6, <3>7, DisjointUnion
    <3>9. Cardinality(low \cup new) = Cardinality(low) + Cardinality(new)
      BY <3>5, <3>6, <3>7, DisjointUnion
    <3>10. Cardinality((0 .. h) \ Q) = x + 1
      <4>1. Cardinality(old) = Cardinality(new)
        BY <3>1, <3>6
      <4> QED
        BY <2>2, <3>3, <3>4, <3>8, <3>9, <4>1
    <3>11. IsFree(Q, p[j], x)
      BY <3>0, <3>1, <3>2, <3>10 DEF IsFree
    <3> QED
      BY <2>0, <3>11 DEF j, Q
  <2> QED
    BY <2>1, <2>2, <2>5, <2>6
<1> HIDE DEF T
<1>5. n \in T
  <2>1. 0 .. n \subseteq T
    BY ONLY <1>0, <1>3, <1>4, UpTo
  <2> QED
    BY <1>0, <2>1
<1> QED
  BY <1>2, <1>5, <1>t DEF T

-----------------------------------------------------------------------------
(* What has the members of M is what FromIndexes makes of M.               *)
LEMMA FromIs ==
    ASSUME NEW n \in Nat, NEW M \in SUBSET (0 .. n), NEW t \in Ranges,
           \A z \in Nat : z \in Members(t) <=> z \in M
    PROVE  t = FromIndexes(M)
<1>1. FromIndexes(M) \in Ranges /\ Members(FromIndexes(M)) = M
  BY FromIndexesIs
<1>2. Members(t) \subseteq Nat /\ M \subseteq Nat
  BY InMembers
<1>3. Members(t) = Members(FromIndexes(M))
  BY <1>1, <1>2
<1> QED
  BY <1>1, <1>3, SameMembers

(* The free number after an index is not far beyond it.                    *)
LEMMA FreeBound ==
    ASSUME NEW n \in Nat, NEW S \in SUBSET (0 .. n + 1), NEW x \in 0 .. n + 2, NEW y, IsFree(S, y, x)
    PROVE  y \in 0 .. 2 * n + 4
<1>0. y \in Nat /\ Cardinality((0 .. y) \ S) = x + 1
  BY DEF IsFree
<1>1. IsFiniteSet(0 .. y) /\ Cardinality(0 .. y) = y + 1
  <2>1. IsFiniteSet(0 .. y) /\ Cardinality(0 .. y) = IF 0 > y THEN 0 ELSE y - 0 + 1
    BY <1>0, FS_Interval
  <2> QED
    BY <1>0, <2>1
<1>2. IsFiniteSet(0 .. n + 1) /\ Cardinality(0 .. n + 1) = n + 2
  <2>0. n + 1 \in Int
    OBVIOUS
  <2>1. IsFiniteSet(0 .. n + 1) /\ Cardinality(0 .. n + 1) = IF 0 > n + 1 THEN 0 ELSE n + 1 - 0 + 1
    BY <2>0, FS_Interval
  <2> QED
    BY <2>1
<1> DEFINE C == (0 .. y) \cap S
<1>3. C \in SUBSET (0 .. n + 1)
  OBVIOUS
<1>4. Cardinality((0 .. y) \ S) = Cardinality(0 .. y) - Cardinality(C)
  BY <1>1, FS_Difference
<1> HIDE DEF C
<1>5. IsFiniteSet(C) /\ Cardinality(C) <= n + 2
  BY <1>2, <1>3, FS_Subset
<1>6. Cardinality(C) \in Nat
  BY <1>5, FS_CardinalityType
<1> QED
  BY <1>0, <1>1, <1>4, <1>5, <1>6
-----------------------------------------------------------------------------
(* Positions outside a set.                                                *)

(* How many positions before x are not in the set: what unshift counts.    *)
Rank(S, x) == Cardinality({y \in 0 .. x - 1 : y \notin S})

(* One position more counts, unless it is in the set.                      *)
LEMMA RankSteps ==
    ASSUME NEW S
    PROVE  /\ Rank(S, 0) = 0
           /\ \A x \in Nat : Rank(S, x) \in Nat
           /\ \A x \in Nat : Rank(S, x + 1) = IF x \in S THEN Rank(S, x) ELSE Rank(S, x) + 1
<1> DEFINE B(x) == {y \in 0 .. x - 1 : y \notin S}
<1>1. Rank(S, 0) = 0
  <2>1. B(0) = {}
    OBVIOUS
  <2> QED
    BY <2>1, FS_EmptySet DEF Rank
<1>2. ASSUME NEW x \in Nat
      PROVE  IsFiniteSet(B(x)) /\ Cardinality(B(x)) \in Nat
  <2>1. IsFiniteSet(0 .. x - 1)
    BY FS_Interval
  <2>2. B(x) \in SUBSET (0 .. x - 1)
    OBVIOUS
  <2>3. IsFiniteSet(B(x))
    BY <2>1, <2>2, FS_Subset
  <2> HIDE DEF B
  <2> QED
    BY <2>3, FS_CardinalityType
<1>3. ASSUME NEW x \in Nat
      PROVE  Rank(S, x + 1) = IF x \in S THEN Rank(S, x) ELSE Rank(S, x) + 1
  <2>1. B(x + 1) = IF x \in S THEN B(x) ELSE B(x) \cup {x}
    OBVIOUS
  <2>2. x \notin B(x)
    OBVIOUS
  <2>3. Rank(S, x) = Cardinality(B(x)) /\ Rank(S, x + 1) = Cardinality(B(x + 1))
    BY DEF Rank
  <2> HIDE DEF B
  <2>4. Cardinality(B(x) \cup {x}) = Cardinality(B(x)) + 1
    BY <1>2, <2>2, FS_AddElement
  <2> QED
    BY <2>1, <2>3, <2>4
<1> QED
  BY <1>1, <1>2, <1>3 DEF Rank

(* Nothing else is counted below x.                                        *)
LEMMA RankLocal ==
    ASSUME NEW S, NEW T, NEW x \in Nat, \A y \in 0 .. x - 1 : y \in S <=> y \in T
    PROVE  Rank(S, x) = Rank(T, x)
<1>1. {y \in 0 .. x - 1 : y \notin S} = {y \in 0 .. x - 1 : y \notin T}
  OBVIOUS
<1> QED
  BY <1>1 DEF Rank

(* The rank grows with the position, and by one at each position outside.  *)
LEMMA RankGrows ==
    ASSUME NEW S, NEW x \in Nat, NEW y \in Nat, x <= y
    PROVE  /\ Rank(S, x) \in Nat /\ Rank(S, y) \in Nat
           /\ Rank(S, x) <= Rank(S, y)
           /\ x < y /\ x \notin S => Rank(S, x) < Rank(S, y)
           /\ Rank(S, y) - Rank(S, x) <= y - x
<1>0. /\ \A z \in Nat : Rank(S, z) \in Nat
      /\ \A z \in Nat : Rank(S, z + 1) = IF z \in S THEN Rank(S, z) ELSE Rank(S, z) + 1
  BY RankSteps
<1> DEFINE R(k) == Rank(S, x + k)
           Good(k) == /\ R(0) <= R(k) /\ R(k) - R(0) <= k
                      /\ k > 0 /\ x \notin S => R(0) < R(k)
           T == {k \in Nat : Good(k)}
<1>r. \A k \in Nat : R(k) \in Nat
  BY <1>0
<1>s. \A k \in Nat : R(k + 1) = R(k) \/ R(k + 1) = R(k) + 1
  <2> SUFFICES ASSUME NEW k \in Nat
               PROVE  R(k + 1) = R(k) \/ R(k + 1) = R(k) + 1
    OBVIOUS
  <2>1. x + k \in Nat /\ x + (k + 1) = (x + k) + 1
    OBVIOUS
  <2> QED
    BY <1>0, <2>1
<1>t. x \notin S => R(1) = R(0) + 1
  <2>1. x + 0 = x /\ x \in Nat
    OBVIOUS
  <2> QED
    BY <1>0, <2>1
<1> HIDE DEF R
<1>1. 0 \in T
  BY <1>r
<1>2. ASSUME NEW k \in 0 .. (y - x) - 1, k \in T
      PROVE  k + 1 \in T
  <2>1. k \in Nat /\ k + 1 \in Nat /\ R(k) \in Nat /\ R(0) \in Nat /\ R(k + 1) \in Nat
    BY <1>r
  <2>2. R(k + 1) = R(k) \/ R(k + 1) = R(k) + 1
    BY <1>s, <2>1
  <2>3. R(0) <= R(k + 1) /\ R(k + 1) - R(0) <= k + 1
    BY <1>2, <2>1, <2>2
  <2>4. x \notin S => R(0) < R(k + 1)
    <3>1. CASE k = 0
      BY <1>t, <2>1, <3>1
    <3>2. CASE k > 0
      BY <1>2, <2>1, <2>2, <3>2
    <3> QED
      BY <2>1, <3>1, <3>2
  <2> QED
    BY <2>1, <2>3, <2>4
<1> HIDE DEF T
<1>3. y - x \in Nat /\ 0 .. (y - x) \subseteq T
  BY <1>1, <1>2, UpTo
<1>4. y - x \in T
  BY <1>3
<1>5. Good(y - x)
  BY <1>4 DEF T
<1>6. R(y - x) = Rank(S, y) /\ R(0) = Rank(S, x)
  <2>1. x + (y - x) = y /\ x + 0 = x
    OBVIOUS
  <2> QED
    BY <2>1 DEF R
<1> HIDE DEF Good
<1>7. Rank(S, x) \in Nat /\ Rank(S, y) \in Nat
  BY <1>0
<1> QED
  BY <1>5, <1>6, <1>7 DEF Good

(* One position added to the set is one less to count after it.            *)
LEMMA RankAdds ==
    ASSUME NEW S, NEW a \in Nat, a \notin S, NEW x \in Nat
    PROVE  Rank(S \cup {a}, x) = IF a < x THEN Rank(S, x) - 1 ELSE Rank(S, x)
<1> DEFINE V == S \cup {a}
           R(k) == Rank(S, k)
           Q(k) == Rank(V, k)
           Good(k) == Q(k) = IF a < k THEN R(k) - 1 ELSE R(k)
           T == {k \in Nat : Good(k)}
<1>0. /\ R(0) = 0 /\ Q(0) = 0
      /\ \A k \in Nat : R(k) \in Nat /\ Q(k) \in Nat
      /\ \A k \in Nat : R(k + 1) = IF k \in S THEN R(k) ELSE R(k) + 1
      /\ \A k \in Nat : Q(k + 1) = IF k \in V THEN Q(k) ELSE Q(k) + 1
  BY RankSteps
<1>v. \A k : k \in V <=> k \in S \/ k = a
  OBVIOUS
<1> HIDE DEF R, Q, V
<1>1. 0 \in T
  BY <1>0
<1>2. ASSUME NEW k \in 0 .. x - 1, k \in T
      PROVE  k + 1 \in T
  <2>1. k \in Nat /\ R(k) \in Nat /\ Q(k) \in Nat /\ R(k + 1) \in Nat /\ Q(k + 1) \in Nat
    BY <1>0
  <2>2. CASE k < a
    BY <1>0, <1>2, <1>v, <2>1, <2>2
  <2>3. CASE k = a
    BY <1>0, <1>2, <1>v, <2>1, <2>3
  <2>4. CASE k > a
    BY <1>0, <1>2, <1>v, <2>1, <2>4
  <2> QED
    BY <2>1, <2>2, <2>3, <2>4
<1> HIDE DEF T
<1>3. x \in T
  BY <1>1, <1>2, UpTo
<1>4. Good(x)
  BY <1>3 DEF T
<1> QED
  BY <1>4 DEF R, Q, V

(* One position taken out of the set is one more to count after it.        *)
LEMMA RankRemoves ==
    ASSUME NEW S, NEW a \in Nat, a \in S, NEW x \in Nat
    PROVE  Rank(S \ {a}, x) = IF a < x THEN Rank(S, x) + 1 ELSE Rank(S, x)
<1> DEFINE V == S \ {a}
<1>1. V \cup {a} = S /\ a \notin V
  OBVIOUS
<1> HIDE DEF V
<1>2. Rank(V \cup {a}, x) = IF a < x THEN Rank(V, x) - 1 ELSE Rank(V, x)
  BY <1>1, RankAdds
<1>3. Rank(V, x) \in Nat
  BY RankSteps
<1> QED
  BY <1>1, <1>2, <1>3 DEF V

(* The set after the position i is inserted ...                            *)
Opened(S, V, i) ==
    \A z \in Nat : z \in V <=> (z < i /\ z \in S) \/ z = i \/ (z > i /\ z - 1 \in S)
(* ... and after it is erased.                                             *)
Closed(S, V, i) ==
    \A z \in Nat : z \in V <=> (z < i /\ z \in S) \/ (i <= z /\ z + 1 \in S)

\* What counts after an insertion ...
LEMMA RankOpened ==
    ASSUME NEW S, NEW V, NEW i \in Nat, Opened(S, V, i), NEW x \in Nat
    PROVE  /\ x <= i => Rank(V, x) = Rank(S, x)
           /\ x >= i => Rank(V, x + 1) = Rank(S, x)
<1> DEFINE R(k) == Rank(S, k)
           Q(k) == Rank(V, k)
<1>0. /\ \A k \in Nat : R(k) \in Nat /\ Q(k) \in Nat
      /\ \A k \in Nat : R(k + 1) = IF k \in S THEN R(k) ELSE R(k) + 1
      /\ \A k \in Nat : Q(k + 1) = IF k \in V THEN Q(k) ELSE Q(k) + 1
  BY RankSteps
<1>1. ASSUME NEW y \in Nat, y <= i
      PROVE  R(y) = Q(y)
  <2>1. \A z \in 0 .. y - 1 : z \in S <=> z \in V
    BY <1>1 DEF Opened
  <2> QED
    BY <2>1, RankLocal
<1> HIDE DEF R, Q
<1>2. ASSUME x >= i
      PROVE  Q(x + 1) = R(x)
  <2> DEFINE T == {k \in Nat : Q((i + k) + 1) = R(i + k)}
  <2>1. 0 \in T
    <3>1. i \in V /\ R(i) = Q(i) /\ i + 0 = i
      BY <1>1 DEF Opened
    <3> QED
      BY <1>0, <3>1
  <2>2. ASSUME NEW k \in 0 .. (x - i) - 1, k \in T
        PROVE  k + 1 \in T
    <3> DEFINE m == i + k
    <3>1. m \in Nat /\ m + 1 \in Nat /\ i + (k + 1) = m + 1 /\ k + 1 \in Nat
      OBVIOUS
    <3>2. m + 1 \in V <=> m \in S
      <4>1. m + 1 > i /\ (m + 1) - 1 = m
        OBVIOUS
      <4> HIDE DEF m
      <4> QED
        BY <3>1, <4>1 DEF Opened
    <3>3. Q(m + 1) = R(m)
      BY <2>2
    <3> HIDE DEF m
    <3>4. Q((m + 1) + 1) = R(m + 1)
      BY <1>0, <3>1, <3>2, <3>3
    <3> QED
      BY <3>1, <3>4
  <2> HIDE DEF T
  <2>3. x - i \in Nat /\ 0 .. (x - i) \subseteq T
    BY <1>2, <2>1, <2>2, UpTo
  <2>4. x - i \in T /\ i + (x - i) = x
    BY <2>3
  <2> QED
    BY <2>4 DEF T
<1> QED
  BY <1>1, <1>2 DEF R, Q

\* ... and after an erasure.
LEMMA RankClosed ==
    ASSUME NEW S, NEW V, NEW i \in Nat, Closed(S, V, i), NEW x \in Nat
    PROVE  /\ x <= i => Rank(V, x) = Rank(S, x)
           /\ x >= i => Rank(V, x) = IF i \in S THEN Rank(S, x + 1) ELSE Rank(S, x + 1) - 1
<1> DEFINE R(k) == Rank(S, k)
           Q(k) == Rank(V, k)
           d == IF i \in S THEN 0 ELSE 1
<1>0. /\ \A k \in Nat : R(k) \in Nat /\ Q(k) \in Nat
      /\ \A k \in Nat : R(k + 1) = IF k \in S THEN R(k) ELSE R(k) + 1
      /\ \A k \in Nat : Q(k + 1) = IF k \in V THEN Q(k) ELSE Q(k) + 1
  BY RankSteps
<1>1. ASSUME NEW y \in Nat, y <= i
      PROVE  R(y) = Q(y)
  <2>1. \A z \in 0 .. y - 1 : z \in S <=> z \in V
    BY <1>1 DEF Closed
  <2> QED
    BY <2>1, RankLocal
<1> HIDE DEF R, Q
<1>d. d \in {0, 1} /\ R(i + 1) = R(i) + d
  <2>1. R(i + 1) = IF i \in S THEN R(i) ELSE R(i) + 1
    BY <1>0
  <2>2. R(i) \in Nat
    BY <1>0
  <2> QED
    BY <2>1, <2>2
<1>2. ASSUME x >= i
      PROVE  Q(x) + d = R(x + 1)
  <2> DEFINE T == {k \in Nat : Q(i + k) + d = R((i + k) + 1)}
  <2> HIDE DEF d
  <2>1. 0 \in T
    <3>1. R(i) = Q(i) /\ i + 0 = i /\ R(i) \in Nat /\ R(i + 1) \in Nat /\ Q(i) \in Nat
      BY <1>0, <1>1
    <3> QED
      BY <1>d, <3>1
  <2>2. ASSUME NEW k \in 0 .. (x - i) - 1, k \in T
        PROVE  k + 1 \in T
    <3> DEFINE m == i + k
    <3>1. m \in Nat /\ m + 1 \in Nat /\ i + (k + 1) = m + 1 /\ k + 1 \in Nat
      OBVIOUS
    <3>2. m \in V <=> m + 1 \in S
      <4>1. i <= m
        OBVIOUS
      <4> HIDE DEF m
      <4> QED
        BY <3>1, <4>1 DEF Closed
    <3>3. Q(m) + d = R(m + 1)
      BY <2>2
    <3> HIDE DEF m
    <3>4. Q(m + 1) + d = R((m + 1) + 1)
      BY <1>0, <1>d, <3>1, <3>2, <3>3
    <3> QED
      BY <3>1, <3>4
  <2> HIDE DEF T
  <2>3. x - i \in Nat /\ 0 .. (x - i) \subseteq T
    BY <1>2, <2>1, <2>2, UpTo
  <2>4. x - i \in T /\ i + (x - i) = x
    BY <2>3
  <2> QED
    BY <2>4 DEF T
<1> QED
  BY <1>0, <1>1, <1>2 DEF R, Q, d

(* What unshift and shift compute.                                         *)
LEMMA UnshiftIs ==
    ASSUME NEW s \in Ranges, NEW x \in Nat
    PROVE  UnshiftIndex(s, x) = Rank(Members(s), x) /\ UnshiftIndex(s, x) \in Nat
<1> DEFINE M == Members(s)
           in == {y \in M : y < x}
           out == {y \in 0 .. x - 1 : y \notin M}
<1>0. M \subseteq Nat
  BY InMembers
<1>1. in \cup out = 0 .. x - 1 /\ in \cap out = {}
  BY <1>0
<1>2. IsFiniteSet(0 .. x - 1) /\ Cardinality(0 .. x - 1) = x
  BY FS_Interval
<1>3. IsFiniteSet(in) /\ IsFiniteSet(out)
  <2>1. in \in SUBSET (0 .. x - 1) /\ out \in SUBSET (0 .. x - 1)
    BY <1>0
  <2> QED
    BY <1>2, <2>1, FS_Subset
<1>4. CountIn(s, 0, x) = Cardinality(in)
  BY CountIs
<1>5. Rank(M, x) = Cardinality(out)
  BY DEF Rank
<1>6. Rank(M, x) \in Nat
  BY RankSteps
<1> HIDE DEF M, in, out
<1>7. x = Cardinality(in) + Cardinality(out)
  BY <1>1, <1>2, <1>3, DisjointUnion
<1>8. Cardinality(in) \in Nat
  BY <1>3, FS_CardinalityType
<1> QED
  BY <1>4, <1>5, <1>6, <1>7, <1>8 DEF UnshiftIndex, M

\* shift finds the position of a rank.
LEMMA ShiftIs ==
    ASSUME NEW s \in Ranges, NEW r \in Nat
    PROVE  /\ ShiftIndex(s, r) \in Nat /\ ShiftIndex(s, r) \notin Members(s)
           /\ Rank(Members(s), ShiftIndex(s, r)) = r
<1> DEFINE y == ShiftIndex(s, r)
           M == Members(s)
<1>1. y \in Nat /\ y \notin M /\ Cardinality((0 .. y) \ M) = r + 1
  BY ShiftIndexIs DEF IsFree
<1>2. Rank(M, y + 1) = IF y \in M THEN Rank(M, y) ELSE Rank(M, y) + 1
  BY <1>1, RankSteps
<1>3. Rank(M, y) \in Nat
  BY <1>1, RankSteps
<1>4. {z \in 0 .. (y + 1) - 1 : z \notin M} = (0 .. y) \ M
  BY <1>1
<1>5. Rank(M, y + 1) = r + 1
  BY <1>1, <1>4 DEF Rank
<1> HIDE DEF y, M
<1>6. Rank(M, y) = r
  BY <1>1, <1>2, <1>3, <1>5
<1> QED
  BY <1>1, <1>6 DEF y, M

(* The position outside the set with a given rank is the only one.         *)
LEMMA OneOfRank ==
    ASSUME NEW S, NEW x \in Nat, NEW y \in Nat, x \notin S, y \notin S, Rank(S, x) = Rank(S, y)
    PROVE  x = y
<1>1. ~(x < y)
  <2> SUFFICES ASSUME x < y PROVE FALSE
    OBVIOUS
  <2>1. Rank(S, x) < Rank(S, y) /\ Rank(S, x) \in Nat
    BY RankGrows
  <2> QED
    BY <2>1
<1>2. ~(y < x)
  <2> SUFFICES ASSUME y < x PROVE FALSE
    OBVIOUS
  <2>1. Rank(S, y) < Rank(S, x) /\ Rank(S, x) \in Nat
    BY RankGrows
  <2> QED
    BY <2>1
<1> QED
  BY <1>1, <1>2

-----------------------------------------------------------------------------
(* The operations of the builder, told in terms of sets of positions.      *)

Moves == [from : Nat, to : Nat]
Mappings == UNION {[S -> Nat] : S \in SUBSET Nat}
Builders == [deletions : Ranges, insertions : Ranges, modifications : Ranges,
             moves : Seq(Moves), mapping : Mappings]

Del(b) == Members(b.deletions)
Ins(b) == Members(b.insertions)
Mod(b) == Members(b.modifications)

\* What a builder is made of.
LEMMA BuilderIs ==
    ASSUME NEW b \in Builders
    PROVE  /\ b.deletions \in Ranges /\ b.insertions \in Ranges /\ b.modifications \in Ranges
           /\ b.moves \in Seq(Moves) /\ b.mapping \in Mappings
           /\ DOMAIN b.mapping \subseteq Nat /\ \A x \in DOMAIN b.mapping : b.mapping[x] \in Nat
           /\ Del(b) \subseteq Nat /\ Ins(b) \subseteq Nat /\ Mod(b) \subseteq Nat
<1>1. /\ b.deletions \in Ranges /\ b.insertions \in Ranges /\ b.modifications \in Ranges
      /\ b.moves \in Seq(Moves) /\ b.mapping \in Mappings
  BY DEF Builders
<1>2. DOMAIN b.mapping \subseteq Nat /\ \A x \in DOMAIN b.mapping : b.mapping[x] \in Nat
  BY <1>1 DEF Mappings
<1>3. Del(b) \subseteq Nat /\ Ins(b) \subseteq Nat /\ Mod(b) \subseteq Nat
  BY <1>1, InMembers DEF Del, Ins, Mod
<1> QED
  BY <1>1, <1>2, <1>3

\* The builder of no changes.
LEMMA NoChangeIs ==
    /\ NoChange \in Builders /\ Del(NoChange) = {} /\ Ins(NoChange) = {} /\ Mod(NoChange) = {}
    /\ NoChange.moves = << >> /\ DOMAIN NoChange.mapping = {}
<1>1. << >> \in Ranges /\ Members(<< >>) = {}
  BY EmptyRanges
<1>2. << >> \in Seq(Moves)
  OBVIOUS
<1>3. << >> \in [{} -> Nat] /\ DOMAIN << >> = {}
  OBVIOUS
<1>4. << >> \in Mappings
  BY <1>3 DEF Mappings
<1> QED
  BY <1>1, <1>2, <1>3, <1>4 DEF NoChange, Builders, Del, Ins, Mod

\* modify.
LEMMA ModifyIs ==
    ASSUME NEW b \in Builders, NEW i \in Nat
    PROVE  /\ Modify(b, i) \in Builders
           /\ Del(Modify(b, i)) = Del(b) /\ Ins(Modify(b, i)) = Ins(b)
           /\ Mod(Modify(b, i)) = Mod(b) \cup {i}
           /\ Modify(b, i).deletions = b.deletions /\ Modify(b, i).insertions = b.insertions
           /\ Modify(b, i).moves = b.moves /\ Modify(b, i).mapping = b.mapping
<1> DEFINE s == AddIndex(b.modifications, i)
<1>1. s \in Ranges /\ Members(s) = Mod(b) \cup {i}
  BY BuilderIs, AddIndexIs DEF Mod
<1>2. Modify(b, i) = [b EXCEPT !.modifications = s]
  BY DEF Modify
<1> HIDE DEF s
<1> QED
  BY <1>1, <1>2 DEF Builders, Del, Ins, Mod

\* Where position x is once count positions have been put in at i.
After(x, i, count) == IF x >= i THEN x + count ELSE x

\* insert, tracked and untracked.
LEMMA InsertIs ==
    ASSUME NEW b \in Builders, NEW i \in Nat, NEW n \in Nat, n > 0, NEW track \in BOOLEAN
    PROVE  LET c == Insert(b, i, n, track)
           IN  /\ c \in Builders /\ c.deletions = b.deletions
               /\ \A z \in Nat : z \in Mod(c) <=>
                    (z < i /\ z \in Mod(b)) \/ (i <= z - n /\ z - n \in Mod(b))
               /\ ~track => c.insertions = b.insertions /\ c.moves = b.moves /\ c.mapping = b.mapping
               /\ track => \A z \in Nat : z \in Ins(c) <=>
                    \/ z < i /\ z \in Ins(b)
                    \/ i <= z - n /\ z - n \in Ins(b)
                    \/ i <= z /\ z < i + n
               /\ track => /\ Len(c.moves) = Len(b.moves)
                           /\ \A k \in 1 .. Len(b.moves) :
                                /\ c.moves[k].from = b.moves[k].from
                                /\ c.moves[k].to = After(b.moves[k].to, i, n)
               /\ track /\ (\A y \in DOMAIN b.mapping : y < i) => c.mapping = b.mapping
<1> DEFINE m == ShiftForInsert(b.modifications, i, n)
           s == InsertRange(b.insertions, i, n)
           v == [k \in DOMAIN b.moves |-> [from |-> b.moves[k].from, to |-> After(b.moves[k].to, i, n)]]
           f == [x \in {After(y, i, n) : y \in DOMAIN b.mapping} |->
                   b.mapping[CHOOSE y \in DOMAIN b.mapping : After(y, i, n) = x]]
<1>0. /\ b.deletions \in Ranges /\ b.insertions \in Ranges /\ b.modifications \in Ranges
      /\ b.moves \in Seq(Moves) /\ b.mapping \in Mappings
      /\ DOMAIN b.mapping \subseteq Nat /\ \A x \in DOMAIN b.mapping : b.mapping[x] \in Nat
  BY BuilderIs
<1>a. \A y \in Nat : After(y, i, n) \in Nat
  BY DEF After
<1>1. /\ m \in Ranges
      /\ \A z \in Nat : z \in Members(m) <=>
           (z < i /\ z \in Mod(b)) \/ (i <= z - n /\ z - n \in Mod(b))
  BY <1>0, ShiftForInsertIs DEF Mod
<1>2. /\ s \in Ranges
      /\ \A z \in Nat : z \in Members(s) <=>
           \/ z < i /\ z \in Ins(b)
           \/ i <= z - n /\ z - n \in Ins(b)
           \/ i <= z /\ z < i + n
  BY <1>0, InsertRangeIs DEF Ins
<1>3. /\ v \in Seq(Moves) /\ Len(v) = Len(b.moves)
      /\ \A k \in 1 .. Len(b.moves) : /\ v[k].from = b.moves[k].from
                                      /\ v[k].to = After(b.moves[k].to, i, n)
  <2>1. Len(b.moves) \in Nat /\ DOMAIN b.moves = 1 .. Len(b.moves)
    BY <1>0
  <2>2. \A k \in 1 .. Len(b.moves) : b.moves[k] \in Moves
    BY <1>0
  <2>3. \A k \in 1 .. Len(b.moves) : b.moves[k].from \in Nat /\ b.moves[k].to \in Nat
    BY <2>2 DEF Moves
  <2>4. \A k \in 1 .. Len(b.moves) : [from |-> b.moves[k].from, to |-> After(b.moves[k].to, i, n)] \in Moves
    BY <1>a, <2>3 DEF Moves
  <2> DEFINE L == Len(b.moves)
  <2>5. v \in [1 .. L -> Moves]
    <3> DEFINE e(k) == [from |-> b.moves[k].from, to |-> After(b.moves[k].to, i, n)]
    <3>1. v = [k \in 1 .. L |-> e(k)]
      BY ONLY <2>1
    <3>2. \A k \in 1 .. L : e(k) \in Moves
      BY ONLY <2>4
    <3> HIDE DEF e, v, L
    <3> QED
      BY ONLY <3>1, <3>2
  <2>6. \A k \in 1 .. L : v[k] = [from |-> b.moves[k].from, to |-> After(b.moves[k].to, i, n)]
    BY <2>1
  <2> HIDE DEF v, L
  <2>7. L \in Nat
    BY <2>1 DEF L
  <2>8. v \in Seq(Moves) /\ Len(v) = L
    BY ONLY <2>5, <2>7
  <2>9. \A k \in 1 .. L : /\ v[k].from = b.moves[k].from
                           /\ v[k].to = After(b.moves[k].to, i, n)
    <3> TAKE k \in 1 .. L
    <3>1. v[k] = [from |-> b.moves[k].from, to |-> After(b.moves[k].to, i, n)]
      BY <2>6
    <3> QED
      BY ONLY <3>1
  <2> QED
    BY ONLY <2>8, <2>9 DEF L
<1>4. f \in Mappings
  <2> DEFINE A == {After(y, i, n) : y \in DOMAIN b.mapping}
  <2>1. A \in SUBSET Nat
    BY <1>0, <1>a
  <2>2. ASSUME NEW x \in A
        PROVE  b.mapping[CHOOSE y \in DOMAIN b.mapping : After(y, i, n) = x] \in Nat
    <3>1. \E y \in DOMAIN b.mapping : After(y, i, n) = x
      BY <2>2
    <3>2. (CHOOSE y \in DOMAIN b.mapping : After(y, i, n) = x) \in DOMAIN b.mapping
      BY <3>1
    <3> QED
      BY <1>0, <3>2
  <2>3. f \in [A -> Nat]
    BY <2>2
  <2> QED
    BY <2>1, <2>3 DEF Mappings
<1>5. ASSUME \A y \in DOMAIN b.mapping : y < i
      PROVE  f = b.mapping
  <2>1. \A y \in DOMAIN b.mapping : After(y, i, n) = y
    <3> SUFFICES ASSUME NEW y \in DOMAIN b.mapping
                 PROVE  After(y, i, n) = y
      OBVIOUS
    <3>1. y \in Nat /\ y < i
      BY <1>0, <1>5
    <3> QED
      BY <3>1 DEF After
  <2>2. {After(y, i, n) : y \in DOMAIN b.mapping} = DOMAIN b.mapping
    BY <2>1
  <2>3. \A x \in DOMAIN b.mapping : (CHOOSE y \in DOMAIN b.mapping : After(y, i, n) = x) = x
    BY <2>1
  <2>4. f = [x \in DOMAIN b.mapping |-> b.mapping[x]]
    BY <2>2, <2>3
  <2>5. b.mapping = [x \in DOMAIN b.mapping |-> b.mapping[x]]
    BY <1>0 DEF Mappings
  <2> QED
    BY <2>4, <2>5
<1>6. Insert(b, i, n, track) = IF ~track THEN [b EXCEPT !.modifications = m]
                               ELSE [b EXCEPT !.modifications = m, !.insertions = s,
                                              !.moves = v, !.mapping = f]
  BY DEF Insert, After
<1> HIDE DEF m, s, v, f
<1>7. CASE ~track
  <2>1. Insert(b, i, n, track) = [b EXCEPT !.modifications = m]
    BY <1>6, <1>7
  <2> QED
    BY <1>1, <1>7, <2>1 DEF Builders, Mod
<1>8. CASE track
  <2>1. Insert(b, i, n, track) = [b EXCEPT !.modifications = m, !.insertions = s,
                                           !.moves = v, !.mapping = f]
    BY <1>6, <1>8
  <2> DEFINE c == Insert(b, i, n, track)
  <2>2. /\ c.modifications = m /\ c.insertions = s /\ c.moves = v /\ c.mapping = f
        /\ c.deletions = b.deletions
    BY <2>1 DEF Builders
  <2>3. c \in Builders
    BY <1>1, <1>2, <1>3, <1>4, <2>1 DEF Builders
  <2> HIDE DEF c
  <2> QED
    BY <1>1, <1>2, <1>3, <1>5, <1>8, <2>2, <2>3 DEF Mod, Ins, c
<1> QED
  BY <1>7, <1>8

-----------------------------------------------------------------------------
(* A table: the mapping, new row to old row.                               *)

(* A position that both sets agree about below it and that is in neither   *)
(* is at the same place in the old and the new table.                      *)
LEMMA SamePlace ==
    ASSUME NEW s \in Ranges, NEW d \in Ranges, NEW y \in Nat, y \notin Members(s), y \notin Members(d),
           \A x \in 0 .. y - 1 : x \in Members(s) <=> x \in Members(d)
    PROVE  ShiftIndex(d, UnshiftIndex(s, y)) = y
<1> DEFINE r == UnshiftIndex(s, y)
<1>1. r = Rank(Members(s), y) /\ r \in Nat
  BY UnshiftIs
<1>2. Rank(Members(s), y) = Rank(Members(d), y)
  BY RankLocal
<1> HIDE DEF r
<1>3. /\ ShiftIndex(d, r) \in Nat /\ ShiftIndex(d, r) \notin Members(d)
      /\ Rank(Members(d), ShiftIndex(d, r)) = r
  BY <1>1, ShiftIs
<1> QED
  BY <1>1, <1>2, <1>3, OneOfRank DEF r

\* One more entry of the mapping ...
LEMMA MappedIs ==
    ASSUME NEW f \in Mappings, NEW to \in Nat, NEW from \in Nat
    PROVE  /\ Mapped(f, to, from) \in Mappings
           /\ DOMAIN Mapped(f, to, from) = DOMAIN f \cup {to}
           /\ Mapped(f, to, from)[to] = from
           /\ \A x \in DOMAIN f : x # to => Mapped(f, to, from)[x] = f[x]
<1>1. DOMAIN f \cup {to} \in SUBSET Nat /\ \A x \in DOMAIN f : f[x] \in Nat
  BY DEF Mappings
<1>2. Mapped(f, to, from) \in [DOMAIN f \cup {to} -> Nat]
  BY <1>1 DEF Mapped
<1>3. Mapped(f, to, from) \in Mappings
  BY <1>1, <1>2 DEF Mappings
<1> QED
  BY <1>3 DEF Mapped

\* ... and one or more less.
LEMMA WithoutIs ==
    ASSUME NEW f \in Mappings, NEW K
    PROVE  /\ Without(f, K) \in Mappings
           /\ DOMAIN Without(f, K) = DOMAIN f \ K
           /\ \A x \in DOMAIN f \ K : Without(f, K)[x] = f[x]
<1>1. DOMAIN f \ K \in SUBSET Nat /\ \A x \in DOMAIN f : f[x] \in Nat
  BY DEF Mappings
<1>2. Without(f, K) \in [DOMAIN f \ K -> Nat]
  BY <1>1 DEF Without
<1>3. Without(f, K) \in Mappings
  BY <1>1, <1>2 DEF Mappings
<1> QED
  BY <1>3 DEF Without

(* What AddShifted adds, for a table.                                      *)
LEMMA AddedInPlace ==
    ASSUME NEW s \in Ranges, NEW d \in Ranges, NEW y \in Nat, y \notin Members(s), y \notin Members(d),
           \A x \in 0 .. y - 1 : x \in Members(s) <=> x \in Members(d)
    PROVE  LET left == AddShifted(d, UnshiftIndex(s, y))
           IN  left.index = y /\ left.set \in Ranges /\ Members(left.set) = Members(d) \cup {y}
<1>1. ShiftIndex(d, UnshiftIndex(s, y)) = y
  BY SamePlace
<1>2. AddIndex(d, y) \in Ranges /\ Members(AddIndex(d, y)) = Members(d) \cup {y}
  BY AddIndexIs
<1> QED
  BY <1>1, <1>2 DEF AddShifted

(* A table's builder: a row that is neither new nor moved is where it was, *)
(* and below it the same positions were left as were taken.                *)
InTable(b, last) ==
    /\ DOMAIN b.mapping \subseteq Ins(b) /\ Ins(b) \subseteq 0 .. last
    /\ \A y \in 0 .. last : y \notin Ins(b) =>
         y \notin Del(b) /\ \A x \in 0 .. y - 1 : x \in Ins(b) <=> x \in Del(b)

\* The number a row had before, NPos for a new one.
Orig(b, x) ==
    IF x \in DOMAIN b.mapping THEN b.mapping[x] ELSE IF x \in Ins(b) THEN NPos ELSE x

\* A row that takes another's place leaves its own, if it was there before.
LEMMA DisplaceIs ==
    ASSUME NEW b \in Builders, NEW row \in Nat, NEW to \in Nat,
           row \notin Ins(b) =>
             row \notin Del(b) /\ \A x \in 0 .. row - 1 : x \in Ins(b) <=> x \in Del(b)
    PROVE  LET c == Displace(b, row, to)
           IN  /\ row \in Ins(b) => c = b
               /\ row \notin Ins(b) =>
                    /\ c \in Builders /\ c.modifications = b.modifications /\ c.moves = b.moves
                    /\ Ins(c) = Ins(b) \cup {row} /\ Del(c) = Del(b) \cup {row}
                    /\ c.mapping = Mapped(b.mapping, to, row)
<1>0. /\ b.deletions \in Ranges /\ b.insertions \in Ranges /\ b.mapping \in Mappings
  BY BuilderIs
<1>s. InSet(b.insertions, row) <=> row \in Ins(b)
  BY <1>0, InSetMeans DEF Ins
<1>1. CASE row \in Ins(b)
  BY <1>1, <1>s DEF Displace
<1>2. CASE row \notin Ins(b)
  <2> DEFINE left == AddShifted(b.deletions, UnshiftIndex(b.insertions, row))
             s == AddIndex(b.insertions, row)
             f == Mapped(b.mapping, to, left.index)
             d == left.set
  <2>1. left.index = row /\ d \in Ranges /\ Members(d) = Del(b) \cup {row}
    BY <1>0, <1>2, AddedInPlace DEF Ins, Del
  <2>2. s \in Ranges /\ Members(s) = Ins(b) \cup {row}
    BY <1>0, AddIndexIs DEF Ins
  <2>3. f = Mapped(b.mapping, to, row) /\ f \in Mappings
    <3> DEFINE at == left.index
    <3>1. at = row
      BY <2>1
    <3>2. f = Mapped(b.mapping, to, at)
      OBVIOUS
    <3> HIDE DEF f, at
    <3>3. f = Mapped(b.mapping, to, row)
      BY ONLY <3>1, <3>2
    <3> QED
      BY <1>0, <3>3, MappedIs
  <2>4. Displace(b, row, to) = [b EXCEPT !.deletions = d, !.insertions = s, !.mapping = f]
    BY <1>2, <1>s DEF Displace
  <2> HIDE DEF left, s, f, d
  <2>5. Displace(b, row, to) \in Builders
    BY <2>1, <2>2, <2>3, <2>4 DEF Builders
  <2> DEFINE c == Displace(b, row, to)
  <2>6. /\ c.deletions = d /\ c.insertions = s /\ c.mapping = f
        /\ c.modifications = b.modifications /\ c.moves = b.moves
    BY <2>4 DEF Builders
  <2> HIDE DEF c
  <2>7. Ins(c) = Ins(b) \cup {row} /\ Del(c) = Del(b) \cup {row}
    BY ONLY <2>1, <2>2, <2>6 DEF Ins, Del
  <2> QED
    BY <1>2, <2>3, <2>5, <2>6, <2>7 DEF c
<1> QED
  BY <1>1, <1>2

(* Taking out one index.                                                   *)
LEMMA RemoveIndexIs ==
    ASSUME NEW s \in Ranges, NEW x \in Nat
    PROVE  RemoveIndex(s, x) \in Ranges /\ Members(RemoveIndex(s, x)) = Members(s) \ {x}
<1> DEFINE t == RemoveIndex(s, x)
<1>1. t = RemoveRange(s, x, x + 1)
  BY DEF RemoveIndex
<1>2. x + 1 \in Nat /\ x < x + 1
  OBVIOUS
<1> HIDE DEF t
<1>3. /\ t \in Ranges
      /\ \A z \in Nat : z \in Members(t) <=> z \in Members(s) /\ ~(x <= z /\ z < x + 1)
  BY <1>1, <1>2, RemoveRangeIs
<1>4. Members(t) \subseteq Nat /\ Members(s) \subseteq Nat
  BY <1>3, InMembers
<1>5. Members(t) = Members(s) \ {x}
  BY <1>3, <1>4
<1> QED
  BY <1>3, <1>5 DEF t

\* The modifications once the last row has taken the place of another.
ModsOver(b, row, last) ==
    IF row # last /\ InSet(b.modifications, last)
    THEN AddIndex(RemoveIndex(b.modifications, last), row) ELSE RemoveIndex(b.modifications, row)

\* They are those of the rows under their new numbers.
LEMMA ModsOverIs ==
    ASSUME NEW b \in Builders, NEW row \in Nat, NEW last \in Nat
    PROVE  /\ ModsOver(b, row, last) \in Ranges
           /\ \A z \in Nat : z # last => (z \in Members(ModsOver(b, row, last)) <=>
                IF z = row THEN last \in Mod(b) ELSE z \in Mod(b))
           /\ last \notin Members(ModsOver(b, row, last))
           /\ Members(ModsOver(b, row, last)) \subseteq Mod(b) \cup {row}
<1> DEFINE m == b.modifications
<1>0. m \in Ranges /\ Mod(b) = Members(m)
  BY BuilderIs DEF Mod
<1> HIDE DEF m
<1>1. InSet(m, last) <=> last \in Mod(b)
  BY <1>0, InSetMeans
<1>2. CASE row # last /\ last \in Mod(b)
  <2> DEFINE u == RemoveIndex(m, last)
  <2>1. u \in Ranges /\ Members(u) = Mod(b) \ {last}
    BY <1>0, RemoveIndexIs
  <2> HIDE DEF u
  <2>2. AddIndex(u, row) \in Ranges /\ Members(AddIndex(u, row)) = (Mod(b) \ {last}) \cup {row}
    BY <2>1, AddIndexIs
  <2>3. ModsOver(b, row, last) = AddIndex(u, row)
    BY <1>1, <1>2 DEF ModsOver, u, m
  <2> QED
    BY <1>2, <2>2, <2>3
<1>3. CASE ~(row # last /\ last \in Mod(b))
  <2>1. RemoveIndex(m, row) \in Ranges /\ Members(RemoveIndex(m, row)) = Mod(b) \ {row}
    BY <1>0, RemoveIndexIs
  <2>2. ModsOver(b, row, last) = RemoveIndex(m, row)
    BY <1>1, <1>3 DEF ModsOver, m
  <2> QED
    BY <1>3, <2>1, <2>2
<1> QED
  BY <1>2, <1>3

-----------------------------------------------------------------------------
(* move_over, merge and swap of the rows of a table.                       *)

\* Every row that has moved was deleted, or is about to be.
Origins(b, S) == \A x \in DOMAIN b.mapping : b.mapping[x] \in S

\* What a move over of a row that is not the last comes to.
Over(b, c, row, last) ==
    /\ c \in Builders
    /\ c.modifications = ModsOver(b, row, last) /\ c.moves = b.moves
    /\ Ins(c) = (Ins(b) \ {last}) \cup {row}
    /\ Del(c) = Del(b) \cup ({row, last} \ Ins(b))
    /\ DOMAIN c.mapping \subseteq Ins(c)
    /\ Origins(c, Del(c))
    /\ Orig(c, row) = Orig(b, last)
    /\ \A x \in 0 .. last - 1 : x # row => Orig(c, x) = Orig(b, x)

\* move_over of a row that is not the last.
LEMMA MovedOver ==
    ASSUME NEW b \in Builders, NEW row \in Nat, NEW last \in Nat, row < last, InTable(b, last),
           Origins(b, Del(b) \cup ({row} \ Ins(b)))
    PROVE  Over(b, MoveOver(b, row, last, TRUE), row, last)
<1> DEFINE m == ModsOver(b, row, last)
           f == b.mapping
           rowIn == InSet(b.insertions, row)
           lastIn == InSet(b.insertions, last)
           moved == lastIn /\ last \in DOMAIN f
           left == AddShifted(b.deletions, UnshiftIndex(b.insertions, last))
           g == CASE moved -> Mapped(Without(f, {last}), row, f[last])
                  [] ~moved /\ lastIn -> Without(f, IF rowIn THEN {row} ELSE {})
                  [] OTHER -> Mapped(f, row, left.index)
           ins == IF lastIn THEN RemoveIndex(b.insertions, last) ELSE b.insertions
           del == IF lastIn THEN b.deletions ELSE left.set
           new == IF rowIn THEN ins ELSE AddIndex(ins, row)
           old == IF rowIn THEN del ELSE AddShifted(del, UnshiftIndex(ins, row)).set
           c == MoveOver(b, row, last, TRUE)
<1>0. /\ b.deletions \in Ranges /\ b.insertions \in Ranges /\ f \in Mappings
      /\ DOMAIN f \subseteq Nat /\ \A x \in DOMAIN f : f[x] \in Nat
      /\ Del(b) \subseteq Nat /\ Ins(b) \subseteq Nat
      /\ Del(b) = Members(b.deletions) /\ Ins(b) = Members(b.insertions)
  BY BuilderIs DEF Del, Ins
<1>a. /\ DOMAIN f \subseteq Ins(b) /\ Ins(b) \subseteq 0 .. last
      /\ \A y \in 0 .. last : y \notin Ins(b) =>
           y \notin Del(b) /\ \A x \in 0 .. y - 1 : x \in Ins(b) <=> x \in Del(b)
  BY DEF InTable
<1>i. (rowIn <=> row \in Ins(b)) /\ (lastIn <=> last \in Ins(b))
  BY <1>0, InSetMeans
<1>m. m \in Ranges
  BY ModsOverIs
<1>1. c = [[b EXCEPT !.modifications = m] EXCEPT !.mapping = g, !.insertions = new, !.deletions = old]
  <2> DEFINE b1 == [b EXCEPT !.modifications =
                      IF row # last /\ InSet(b.modifications, last)
                      THEN AddIndex(RemoveIndex(@, last), row)
                      ELSE RemoveIndex(b.modifications, row)]
  <2>1. b1 = [b EXCEPT !.modifications = m]
    BY DEF ModsOver
  <2>2. row # last
    OBVIOUS
  <2>3. c = [b1 EXCEPT !.mapping = g, !.insertions = new, !.deletions = old]
    BY ONLY <2>2, Zenon DEF MoveOver
  <2> HIDE DEF b1, g, new, old
  <2> QED
    BY ONLY <2>1, <2>3
<1> HIDE DEF rowIn, lastIn
<1>2. /\ ins \in Ranges /\ Members(ins) = Ins(b) \ {last}
      /\ del \in Ranges /\ Members(del) = Del(b) \cup ({last} \ Ins(b))
      /\ ~lastIn => left.index = last
  <2>1. CASE lastIn
    <3>1. RemoveIndex(b.insertions, last) \in Ranges
          /\ Members(RemoveIndex(b.insertions, last)) = Ins(b) \ {last}
      BY <1>0, RemoveIndexIs
    <3> QED
      BY <1>i, <1>0, <2>1, <3>1
  <2>2. CASE ~lastIn
    <3>1. last \notin Del(b) /\ \A x \in 0 .. last - 1 : x \in Ins(b) <=> x \in Del(b)
      BY <1>i, <1>a, <2>2
    <3>2. left.index = last /\ left.set \in Ranges /\ Members(left.set) = Del(b) \cup {last}
      BY <1>i, <1>0, <2>2, <3>1, AddedInPlace
    <3> HIDE DEF left
    <3> QED
      BY <1>i, <1>0, <2>2, <3>2
  <2> QED
    BY <2>1, <2>2
<1>3. /\ new \in Ranges /\ Members(new) = (Ins(b) \ {last}) \cup {row}
      /\ old \in Ranges /\ Members(old) = Del(b) \cup ({row, last} \ Ins(b))
  <2> HIDE DEF ins, del
  <2>1. CASE rowIn
    BY <1>i, <1>2, <2>1
  <2>2. CASE ~rowIn
    <3>1. row \notin Members(ins) /\ row \notin Members(del)
          /\ \A x \in 0 .. row - 1 : x \in Members(ins) <=> x \in Members(del)
      BY <1>i, <1>2, <1>a, <2>2
    <3>2. AddShifted(del, UnshiftIndex(ins, row)).set \in Ranges
          /\ Members(AddShifted(del, UnshiftIndex(ins, row)).set) = Members(del) \cup {row}
      BY <1>2, <3>1, AddedInPlace
    <3>3. AddIndex(ins, row) \in Ranges /\ Members(AddIndex(ins, row)) = Members(ins) \cup {row}
      BY <1>2, AddIndexIs
    <3>4. new = AddIndex(ins, row) /\ old = AddShifted(del, UnshiftIndex(ins, row)).set
      BY <2>2
    <3> HIDE DEF new, old
    <3> QED
      BY <1>i, <1>2, <2>2, <3>2, <3>3, <3>4
  <2> QED
    BY <2>1, <2>2
<1>4. /\ g \in Mappings
      /\ DOMAIN g = (DOMAIN f \ {last, row}) \cup (IF moved \/ ~lastIn THEN {row} ELSE {})
      /\ \A x \in DOMAIN g : g[x] = IF x = row THEN (IF moved THEN f[last] ELSE last) ELSE f[x]
  <2> DEFINE h == Without(f, {last})
  <2>1. h \in Mappings /\ DOMAIN h = DOMAIN f \ {last} /\ \A x \in DOMAIN f \ {last} : h[x] = f[x]
    BY <1>0, WithoutIs
  <2> HIDE DEF h
  <2>2. CASE moved
    <3> DEFINE at == f[last]
    <3>0. at \in Nat
      BY <1>0, <2>2
    <3>1. g = Mapped(h, row, at)
      BY <2>2 DEF h
    <3> HIDE DEF at, g, f
    <3>2. /\ g \in Mappings /\ DOMAIN g = DOMAIN h \cup {row} /\ g[row] = at
          /\ \A x \in DOMAIN h : x # row => g[x] = h[x]
      BY ONLY <2>1, <3>0, <3>1, row \in Nat, MappedIs
    <3> QED
      BY <2>1, <2>2, <3>2 DEF at
  <2>3. CASE ~moved /\ lastIn
    <3> DEFINE K == IF rowIn THEN {row} ELSE {}
    <3>1. g = Without(f, K)
      BY <2>3
    <3>2. last \notin DOMAIN f /\ DOMAIN f \ K = DOMAIN f \ {last, row}
      BY <1>i, <1>a, <2>3
    <3> HIDE DEF K, g
    <3>3. g \in Mappings /\ DOMAIN g = DOMAIN f \ K /\ \A x \in DOMAIN f \ K : g[x] = f[x]
      BY <1>0, <3>1, WithoutIs, ZenonT(60)
    <3> QED
      BY <2>3, <3>2, <3>3
  <2>4. CASE ~lastIn
    <3> DEFINE at == left.index
    <3>1. at = last /\ g = Mapped(f, row, at)
      BY <1>2, <2>4
    <3>2. last \notin DOMAIN f
      BY <1>i, <1>a, <2>4
    <3> HIDE DEF at, g
    <3>3. g = Mapped(f, row, last)
      BY ONLY <3>1
    <3> HIDE DEF f
    <3>4. /\ g \in Mappings /\ DOMAIN g = DOMAIN f \cup {row} /\ g[row] = last
          /\ \A x \in DOMAIN f : x # row => g[x] = f[x]
      BY ONLY <1>0, <3>3, row \in Nat, last \in Nat, MappedIs, ZenonT(60)
    <3> QED
      BY <2>4, <3>2, <3>4
  <2> QED
    BY <2>2, <2>3, <2>4
<1> HIDE DEF m, g, new, old, ins, del, left
<1>5. c \in Builders
  BY <1>1, <1>3, <1>4, <1>m DEF Builders
<1>6. /\ c.modifications = m /\ c.moves = b.moves /\ c.mapping = g
      /\ c.insertions = new /\ c.deletions = old
  BY <1>1 DEF Builders
<1> HIDE DEF c
<1>7. Ins(c) = (Ins(b) \ {last}) \cup {row} /\ Del(c) = Del(b) \cup ({row, last} \ Ins(b))
  BY ONLY <1>3, <1>6 DEF Ins, Del
<1>8. DOMAIN c.mapping \subseteq Ins(c)
  BY <1>4, <1>6, <1>7, <1>a
<1>9. Origins(c, Del(c))
  <2> SUFFICES ASSUME NEW x \in DOMAIN g
               PROVE  g[x] \in Del(c)
    BY <1>6 DEF Origins
  <2>1. \A y \in DOMAIN f : f[y] \in Del(b) \cup ({row} \ Ins(b))
    BY DEF Origins
  <2>2. x # row => x \in DOMAIN f /\ g[x] = f[x]
    BY <1>4
  <2>3. x = row => (moved \/ ~lastIn) /\ g[x] = IF moved THEN f[last] ELSE last
    BY <1>4
  <2>4. x = row => g[x] \in Del(c)
    BY <1>i, <1>7, <2>1, <2>3
  <2> QED
    BY <1>7, <2>1, <2>2, <2>4
<1>10. ASSUME NEW x \in 0 .. last - 1
       PROVE  Orig(c, x) = Orig(b, IF x = row THEN last ELSE x)
  <2>1. CASE x = row
    <3>1. x \in Ins(c) /\ (x \in DOMAIN g <=> moved \/ ~lastIn)
      BY <1>4, <1>7, <2>1
    <3>2. x \in DOMAIN g => g[x] = IF moved THEN f[last] ELSE last
      BY <1>4, <2>1
    <3>3. moved <=> last \in DOMAIN f
      BY <1>i, <1>a
    <3> QED
      BY <1>i, <1>6, <2>1, <3>1, <3>2, <3>3 DEF Orig
  <2>2. CASE x # row
    <3>1. x # last
      OBVIOUS
    <3>2. (x \in DOMAIN g <=> x \in DOMAIN f) /\ (x \in DOMAIN g => g[x] = f[x])
      BY <1>4, <2>2, <3>1
    <3>3. x \in Ins(c) <=> x \in Ins(b)
      BY <1>7, <2>2, <3>1
    <3> QED
      BY <1>6, <2>2, <3>2, <3>3 DEF Orig
  <2> QED
    BY <2>1, <2>2
<1>11. row \in 0 .. last - 1
  OBVIOUS
<1>12. Orig(c, row) = Orig(b, last) /\ \A x \in 0 .. last - 1 : x # row => Orig(c, x) = Orig(b, x)
  BY <1>10, <1>11
<1> QED
  BY <1>5, <1>6, <1>7, <1>8, <1>9, <1>12 DEF c, m, Over

\* A move over of the last row, which only goes.
LEMMA MovedOff ==
    ASSUME NEW b \in Builders, NEW last \in Nat, InTable(b, last),
           Origins(b, Del(b) \cup ({last} \ Ins(b)))
    PROVE  LET c == MoveOver(b, last, last, TRUE)
           IN  /\ c \in Builders
               /\ c.modifications = ModsOver(b, last, last) /\ c.moves = b.moves
               /\ Ins(c) = Ins(b) \ {last}
               /\ Del(c) = Del(b) \cup ({last} \ Ins(b))
               /\ DOMAIN c.mapping \subseteq Ins(c)
               /\ Origins(c, Del(c))
               /\ \A x \in 0 .. last - 1 : Orig(c, x) = Orig(b, x)
<1> DEFINE m == ModsOver(b, last, last)
           f == b.mapping
           g == Without(f, {last})
           out == EraseOrUnshift(b.insertions, last)
           old == IF out.index = NPos THEN b.deletions ELSE AddShifted(b.deletions, out.index).set
           new == out.set
           c == MoveOver(b, last, last, TRUE)
<1>0. /\ b.deletions \in Ranges /\ b.insertions \in Ranges /\ f \in Mappings
      /\ DOMAIN f \subseteq Nat /\ \A x \in DOMAIN f : f[x] \in Nat
      /\ Del(b) \subseteq Nat /\ Ins(b) \subseteq Nat
      /\ Del(b) = Members(b.deletions) /\ Ins(b) = Members(b.insertions)
  BY BuilderIs DEF Del, Ins
<1>a. /\ DOMAIN f \subseteq Ins(b) /\ Ins(b) \subseteq 0 .. last
      /\ last \notin Ins(b) =>
           last \notin Del(b) /\ \A x \in 0 .. last - 1 : x \in Ins(b) <=> x \in Del(b)
  BY DEF InTable
<1>i. InSet(b.insertions, last) <=> last \in Ins(b)
  BY <1>0, InSetMeans
<1>m. m \in Ranges
  BY ModsOverIs
<1>1. c = [[b EXCEPT !.modifications = m] EXCEPT !.insertions = new, !.deletions = old, !.mapping = g]
  <2> DEFINE b1 == [b EXCEPT !.modifications =
                      IF last # last /\ InSet(b.modifications, last)
                      THEN AddIndex(RemoveIndex(@, last), last)
                      ELSE RemoveIndex(b.modifications, last)]
  <2>1. b1 = [b EXCEPT !.modifications = m]
    BY DEF ModsOver
  <2>2. c = [b1 EXCEPT !.insertions = out.set,
                       !.deletions = IF out.index = NPos THEN @ ELSE AddShifted(@, out.index).set,
                       !.mapping = Without(@, {last})]
    BY ONLY Zenon DEF MoveOver
  <2>3. b1.deletions = b.deletions /\ b1.mapping = f
    BY <2>1 DEF Builders
  <2> HIDE DEF b1, out
  <2> QED
    BY ONLY <2>1, <2>2, <2>3
<1>2. new \in Ranges /\ Members(new) = Ins(b) \ {last}
  <2>1. new = EraseIndex(b.insertions, last)
    BY DEF EraseOrUnshift
  <2> HIDE DEF new
  <2>2. /\ new \in Ranges
        /\ \A z \in Nat : z \in Members(new) <=>
             (z < last /\ z \in Ins(b)) \/ (last <= z /\ z + 1 \in Ins(b))
    BY <1>0, <2>1, EraseIndexIs
  <2>3. Members(new) \subseteq Nat
    BY <2>2, InMembers
  <2>4. \A z \in Nat : z \in Members(new) <=> z \in Ins(b) \ {last}
    BY <1>a, <2>2
  <2> QED
    BY <1>0, <2>2, <2>3, <2>4
<1>3. old \in Ranges /\ Members(old) = Del(b) \cup ({last} \ Ins(b))
  <2>1. CASE last \in Ins(b)
    <3>1. out.index = NPos
      BY <1>i, <2>1 DEF EraseOrUnshift
    <3> HIDE DEF out
    <3> QED
      BY <1>0, <2>1, <3>1
  <2>2. CASE last \notin Ins(b)
    <3> DEFINE at == UnshiftIndex(b.insertions, last)
    <3>1. out.index = at
      BY <1>i, <2>2 DEF EraseOrUnshift
    <3>2. at \in Nat /\ at # NPos
      <4>1. at \in Nat
        BY <1>0, UnshiftIs
      <4> HIDE DEF at
      <4> QED
        BY <4>1 DEF NPos
    <3>3. AddShifted(b.deletions, at).set \in Ranges
          /\ Members(AddShifted(b.deletions, at).set) = Del(b) \cup {last}
      BY <1>0, <1>a, <2>2, AddedInPlace
    <3> HIDE DEF out, at
    <3>4. old = AddShifted(b.deletions, at).set
      BY <3>1, <3>2
    <3> HIDE DEF old
    <3> QED
      BY <2>2, <3>3, <3>4
  <2> QED
    BY <2>1, <2>2
<1>4. g \in Mappings /\ DOMAIN g = DOMAIN f \ {last} /\ \A x \in DOMAIN f \ {last} : g[x] = f[x]
  BY <1>0, WithoutIs
<1> HIDE DEF m, g, new, old, out
<1>5. c \in Builders
  BY <1>1, <1>2, <1>3, <1>4, <1>m DEF Builders
<1>6. /\ c.modifications = m /\ c.moves = b.moves /\ c.mapping = g
      /\ c.insertions = new /\ c.deletions = old
  BY <1>1 DEF Builders
<1> HIDE DEF c
<1>7. Ins(c) = Ins(b) \ {last} /\ Del(c) = Del(b) \cup ({last} \ Ins(b))
  BY ONLY <1>2, <1>3, <1>6 DEF Ins, Del
<1>8. DOMAIN c.mapping \subseteq Ins(c)
  BY <1>4, <1>6, <1>7, <1>a
<1>9. Origins(c, Del(c))
  BY <1>4, <1>6, <1>7 DEF Origins
<1>10. ASSUME NEW x \in 0 .. last - 1
       PROVE  Orig(c, x) = Orig(b, x)
  <2>1. x # last
    OBVIOUS
  <2>2. (x \in DOMAIN g <=> x \in DOMAIN f) /\ (x \in DOMAIN g => g[x] = f[x])
    BY <1>4, <2>1
  <2>3. x \in Ins(c) <=> x \in Ins(b)
    BY <1>7, <2>1
  <2> QED
    BY <1>6, <2>2, <2>3 DEF Orig
<1> QED
  BY <1>5, <1>6, <1>7, <1>8, <1>9, <1>10 DEF c, m

\* move_over, untracked.
LEMMA MovedUntracked ==
    ASSUME NEW b \in Builders, NEW row \in Nat, NEW last \in Nat
    PROVE  LET c == MoveOver(b, row, last, FALSE)
           IN  /\ c \in Builders /\ c.modifications = ModsOver(b, row, last)
               /\ c.insertions = b.insertions /\ c.deletions = b.deletions
               /\ c.moves = b.moves /\ c.mapping = b.mapping
<1> DEFINE m == ModsOver(b, row, last)
           c == MoveOver(b, row, last, FALSE)
           b1 == [b EXCEPT !.modifications =
                    IF row # last /\ InSet(b.modifications, last)
                    THEN AddIndex(RemoveIndex(@, last), row)
                    ELSE RemoveIndex(b.modifications, row)]
<1>m. m \in Ranges
  BY ModsOverIs
<1>1. b1 = [b EXCEPT !.modifications = m]
  BY DEF ModsOver
<1>2. c = b1
  BY ONLY Zenon DEF MoveOver
<1> HIDE DEF b1, m
<1> QED
  BY <1>1, <1>2, <1>m DEF Builders, m

\* The new row takes the number and the modifications of the old one.
Subsumed(b, c, last, old, new) ==
    /\ c \in Builders /\ c.moves = b.moves
    /\ \A y : y \in Mod(c) <=> y \in Mod(b) \/ (y = new /\ old \in Mod(b))
    /\ Ins(c) = Ins(b) /\ Del(c) = Del(b)
    /\ DOMAIN c.mapping \subseteq Ins(c)
    /\ Origins(c, Del(c) \cup ({old} \ Ins(c)))
    /\ Orig(c, new) = Orig(b, old)
    /\ \A x \in 0 .. last : x # old /\ x # new => Orig(c, x) = Orig(b, x)

\* subsume of a row by a new one.
LEMMA SubsumeIs ==
    ASSUME NEW b \in Builders, NEW last \in Nat, NEW old \in 0 .. last, NEW new \in 0 .. last,
           old # new, InTable(b, last), new \in Ins(b), new \notin DOMAIN b.mapping, Origins(b, Del(b))
    PROVE  Subsumed(b, Subsume(b, old, new, TRUE), last, old, new)
<1> DEFINE f == b.mapping
           m == IF InSet(b.modifications, old) THEN AddIndex(b.modifications, new) ELSE b.modifications
           from == ShiftIndex(b.deletions, UnshiftIndex(b.insertions, old))
           g == CASE old \in DOMAIN f -> Mapped(Without(f, {old}), new, f[old])
                  [] old \notin DOMAIN f /\ ~InSet(b.insertions, old) -> Mapped(f, new, from)
                  [] OTHER -> f
           c == Subsume(b, old, new, TRUE)
<1>0. /\ b.deletions \in Ranges /\ b.insertions \in Ranges /\ f \in Mappings /\ b.modifications \in Ranges
      /\ DOMAIN f \subseteq Nat /\ \A x \in DOMAIN f : f[x] \in Nat
      /\ Del(b) \subseteq Nat /\ Ins(b) \subseteq Nat
      /\ Del(b) = Members(b.deletions) /\ Ins(b) = Members(b.insertions) /\ Mod(b) = Members(b.modifications)
  BY BuilderIs DEF Del, Ins, Mod
<1>n. old \in Nat /\ new \in Nat
  OBVIOUS
<1>a. /\ DOMAIN f \subseteq Ins(b)
      /\ old \notin Ins(b) =>
           old \notin Del(b) /\ \A x \in 0 .. old - 1 : x \in Ins(b) <=> x \in Del(b)
  BY DEF InTable
<1>i. (InSet(b.insertions, old) <=> old \in Ins(b)) /\ (InSet(b.modifications, old) <=> old \in Mod(b))
  BY <1>0, <1>n, InSetMeans
<1>1. m \in Ranges /\ Members(m) = Mod(b) \cup (IF old \in Mod(b) THEN {new} ELSE {})
  <2>1. AddIndex(b.modifications, new) \in Ranges
        /\ Members(AddIndex(b.modifications, new)) = Mod(b) \cup {new}
    BY <1>0, <1>n, AddIndexIs
  <2> QED
    BY <1>0, <1>i, <2>1
<1>2. old \notin Ins(b) => from = old
  BY <1>0, <1>n, <1>a, SamePlace
<1>3. /\ g \in Mappings
      /\ DOMAIN g = (DOMAIN f \ {old}) \cup (IF old \in DOMAIN f \/ old \notin Ins(b) THEN {new} ELSE {})
      /\ \A x \in DOMAIN g : x # new => g[x] = f[x]
      /\ new \in DOMAIN g => g[new] = IF old \in DOMAIN f THEN f[old] ELSE old
  <2>1. CASE old \in DOMAIN f
    <3> DEFINE h == Without(f, {old})
               at == f[old]
    <3>1. h \in Mappings /\ DOMAIN h = DOMAIN f \ {old} /\ \A x \in DOMAIN f \ {old} : h[x] = f[x]
      BY <1>0, WithoutIs
    <3>2. at \in Nat
      BY <1>0, <2>1
    <3>3. g = Mapped(h, new, at)
      BY <2>1
    <3> HIDE DEF h, at, g
    <3>5. h \in Mappings /\ new \in Nat
      BY <1>n, <3>1
    <3>4. /\ g \in Mappings /\ DOMAIN g = DOMAIN h \cup {new} /\ g[new] = at
          /\ \A x \in DOMAIN h : x # new => g[x] = h[x]
      BY ONLY <3>5, <3>2, <3>3, MappedIs, ZenonT(60)
    <3> QED
      BY <2>1, <3>1, <3>4 DEF at
  <2>2. CASE old \notin DOMAIN f /\ old \notin Ins(b)
    <3>1. g = Mapped(f, new, from)
      BY <1>i, <2>2
    <3> HIDE DEF g, from
    <3>3. g = Mapped(f, new, old)
      BY <1>2, <2>2, <3>1
    <3>4. f \in Mappings /\ new \in Nat /\ old \in Nat
      BY <1>0, <1>n
    <3> HIDE DEF f
    <3>5. /\ g \in Mappings /\ DOMAIN g = DOMAIN f \cup {new} /\ g[new] = old
          /\ \A x \in DOMAIN f : x # new => g[x] = f[x]
      BY ONLY <3>3, <3>4, MappedIs
    <3> QED
      BY <2>2, <3>5
  <2>3. CASE old \notin DOMAIN f /\ old \in Ins(b)
    <3>1. g = f
      BY <1>i, <2>3
    <3> HIDE DEF g
    <3>2. new \notin DOMAIN f
      OBVIOUS
    <3> QED
      BY <1>0, <2>3, <3>1, <3>2
  <2> QED
    BY <2>1, <2>2, <2>3
<1>4. c = [[b EXCEPT !.modifications = m] EXCEPT !.mapping = g]
  <2> DEFINE b1 == [b EXCEPT !.modifications = IF InSet(@, old) THEN AddIndex(@, new) ELSE @]
  <2>1. b1 = [b EXCEPT !.modifications = m]
    OBVIOUS
  <2>b. b1.mapping = f
    BY DEF Builders
  <2>2. CASE old \in DOMAIN f
    <3>1. c = [b1 EXCEPT !.mapping = Mapped(Without(@, {old}), new, @[old])]
      BY ONLY <2>2, Zenon DEF Subsume
    <3>2. g = Mapped(Without(f, {old}), new, f[old])
      BY <2>2
    <3> HIDE DEF b1, g, c
    <3> QED
      BY ONLY <2>1, <2>b, <3>1, <3>2
  <2>3. CASE old \notin DOMAIN f /\ ~InSet(b.insertions, old)
    <3>1. c = [b1 EXCEPT !.mapping = Mapped(@, new, from)]
      BY ONLY <2>3, Zenon DEF Subsume
    <3>2. g = Mapped(f, new, from)
      BY <2>3
    <3> HIDE DEF b1, g, c
    <3> QED
      BY ONLY <2>1, <2>b, <3>1, <3>2
  <2>4. CASE old \notin DOMAIN f /\ InSet(b.insertions, old)
    <3>1. c = b1
      BY ONLY <2>4, Zenon DEF Subsume
    <3>2. g = f
      BY <2>4
    <3> HIDE DEF b1, g, c, m
    <3> QED
      BY ONLY <2>1, <2>b, <3>1, <3>2, b \in Builders DEF Builders
  <2> QED
    BY <2>2, <2>3, <2>4
<1> HIDE DEF m, g, from
<1>5. c \in Builders
  BY <1>1, <1>3, <1>4 DEF Builders
<1>6. /\ c.modifications = m /\ c.moves = b.moves /\ c.mapping = g
      /\ c.insertions = b.insertions /\ c.deletions = b.deletions
  BY <1>4 DEF Builders
<1> HIDE DEF c
<1>7. Ins(c) = Ins(b) /\ Del(c) = Del(b) /\ Mod(c) = Members(m)
  BY ONLY <1>6 DEF Ins, Del, Mod
<1>8. DOMAIN c.mapping \subseteq Ins(c)
  BY <1>3, <1>6, <1>7, <1>a
<1>9. Origins(c, Del(c) \cup ({old} \ Ins(c)))
  <2>1. \A x \in DOMAIN f : f[x] \in Del(b)
    BY DEF Origins
  <2> SUFFICES ASSUME NEW x \in DOMAIN g
               PROVE  g[x] \in Del(b) \cup ({old} \ Ins(b))
    BY <1>6, <1>7 DEF Origins
  <2>2. CASE x = new
    BY <1>3, <2>1, <2>2
  <2>3. CASE x # new
    BY <1>3, <2>1, <2>3
  <2> QED
    BY <2>2, <2>3
<1>10. Orig(c, new) = Orig(b, old)
  BY <1>3, <1>6, <1>7 DEF Orig
<1>11. ASSUME NEW x \in 0 .. last, x # old, x # new
       PROVE  Orig(c, x) = Orig(b, x)
  <2>1. (x \in DOMAIN g <=> x \in DOMAIN f) /\ (x \in DOMAIN g => g[x] = f[x])
    BY <1>3, <1>11
  <2> QED
    BY <1>6, <1>7, <2>1 DEF Orig
<1>12. \A y : y \in Mod(c) <=> y \in Mod(b) \/ (y = new /\ old \in Mod(b))
  BY <1>1, <1>7
<1> QED
  BY <1>5, <1>6, <1>7, <1>8, <1>9, <1>10, <1>11, <1>12 DEF c, Subsumed

\* The number with which one of two rows changes places.
Swapped(z, row1, row2) == IF z = row1 THEN row2 ELSE IF z = row2 THEN row1 ELSE z

\* The modifications once two rows have changed places.
ModsSwapped(b, row1, row2) ==
    LET in1 == InSet(b.modifications, row1)
        x == IF in1 THEN row1 ELSE row2
    IN  IF in1 = InSet(b.modifications, row2) THEN b.modifications
        ELSE AddIndex(RemoveIndex(b.modifications, x), IF x = row1 THEN row2 ELSE row1)

\* They are those of the rows under their new numbers.
LEMMA ModsSwappedIs ==
    ASSUME NEW b \in Builders, NEW row1 \in Nat, NEW row2 \in Nat, row1 # row2
    PROVE  /\ ModsSwapped(b, row1, row2) \in Ranges
           /\ \A z \in Nat : z \in Members(ModsSwapped(b, row1, row2)) <=>
                Swapped(z, row1, row2) \in Mod(b)
<1> DEFINE m == b.modifications
           in1 == InSet(m, row1)
           in2 == InSet(m, row2)
           x == IF in1 THEN row1 ELSE row2
           y == IF x = row1 THEN row2 ELSE row1
           u == RemoveIndex(m, x)
<1>0. m \in Ranges /\ Mod(b) = Members(m)
  BY BuilderIs DEF Mod
<1>1. (in1 <=> row1 \in Mod(b)) /\ (in2 <=> row2 \in Mod(b)) /\ in1 \in BOOLEAN /\ in2 \in BOOLEAN
  <2>1. (in1 <=> row1 \in Mod(b)) /\ (in2 <=> row2 \in Mod(b))
    BY <1>0, InSetMeans
  <2>2. in1 \in BOOLEAN /\ in2 \in BOOLEAN
    BY DEF InSet
  <2> QED
    BY <2>1, <2>2
<1>2. CASE in1 = in2
  <2>1. ModsSwapped(b, row1, row2) = m
    BY <1>2 DEF ModsSwapped
  <2>2. row1 \in Mod(b) <=> row2 \in Mod(b)
    BY <1>1, <1>2
  <2> QED
    BY <1>0, <2>1, <2>2 DEF Swapped
<1>3. CASE in1 # in2
  <2>1. ModsSwapped(b, row1, row2) = AddIndex(u, y)
    BY <1>3 DEF ModsSwapped
  <2>2. x \in Nat /\ y \in Nat
    OBVIOUS
  <2>3. x \in Mod(b) /\ y \notin Mod(b) /\ {x, y} = {row1, row2} /\ x # y
    BY <1>1, <1>3
  <2> HIDE DEF x, y
  <2>4. u \in Ranges /\ Members(u) = Mod(b) \ {x}
    BY <1>0, <2>2, RemoveIndexIs
  <2> HIDE DEF u, m
  <2>5. AddIndex(u, y) \in Ranges /\ Members(AddIndex(u, y)) = (Mod(b) \ {x}) \cup {y}
    BY <2>2, <2>4, AddIndexIs
  <2>6. ASSUME NEW z \in Nat
        PROVE  z \in (Mod(b) \ {x}) \cup {y} <=> Swapped(z, row1, row2) \in Mod(b)
    <3>1. CASE x = row1 /\ y = row2
      BY <2>3, <3>1 DEF Swapped
    <3>2. CASE x = row2 /\ y = row1
      BY <2>3, <3>2 DEF Swapped
    <3> QED
      BY <2>3, <3>1, <3>2
  <2> QED
    BY <2>1, <2>5, <2>6
<1> QED
  BY <1>2, <1>3

\* What a swap comes to, for the rows' numbers.
Swaps(b, c, last, row1, row2) ==
    /\ Ins(c) = Ins(b) \cup {row1, row2}
    /\ Del(c) = Del(b) \cup ({row1, row2} \ Ins(b))
    /\ DOMAIN c.mapping \subseteq Ins(c)
    /\ Origins(c, Del(c))
    /\ \A x \in 0 .. last : Orig(c, x) = Orig(b, Swapped(x, row1, row2))

\* Both rows have moved.
LEMMA SwapMoved ==
    ASSUME NEW b \in Builders, NEW last \in Nat, NEW row1 \in 0 .. last, NEW row2 \in 0 .. last,
           row1 # row2, InTable(b, last), Origins(b, Del(b)),
           row1 \in DOMAIN b.mapping, row2 \in DOMAIN b.mapping,
           NEW c \in Builders, c.insertions = b.insertions, c.deletions = b.deletions,
           c.mapping = [b.mapping EXCEPT ![row1] = b.mapping[row2], ![row2] = b.mapping[row1]]
    PROVE  Swaps(b, c, last, row1, row2)
<1> DEFINE f == b.mapping
           g == c.mapping
<1>1. f \in [DOMAIN f -> Nat] /\ DOMAIN f \subseteq Ins(b)
  BY BuilderIs DEF Mappings, InTable
<1>2. Ins(c) = Ins(b) /\ Del(c) = Del(b)
  BY DEF Ins, Del
<1>3. /\ DOMAIN g = DOMAIN f
      /\ \A x \in DOMAIN f : g[x] = f[Swapped(x, row1, row2)] /\ Swapped(x, row1, row2) \in DOMAIN f
  <2>1. DOMAIN g = DOMAIN f
    BY <1>1
  <2> SUFFICES ASSUME NEW x \in DOMAIN f
               PROVE  g[x] = f[Swapped(x, row1, row2)] /\ Swapped(x, row1, row2) \in DOMAIN f
    BY <2>1
  <2> QED
    BY <1>1 DEF Swapped
<1> HIDE DEF f, g
<1>4. row1 \in Ins(b) /\ row2 \in Ins(b)
  BY <1>1 DEF f
<1>5. Origins(c, Del(c))
  BY <1>1, <1>2, <1>3 DEF Origins, f, g
<1>6. ASSUME NEW x \in 0 .. last
      PROVE  Orig(c, x) = Orig(b, Swapped(x, row1, row2))
  <2>1. CASE x \in DOMAIN f
    <3>1. Orig(c, x) = g[x]
      BY <1>3, <2>1 DEF Orig, f, g
    <3>2. Orig(b, Swapped(x, row1, row2)) = f[Swapped(x, row1, row2)]
      BY <1>3, <2>1 DEF Orig, f
    <3> QED
      BY <1>3, <2>1, <3>1, <3>2
  <2>2. CASE x \notin DOMAIN f
    <3>1. Swapped(x, row1, row2) = x
      BY <2>2 DEF Swapped, f
    <3>2. x \notin DOMAIN g
      BY <1>3, <2>2
    <3> QED
      BY <1>2, <2>2, <3>1, <3>2 DEF Orig, f, g
  <2> QED
    BY <2>1, <2>2
<1> QED
  BY <1>1, <1>2, <1>3, <1>4, <1>5, <1>6 DEF Swaps, f, g

\* One of them has.
LEMMA SwapOne ==
    ASSUME NEW b \in Builders, NEW last \in Nat, NEW mover \in 0 .. last, NEW other \in 0 .. last,
           mover # other, InTable(b, last), Origins(b, Del(b)),
           mover \in DOMAIN b.mapping, other \notin DOMAIN b.mapping,
           NEW b2 \in Builders, b2.insertions = b.insertions, b2.deletions = b.deletions,
           b2.mapping = Mapped(Without(b.mapping, {mover}), other, b.mapping[mover])
    PROVE  LET c == Displace(b2, other, mover)
           IN  /\ c \in Builders /\ c.modifications = b2.modifications /\ c.moves = b2.moves
               /\ Swaps(b, c, last, mover, other)
<1> DEFINE f == b.mapping
           h == Without(f, {mover})
           at == f[mover]
           g == b2.mapping
           c == Displace(b2, other, mover)
<1>n. mover \in Nat /\ other \in Nat
  OBVIOUS
<1>0. f \in Mappings /\ at \in Nat
  BY BuilderIs
<1>a. /\ DOMAIN f \subseteq Ins(b)
      /\ other \notin Ins(b) =>
           other \notin Del(b) /\ \A x \in 0 .. other - 1 : x \in Ins(b) <=> x \in Del(b)
  BY DEF InTable
<1>b. \A x \in DOMAIN f : f[x] \in Del(b)
  BY DEF Origins
<1>1. h \in Mappings /\ DOMAIN h = DOMAIN f \ {mover} /\ \A x \in DOMAIN f \ {mover} : h[x] = f[x]
  BY <1>0, WithoutIs
<1>h. g = Mapped(h, other, at)
  OBVIOUS
<1>m. mover \in DOMAIN f /\ other \notin DOMAIN f
  OBVIOUS
<1> HIDE DEF g, h, at
<1>2. /\ g \in Mappings /\ DOMAIN g = (DOMAIN f \ {mover}) \cup {other} /\ g[other] = at
      /\ \A x \in DOMAIN f \ {mover} : x # other => g[x] = f[x]
  <2>1. h \in Mappings /\ other \in Nat /\ at \in Nat
    BY <1>0, <1>1
  <2>2. /\ g \in Mappings /\ DOMAIN g = DOMAIN h \cup {other} /\ g[other] = at
        /\ \A x \in DOMAIN h : x # other => g[x] = h[x]
    BY ONLY <1>h, <2>1, MappedIs, ZenonT(60)
  <2> QED
    BY <1>1, <2>2
<1>3. Ins(b2) = Ins(b) /\ Del(b2) = Del(b)
  BY DEF Ins, Del
<1>4. /\ other \in Ins(b) => c = b2
      /\ other \notin Ins(b) =>
           /\ c \in Builders /\ c.modifications = b2.modifications /\ c.moves = b2.moves
           /\ Ins(c) = Ins(b) \cup {other} /\ Del(c) = Del(b) \cup {other}
           /\ c.mapping = Mapped(g, mover, other)
  BY <1>3, <1>a, <1>n, DisplaceIs DEF g
<1> DEFINE e == c.mapping
<1>5. /\ DOMAIN e = (DOMAIN f \ {mover}) \cup {other} \cup (IF other \in Ins(b) THEN {} ELSE {mover})
      /\ e[other] = at /\ (other \notin Ins(b) => e[mover] = other)
      /\ \A x \in DOMAIN f : x # mover /\ x # other => e[x] = f[x]
  <2>1. CASE other \in Ins(b)
    <3>1. e = g
      BY <1>4, <2>1 DEF g
    <3> HIDE DEF e
    <3> QED
      BY <1>2, <2>1, <3>1
  <2>2. CASE other \notin Ins(b)
    <3>1. e = Mapped(g, mover, other) /\ g \in Mappings
      BY <1>2, <1>4, <2>2
    <3> HIDE DEF e
    <3>2. /\ DOMAIN e = DOMAIN g \cup {mover} /\ e[mover] = other
          /\ \A x \in DOMAIN g : x # mover => e[x] = g[x]
      BY ONLY <1>n, <3>1, MappedIs, ZenonT(60)
    <3> QED
      BY <1>2, <2>2, <3>2
  <2> QED
    BY <2>1, <2>2
<1>6. /\ c \in Builders /\ c.modifications = b2.modifications /\ c.moves = b2.moves
      /\ Ins(c) = Ins(b) \cup {mover, other} /\ Del(c) = Del(b) \cup ({mover, other} \ Ins(b))
  <2>1. mover \in Ins(b)
    BY <1>a
  <2>2. CASE other \in Ins(b)
    BY <1>3, <1>4, <2>1, <2>2
  <2>3. CASE other \notin Ins(b)
    BY <1>4, <2>1, <2>3
  <2> QED
    BY <2>2, <2>3
<1> HIDE DEF e, c
<1>7. DOMAIN e \subseteq Ins(c)
  BY <1>5, <1>6, <1>a
<1>8. Origins(c, Del(c))
  <2> SUFFICES ASSUME NEW x \in DOMAIN e
               PROVE  e[x] \in Del(c)
    BY DEF Origins, e
  <2>1. at \in Del(b)
    BY <1>b, <1>m DEF at
  <2>2. CASE x = other
    BY <1>5, <1>6, <2>1, <2>2
  <2>3. CASE x = mover
    BY <1>5, <1>6, <1>m, <2>3
  <2>4. CASE x # other /\ x # mover
    <3>1. x \in DOMAIN f /\ e[x] = f[x]
      BY <1>5, <2>4
    <3> QED
      BY <1>6, <1>b, <3>1
  <2> QED
    BY <2>2, <2>3, <2>4
<1>9. ASSUME NEW x \in 0 .. last
      PROVE  Orig(c, x) = Orig(b, Swapped(x, mover, other))
  <2>1. CASE x = other
    <3>1. Swapped(x, mover, other) = mover
      BY <2>1 DEF Swapped
    <3>2. Orig(c, x) = at
      BY <1>5, <2>1 DEF Orig, e
    <3> QED
      BY <1>m, <3>1, <3>2 DEF Orig, at
  <2>2. CASE x = mover
    <3>1. Swapped(x, mover, other) = other
      BY <2>2 DEF Swapped
    <3>2. Orig(b, other) = IF other \in Ins(b) THEN NPos ELSE other
      BY <1>m DEF Orig
    <3>3. CASE other \in Ins(b)
      <4>1. mover \notin DOMAIN e /\ mover \in Ins(c)
        BY <1>5, <1>6, <3>3
      <4> QED
        BY <2>2, <3>1, <3>2, <3>3, <4>1 DEF Orig, e
    <3>4. CASE other \notin Ins(b)
      <4>1. mover \in DOMAIN e /\ e[mover] = other
        BY <1>5, <3>4
      <4> QED
        BY <2>2, <3>1, <3>2, <3>4, <4>1 DEF Orig, e
    <3> QED
      BY <3>3, <3>4
  <2>3. CASE x # other /\ x # mover
    <3>1. Swapped(x, mover, other) = x
      BY <2>3 DEF Swapped
    <3>2. (x \in DOMAIN e <=> x \in DOMAIN f) /\ (x \in DOMAIN f => e[x] = f[x])
      BY <1>5, <2>3
    <3>3. x \in Ins(c) <=> x \in Ins(b)
      BY <1>6, <2>3
    <3> QED
      BY <3>1, <3>2, <3>3 DEF Orig, e
  <2> QED
    BY <2>1, <2>2, <2>3
<1> QED
  BY <1>6, <1>7, <1>8, <1>9 DEF Swaps, c, e

\* Neither has.
LEMMA SwapNone ==
    ASSUME NEW b \in Builders, NEW last \in Nat, NEW row1 \in 0 .. last, NEW row2 \in 0 .. last,
           row1 < row2, InTable(b, last), Origins(b, Del(b)),
           row1 \notin DOMAIN b.mapping, row2 \notin DOMAIN b.mapping,
           NEW b2 \in Builders, b2.insertions = b.insertions, b2.deletions = b.deletions,
           b2.mapping = b.mapping
    PROVE  LET c == Displace(Displace(b2, row2, row1), row1, row2)
           IN  /\ c \in Builders /\ c.modifications = b2.modifications /\ c.moves = b2.moves
               /\ Swaps(b, c, last, row1, row2)
<1> DEFINE f == b.mapping
           d == Displace(b2, row2, row1)
           c == Displace(d, row1, row2)
           g == d.mapping
           e == c.mapping
<1>n. row1 \in Nat /\ row2 \in Nat
  OBVIOUS
<1>0. f \in Mappings
  BY BuilderIs
<1>a. /\ DOMAIN f \subseteq Ins(b)
      /\ row1 \notin Ins(b) =>
           row1 \notin Del(b) /\ \A x \in 0 .. row1 - 1 : x \in Ins(b) <=> x \in Del(b)
      /\ row2 \notin Ins(b) =>
           row2 \notin Del(b) /\ \A x \in 0 .. row2 - 1 : x \in Ins(b) <=> x \in Del(b)
  BY DEF InTable
<1>b. \A x \in DOMAIN f : f[x] \in Del(b)
  BY DEF Origins
<1>3. Ins(b2) = Ins(b) /\ Del(b2) = Del(b)
  BY DEF Ins, Del
<1>f. b2.mapping = f /\ row1 \notin DOMAIN f /\ row2 \notin DOMAIN f
  OBVIOUS
<1> HIDE DEF f
<1>4. /\ row2 \in Ins(b) => d = b2
      /\ row2 \notin Ins(b) =>
           /\ d \in Builders /\ d.modifications = b2.modifications /\ d.moves = b2.moves
           /\ Ins(d) = Ins(b) \cup {row2} /\ Del(d) = Del(b) \cup {row2}
           /\ g = Mapped(f, row1, row2)
  BY <1>3, <1>a, <1>n, <1>f, DisplaceIs
<1> HIDE DEF c, d
<1>5. /\ d \in Builders /\ d.modifications = b2.modifications /\ d.moves = b2.moves
      /\ Ins(d) = Ins(b) \cup {row2}
      /\ Del(d) = Del(b) \cup ({row2} \ Ins(b))
      /\ g \in Mappings /\ DOMAIN g = DOMAIN f \cup (IF row2 \in Ins(b) THEN {} ELSE {row1})
      /\ row2 \notin Ins(b) => g[row1] = row2
      /\ \A x \in DOMAIN f : g[x] = f[x]
  <2>1. CASE row2 \in Ins(b)
    <3>1. d = b2 /\ g = f
      BY <1>4, <1>f, <2>1
    <3> HIDE DEF g
    <3>2. d \in Builders /\ d.modifications = b2.modifications /\ d.moves = b2.moves
          /\ Ins(d) = Ins(b) /\ Del(d) = Del(b)
      BY <1>3, <3>1
    <3> QED
      BY <1>0, <2>1, <3>1, <3>2
  <2>2. CASE row2 \notin Ins(b)
    <3>1. g = Mapped(f, row1, row2)
      BY <1>4, <2>2
    <3> HIDE DEF g
    <3>2. /\ g \in Mappings /\ DOMAIN g = DOMAIN f \cup {row1} /\ g[row1] = row2
          /\ \A x \in DOMAIN f : x # row1 => g[x] = f[x]
      BY ONLY <1>0, <1>n, <3>1, MappedIs
    <3>3. \A x \in DOMAIN f : g[x] = f[x]
      BY <1>f, <3>2
    <3> QED
      BY <1>4, <2>2, <3>2, <3>3
  <2> QED
    BY <2>1, <2>2
<1> HIDE DEF g
<1>6. row1 \notin Ins(d) =>
        row1 \notin Del(d) /\ \A x \in 0 .. row1 - 1 : x \in Ins(d) <=> x \in Del(d)
  <2> SUFFICES ASSUME row1 \notin Ins(d)
               PROVE  row1 \notin Del(d) /\ \A x \in 0 .. row1 - 1 : x \in Ins(d) <=> x \in Del(d)
    OBVIOUS
  <2>1. row1 \notin Ins(b)
    BY <1>5
  <2>2. \A x \in 0 .. row1 - 1 : x # row2
    BY <1>n
  <2> QED
    BY <1>5, <1>a, <2>1, <2>2
<1>i. row1 \in Ins(d) <=> row1 \in Ins(b)
  BY <1>5
<1>7. /\ row1 \in Ins(d) => c = d
      /\ row1 \notin Ins(d) =>
           /\ c \in Builders /\ c.modifications = d.modifications /\ c.moves = d.moves
           /\ Ins(c) = Ins(d) \cup {row1} /\ Del(c) = Del(d) \cup {row1}
           /\ e = Mapped(g, row2, row1)
  BY <1>5, <1>6, <1>n, DisplaceIs DEF c, g
<1>8. /\ c \in Builders /\ c.modifications = b2.modifications /\ c.moves = b2.moves
      /\ Ins(c) = Ins(b) \cup {row1, row2} /\ Del(c) = Del(b) \cup ({row1, row2} \ Ins(b))
      /\ DOMAIN e = DOMAIN f \cup (IF row2 \in Ins(b) THEN {} ELSE {row1})
                             \cup (IF row1 \in Ins(b) THEN {} ELSE {row2})
      /\ row2 \notin Ins(b) => e[row1] = row2
      /\ row1 \notin Ins(b) => e[row2] = row1
      /\ \A x \in DOMAIN f : e[x] = f[x]
  <2>1. CASE row1 \in Ins(b)
    <3>1. c = d /\ e = g
      BY <1>7, <1>i, <2>1 DEF g
    <3> HIDE DEF e
    <3> QED
      BY <1>5, <2>1, <3>1
  <2>2. CASE row1 \notin Ins(b)
    <3>1. e = Mapped(g, row2, row1) /\ g \in Mappings
      BY <1>5, <1>7, <1>i, <2>2
    <3> HIDE DEF e
    <3>2. /\ DOMAIN e = DOMAIN g \cup {row2} /\ e[row2] = row1
          /\ \A x \in DOMAIN g : x # row2 => e[x] = g[x]
      BY ONLY <1>n, <3>1, MappedIs, ZenonT(60)
    <3>3. row2 \notin Ins(b) => e[row1] = row2
      BY <1>5, <1>n, <3>2
    <3>4. \A x \in DOMAIN f : e[x] = f[x]
      BY <1>5, <1>f, <3>2
    <3>5. /\ c \in Builders /\ c.modifications = b2.modifications /\ c.moves = b2.moves
          /\ Ins(c) = Ins(b) \cup {row1, row2} /\ Del(c) = Del(b) \cup ({row1, row2} \ Ins(b))
      BY <1>5, <1>7, <1>i, <2>2
    <3>6. DOMAIN e = DOMAIN f \cup (IF row2 \in Ins(b) THEN {} ELSE {row1}) \cup {row2}
      BY <1>5, <3>2
    <3> QED
      BY <2>2, <3>2, <3>3, <3>4, <3>5, <3>6
  <2> QED
    BY <2>1, <2>2
<1> HIDE DEF e
<1>9. DOMAIN e \subseteq Ins(c)
  BY <1>8, <1>a
<1>10. Origins(c, Del(c))
  <2> SUFFICES ASSUME NEW x \in DOMAIN e
               PROVE  e[x] \in Del(c)
    BY DEF Origins, e
  <2>1. CASE x \in DOMAIN f
    BY <1>8, <1>b, <2>1
  <2>2. CASE x \notin DOMAIN f
    BY <1>8, <2>2
  <2> QED
    BY <2>1, <2>2
<1>11. ASSUME NEW x \in 0 .. last
       PROVE  Orig(c, x) = Orig(b, Swapped(x, row1, row2))
  <2>0. Orig(c, x) = IF x \in DOMAIN e THEN e[x] ELSE IF x \in Ins(c) THEN NPos ELSE x
    BY DEF Orig, e
  <2>f. \A z : Orig(b, z) = IF z \in DOMAIN f THEN f[z] ELSE IF z \in Ins(b) THEN NPos ELSE z
    BY DEF Orig, f
  <2>1. CASE x = row1
    <3>1. Swapped(x, row1, row2) = row2
      BY <2>1 DEF Swapped
    <3>2. Orig(b, row2) = IF row2 \in Ins(b) THEN NPos ELSE row2
      BY <2>f, <1>f
    <3>3. x \in DOMAIN e <=> row2 \notin Ins(b)
      BY <1>8, <1>f, <1>n, <2>1
    <3> QED
      BY <1>8, <2>0, <2>1, <3>1, <3>2, <3>3
  <2>2. CASE x = row2
    <3>1. Swapped(x, row1, row2) = row1
      BY <2>2, <1>n DEF Swapped
    <3>2. Orig(b, row1) = IF row1 \in Ins(b) THEN NPos ELSE row1
      BY <2>f, <1>f
    <3>3. x \in DOMAIN e <=> row1 \notin Ins(b)
      BY <1>8, <1>f, <1>n, <2>2
    <3> QED
      BY <1>8, <2>0, <2>2, <3>1, <3>2, <3>3
  <2>3. CASE x # row1 /\ x # row2
    <3>1. Swapped(x, row1, row2) = x
      BY <2>3 DEF Swapped
    <3>2. (x \in DOMAIN e <=> x \in DOMAIN f) /\ (x \in DOMAIN f => e[x] = f[x])
      BY <1>8, <2>3
    <3>3. x \in Ins(c) <=> x \in Ins(b)
      BY <1>8, <2>3
    <3> QED
      BY <2>0, <2>f, <3>1, <3>2, <3>3
  <2> QED
    BY <2>1, <2>2, <2>3
<1> QED
  BY <1>8, <1>9, <1>10, <1>11 DEF Swaps, c, d, e

\* A swap of two rows of a table.
LEMMA SwapRowsIs ==
    ASSUME NEW b \in Builders, NEW last \in Nat, NEW row1 \in 0 .. last, NEW row2 \in 0 .. last,
           row1 < row2, InTable(b, last), Origins(b, Del(b))
    PROVE  LET c == SwapRows(b, row1, row2, TRUE)
           IN  /\ c \in Builders /\ c.modifications = ModsSwapped(b, row1, row2) /\ c.moves = b.moves
               /\ Swaps(b, c, last, row1, row2)
<1> DEFINE m == ModsSwapped(b, row1, row2)
           f == b.mapping
           D == DOMAIN f
           moves == {row1, row2} \cap D
           b1 == [b EXCEPT !.modifications = m]
           mover == CHOOSE x \in moves : TRUE
           other == IF mover = row1 THEN row2 ELSE row1
           c == SwapRows(b, row1, row2, TRUE)
<1>n. row1 \in Nat /\ row2 \in Nat /\ row1 # row2
  OBVIOUS
<1>m. m \in Ranges
  BY <1>n, ModsSwappedIs
<1>0. f \in Mappings
  BY BuilderIs
<1> DEFINE in1 == InSet(b.modifications, row1)
           in2 == InSet(b.modifications, row2)
           Other(x) == IF x = row1 THEN row2 ELSE row1
           Exchanged(s, x) == AddIndex(RemoveIndex(s, x), Other(x))
           b0 == [b EXCEPT !.modifications =
                    IF in1 = in2 THEN @ ELSE Exchanged(@, IF in1 THEN row1 ELSE row2)]
<1>1. b0 = b1
  BY DEF ModsSwapped
<1>2. moves = {row1, row2} /\ Cardinality(moves) # 1 =>
        c = [b0 EXCEPT !.mapping = [@ EXCEPT ![row1] = b.mapping[row2], ![row2] = b.mapping[row1]]]
  <2> SUFFICES ASSUME moves = {row1, row2} /\ Cardinality(moves) # 1
               PROVE  c = [b0 EXCEPT !.mapping = [@ EXCEPT ![row1] = b.mapping[row2],
                                                           ![row2] = b.mapping[row1]]]
    OBVIOUS
  <2>1. moves = {row1, row2} /\ Cardinality(moves) # 1
    OBVIOUS
  <2> QED
    BY ONLY <2>1, Zenon DEF SwapRows
<1>3. moves # {row1, row2} /\ Cardinality(moves) = 1 =>
        c = Displace([b0 EXCEPT !.mapping = Mapped(Without(@, {mover}), Other(mover), @[mover])],
                     Other(mover), mover)
  <2> SUFFICES ASSUME moves # {row1, row2} /\ Cardinality(moves) = 1
               PROVE  c = Displace([b0 EXCEPT !.mapping = Mapped(Without(@, {mover}), Other(mover), @[mover])],
                                   Other(mover), mover)
    OBVIOUS
  <2>1. moves # {row1, row2} /\ Cardinality(moves) = 1
    OBVIOUS
  <2> QED
    BY ONLY <2>1, Zenon DEF SwapRows
<1>4. moves # {row1, row2} /\ Cardinality(moves) # 1 =>
        c = Displace(Displace(b0, row2, row1), row1, row2)
  <2> SUFFICES ASSUME moves # {row1, row2} /\ Cardinality(moves) # 1
               PROVE  c = Displace(Displace(b0, row2, row1), row1, row2)
    OBVIOUS
  <2>1. moves # {row1, row2} /\ Cardinality(moves) # 1
    OBVIOUS
  <2> QED
    BY ONLY <2>1, Zenon DEF SwapRows
<1> HIDE DEF c, b0
<1>b. /\ b1 \in Builders /\ b1.insertions = b.insertions /\ b1.deletions = b.deletions
      /\ b1.mapping = f /\ b1.modifications = m /\ b1.moves = b.moves
  <2> HIDE DEF m, f
  <2> QED
    BY <1>m DEF Builders, f
<1>5. CASE row1 \in D /\ row2 \in D
  <2>1. moves = {row1, row2}
    BY <1>5
  <2>2. Cardinality(moves) # 1
    <3> SUFFICES ASSUME Cardinality(moves) = 1
                 PROVE  FALSE
      OBVIOUS
    <3>1. IsFiniteSet({row1, row2})
      <4>1. {row1, row2} = {row1} \cup {row2}
        OBVIOUS
      <4>2. IsFiniteSet({row1}) /\ IsFiniteSet({row2})
        BY FS_Singleton
      <4> QED
        BY <4>1, <4>2, FS_Union
    <3>2. IsFiniteSet(moves)
      BY <2>1, <3>1
    <3>3. \E x \in moves : moves = {x}
      BY <3>2, FS_Singleton
    <3> QED
      BY <1>n, <2>1, <3>3
  <2> DEFINE g == [f EXCEPT ![row1] = f[row2], ![row2] = f[row1]]
  <2>3. c = [b1 EXCEPT !.mapping = g]
    <3>1. c = [b0 EXCEPT !.mapping = [@ EXCEPT ![row1] = b.mapping[row2], ![row2] = b.mapping[row1]]]
      BY <1>2, <2>1, <2>2
    <3>2. [b1 EXCEPT !.mapping = [@ EXCEPT ![row1] = b.mapping[row2], ![row2] = b.mapping[row1]]]
          = [b1 EXCEPT !.mapping = [b1.mapping EXCEPT ![row1] = b.mapping[row2], ![row2] = b.mapping[row1]]]
      OBVIOUS
    <3> HIDE DEF b1
    <3> QED
      BY <1>1, <1>b, <3>1, <3>2
  <2>4. g \in Mappings
    <3>1. f \in [D -> Nat] /\ D \in SUBSET Nat
      BY <1>0 DEF Mappings
    <3>2. g \in [D -> Nat]
      BY <1>5, <3>1
    <3> QED
      BY <3>1, <3>2 DEF Mappings
  <2> HIDE DEF g, b1, m
  <2>5. c \in Builders /\ c.insertions = b.insertions /\ c.deletions = b.deletions
        /\ c.mapping = g /\ c.modifications = m /\ c.moves = b.moves
    BY <1>b, <2>3, <2>4 DEF Builders
  <2>6. c.mapping = [b.mapping EXCEPT ![row1] = b.mapping[row2], ![row2] = b.mapping[row1]]
    BY <2>5 DEF g
  <2>7. Swaps(b, c, last, row1, row2)
    BY <1>5, <1>n, <2>5, <2>6, SwapMoved
  <2> QED
    BY <2>5, <2>7 DEF c, m
<1>6. ASSUME NEW x \in {row1, row2}, NEW y \in {row1, row2}, x # y, x \in D, y \notin D
      PROVE  /\ c \in Builders /\ c.modifications = m /\ c.moves = b.moves
             /\ Swaps(b, c, last, row1, row2)
  <2>1. moves = {x}
    BY <1>6
  <2>2. Cardinality(moves) = 1 /\ moves # {row1, row2}
    <3>1. Cardinality({x}) = 1
      BY FS_Singleton
    <3> QED
      BY <1>n, <2>1, <3>1
  <2>3. mover = x
    BY <2>1
  <2>4. Other(mover) = y
    BY <1>6, <1>n, <2>3
  <2> DEFINE b2 == [b1 EXCEPT !.mapping = Mapped(Without(f, {x}), y, f[x])]
  <2>5. c = Displace(b2, y, x)
    <3>1. c = Displace([b0 EXCEPT !.mapping = Mapped(Without(@, {mover}), Other(mover), @[mover])],
                       Other(mover), mover)
      BY ONLY <1>3, <2>2
    <3> DEFINE at == Other(mover)
    <3>2. c = Displace([b0 EXCEPT !.mapping = Mapped(Without(@, {mover}), at, @[mover])], at, mover)
      BY <3>1
    <3>3. at = y
      BY <2>4
    <3> HIDE DEF at, mover, b1, f
    <3>4. c = Displace([b1 EXCEPT !.mapping = Mapped(Without(@, {x}), y, @[x])], y, x)
      BY ONLY <1>1, <2>3, <3>2, <3>3
    <3>5. [b1 EXCEPT !.mapping = Mapped(Without(@, {x}), y, @[x])]
          = [b1 EXCEPT !.mapping = Mapped(Without(b1.mapping, {x}), y, b1.mapping[x])]
      OBVIOUS
    <3>6. b1.mapping = f
      BY <1>b
    <3> QED
      BY ONLY <3>4, <3>5, <3>6
  <2> DEFINE h == Without(f, {x})
             at == f[x]
             g == Mapped(h, y, at)
  <2>6. h \in Mappings
    BY <1>0, WithoutIs
  <2>7. y \in Nat /\ at \in Nat
    <3>1. f[x] \in Nat
      BY <1>6, BuilderIs
    <3> QED
      BY <1>n, <3>1
  <2>8. g \in Mappings
    <3> HIDE DEF h, at
    <3> QED
      BY <2>6, <2>7, MappedIs
  <2>9. b2 = [b1 EXCEPT !.mapping = g]
    OBVIOUS
  <2> HIDE DEF g, b1, b2, m, f
  <2>10. /\ b2 \in Builders /\ b2.insertions = b.insertions /\ b2.deletions = b.deletions
         /\ b2.modifications = m /\ b2.moves = b.moves /\ b2.mapping = g
    BY <1>b, <2>8, <2>9 DEF Builders
  <2>11. b2.mapping = Mapped(Without(b.mapping, {x}), y, b.mapping[x])
    BY <2>10 DEF g, f
  <2>12. x \in 0 .. last /\ y \in 0 .. last /\ x # y
    BY <1>6
  <2>13. LET e == Displace(b2, y, x)
         IN  /\ e \in Builders /\ e.modifications = b2.modifications /\ e.moves = b2.moves
             /\ Swaps(b, e, last, x, y)
    BY <1>6, <2>10, <2>11, <2>12, SwapOne DEF f
  <2>14. /\ c \in Builders /\ c.modifications = m /\ c.moves = b.moves
         /\ Swaps(b, c, last, x, y)
    BY <2>5, <2>10, <2>13
  <2>15. CASE x = row1 /\ y = row2
    BY <2>14, <2>15
  <2>16. CASE x = row2 /\ y = row1
    <3>1. \A z : Swapped(z, x, y) = Swapped(z, row1, row2)
      BY <1>n, <2>16 DEF Swapped
    <3> QED
      BY <2>14, <2>16, <3>1 DEF Swaps
  <2> QED
    BY <1>6, <2>15, <2>16
<1>7. CASE row1 \notin D /\ row2 \notin D
  <2>1. moves = {} /\ Cardinality(moves) # 1 /\ moves # {row1, row2}
    <3>1. moves = {}
      BY <1>7
    <3> QED
      BY <3>1, FS_EmptySet
  <2>2. c = Displace(Displace(b1, row2, row1), row1, row2)
    BY <1>1, <1>4, <2>1
  <2> HIDE DEF b1, m
  <2>3. LET e == Displace(Displace(b1, row2, row1), row1, row2)
        IN  /\ e \in Builders /\ e.modifications = b1.modifications /\ e.moves = b1.moves
            /\ Swaps(b, e, last, row1, row2)
    BY <1>7, <1>b, SwapNone
  <2> QED
    BY <1>b, <2>2, <2>3 DEF c, m
<1>8. CASE row1 \in D /\ row2 \notin D
  BY <1>6, <1>8, <1>n DEF c
<1>9. CASE row1 \notin D /\ row2 \in D
  BY <1>6, <1>9, <1>n DEF c
<1> QED
  BY <1>5, <1>7, <1>8, <1>9

-----------------------------------------------------------------------------
(* The operations of a list, for the positions that are not reported.      *)

\* Row e is put into s at position i, and the row at i taken out.
PutInAt(s, t, i, e) ==
    /\ t \in Seq(Nat) /\ Len(t) = Len(s) + 1
    /\ \A y \in 0 .. Len(s) : t[y + 1] = IF y < i THEN s[y + 1] ELSE IF y = i THEN e ELSE s[y]
TakenOutAt(s, t, i) ==
    /\ t \in Seq(Nat) /\ Len(t) = Len(s) - 1
    /\ \A y \in 0 .. Len(s) - 2 : t[y + 1] = IF y < i THEN s[y + 1] ELSE s[y + 2]

\* InsertAt and RemoveAt do so.
LEMMA RowInserted ==
    ASSUME NEW s \in Seq(Nat), NEW i \in 0 .. Len(s), NEW e \in Nat, NEW p, p = i + 1
    PROVE  PutInAt(s, InsertAt(s, p, e), i, e)
<1> DEFINE t == InsertAt(s, p, e)
           n == Len(s)
           S == Nat
<1>0. n \in Nat /\ i \in Nat /\ i <= n
  OBVIOUS
<1>1. s \in Seq(S) /\ e \in S /\ p \in 1 .. Len(s) + 1
  BY <1>0
<1> HIDE DEF S
<1>2. /\ t \in Seq(S) /\ Len(t) = n + 1
      /\ \A k \in 1 .. n + 1 : t[k] = IF k < p THEN s[k] ELSE IF k = p THEN e ELSE s[k - 1]
  BY ONLY <1>1, InsertAtIs
<1> HIDE DEF t, n
<1>3. ASSUME NEW y \in 0 .. n
      PROVE  t[y + 1] = IF y < i THEN s[y + 1] ELSE IF y = i THEN e ELSE s[y]
  <2>1. y + 1 \in 1 .. n + 1 /\ y \in Nat
    BY <1>0
  <2>2. t[y + 1] = IF y + 1 < p THEN s[y + 1] ELSE IF y + 1 = p THEN e ELSE s[(y + 1) - 1]
    BY <1>2, <2>1
  <2>3. (y + 1) - 1 = y /\ (y + 1 < p <=> y < i) /\ (y + 1 = p <=> y = i)
    BY <1>0, <2>1
  <2> QED
    BY <2>2, <2>3
<1> QED
  BY <1>2, <1>3 DEF t, n, S, PutInAt

\* RemoveAt takes the row out.
LEMMA RowRemoved ==
    ASSUME NEW s \in Seq(Nat), NEW i \in 0 .. Len(s) - 1, NEW p, p = i + 1
    PROVE  TakenOutAt(s, RemoveAt(s, p), i)
<1> DEFINE t == RemoveAt(s, p)
           n == Len(s)
           S == Nat
<1>0. n \in Nat /\ i \in Nat /\ i < n
  OBVIOUS
<1>1. s \in Seq(S) /\ p \in 1 .. Len(s)
  BY <1>0
<1> HIDE DEF S
<1>2. /\ t \in Seq(S) /\ Len(t) = n - 1
      /\ \A k \in 1 .. n - 1 : t[k] = IF k < p THEN s[k] ELSE s[k + 1]
  BY ONLY <1>1, RemoveAtIs
<1> HIDE DEF t, n
<1>3. ASSUME NEW y \in 0 .. n - 2
      PROVE  t[y + 1] = IF y < i THEN s[y + 1] ELSE s[y + 2]
  <2>1. y + 1 \in 1 .. n - 1 /\ y \in Nat
    BY <1>0
  <2>2. t[y + 1] = IF y + 1 < p THEN s[y + 1] ELSE s[(y + 1) + 1]
    BY <1>2, <2>1
  <2>3. (y + 1) + 1 = y + 2 /\ (y + 1 < p <=> y < i)
    BY <1>0, <2>1
  <2> QED
    BY <2>2, <2>3
<1> QED
  BY <1>2, <1>3 DEF t, n, S, TakenOutAt

(* Beyond the set every position counts.                                   *)
LEMMA RankBeyond ==
    ASSUME NEW n \in Nat, NEW S, S \subseteq 0 .. n - 1, NEW x \in Nat, n <= x
    PROVE  Rank(S, x) = Rank(S, n) + (x - n)
<1> DEFINE R(k) == Rank(S, k)
           T == {k \in Nat : R(n + k) = R(n) + k}
<1>0. /\ \A k \in Nat : R(k) \in Nat
      /\ \A k \in Nat : R(k + 1) = IF k \in S THEN R(k) ELSE R(k) + 1
  BY RankSteps
<1> HIDE DEF R
<1>1. 0 \in T
  BY <1>0
<1>2. ASSUME NEW k \in 0 .. (x - n) - 1, k \in T
      PROVE  k + 1 \in T
  <2>1. n + k \in Nat /\ n + k \notin S /\ n + (k + 1) = (n + k) + 1 /\ k + 1 \in Nat
    OBVIOUS
  <2>2. R((n + k) + 1) = R(n + k) + 1
    BY <1>0, <2>1
  <2>3. R(n + k) = R(n) + k /\ R(n) \in Nat
    BY <1>0, <1>2
  <2> QED
    BY <2>1, <2>2, <2>3
<1> HIDE DEF T
<1>3. x - n \in Nat /\ 0 .. (x - n) \subseteq T
  BY <1>1, <1>2, UpTo
<1>4. x - n \in T /\ n + (x - n) = x
  BY <1>3
<1> QED
  BY <1>4 DEF T, R

(* The old rows without those of D are the new ones without those of I.    *)
Places(D, I, old, new) ==
    /\ D \subseteq 0 .. Len(old) - 1 /\ I \subseteq 0 .. Len(new) - 1
    /\ Rank(D, Len(old)) = Rank(I, Len(new))
    /\ \A x \in 0 .. Len(old) - 1, y \in 0 .. Len(new) - 1 :
         x \notin D /\ y \notin I /\ Rank(D, x) = Rank(I, y) => old[x + 1] = new[y + 1]

\* It stays so when a row is inserted.
LEMMA PlacesInserted ==
    ASSUME NEW old \in Seq(Nat), NEW new \in Seq(Nat), NEW D, NEW I, Places(D, I, old, new),
           NEW i \in 0 .. Len(new), NEW e \in Nat, NEW V \in SUBSET Nat, Opened(I, V, i),
           NEW t, PutInAt(new, t, i, e)
    PROVE  Places(D, V, old, t)
<1> DEFINE n == Len(old)
           l == Len(new)
<1>0. n \in Nat /\ l \in Nat /\ i \in Nat /\ i <= l
  OBVIOUS
<1>p. /\ D \subseteq 0 .. n - 1 /\ I \subseteq 0 .. l - 1 /\ Rank(D, n) = Rank(I, l)
      /\ \A x \in 0 .. n - 1, y \in 0 .. l - 1 :
           x \notin D /\ y \notin I /\ Rank(D, x) = Rank(I, y) => old[x + 1] = new[y + 1]
  BY Zenon DEF Places
<1>d. D \subseteq 0 .. n - 1 /\ I \subseteq 0 .. l - 1 /\ Rank(D, n) = Rank(I, l)
  BY <1>p
<1>1. /\ t \in Seq(Nat) /\ Len(t) = l + 1
      /\ \A y \in 0 .. l : t[y + 1] = IF y < i THEN new[y + 1] ELSE IF y = i THEN e ELSE new[y]
  BY DEF PutInAt
<1>r. \A x \in Nat : /\ x <= i => Rank(V, x) = Rank(I, x)
                     /\ x >= i => Rank(V, x + 1) = Rank(I, x)
  BY <1>0, RankOpened, SMTT(30)
<1>v. \A z \in Nat : z \in V <=> (z < i /\ z \in I) \/ z = i \/ (z > i /\ z - 1 \in I)
  BY DEF Opened
<1> HIDE DEF n, l
<1>2. V \subseteq 0 .. (l + 1) - 1
  <2> SUFFICES ASSUME NEW z \in V PROVE z \in 0 .. (l + 1) - 1
    OBVIOUS
  <2>1. z \in Nat
    OBVIOUS
  <2> QED
    BY <1>0, <1>d, <1>v, <2>1
<1>3. Rank(D, n) = Rank(V, l + 1)
  <2>1. Rank(V, l + 1) = Rank(I, l)
    BY <1>0, <1>r
  <2> QED
    BY <1>d, <2>1
<1>4. ASSUME NEW x \in 0 .. n - 1, NEW y \in 0 .. l, x \notin D, y \notin V, Rank(D, x) = Rank(V, y)
      PROVE  old[x + 1] = t[y + 1]
  <2>0. y \in Nat /\ y # i
    BY <1>0, <1>v, <1>4
  <2>1. CASE y < i
    <3>1. y \notin I /\ Rank(D, x) = Rank(I, y) /\ y \in 0 .. l - 1
      BY <1>0, <1>4, <1>r, <1>v, <2>0, <2>1
    <3>2. old[x + 1] = new[y + 1]
      BY <1>p, <1>4, <3>1
    <3> QED
      BY <1>0, <1>1, <2>1, <3>2
  <2>2. CASE y > i
    <3> DEFINE u == y - 1
    <3>1. u \in Nat /\ u >= i /\ y = u + 1 /\ u \in 0 .. l - 1
      BY <1>0, <2>0, <2>2
    <3>2. u \notin I
      BY <1>v, <1>4, <2>0, <2>2
    <3> HIDE DEF u
    <3>3. Rank(D, x) = Rank(I, u)
      BY <1>4, <1>r, <3>1
    <3>4. old[x + 1] = new[u + 1]
      BY <1>p, <1>4, <3>1, <3>2, <3>3
    <3> QED
      BY <1>0, <1>1, <2>0, <2>2, <3>1, <3>4
  <2> QED
    BY <1>0, <2>0, <2>1, <2>2
<1>5. (l + 1) - 1 = l
  BY <1>0
<1> QED
  BY <1>0, <1>1, <1>2, <1>3, <1>4, <1>5 DEF Places, n

\* The deletions once new position i is erased: an old row goes with it,
\* unless it was inserted.
GoneWith(D, I, i, y, E) ==
    IF i \in I THEN E = D ELSE y \in Nat /\ y \notin D /\ Rank(D, y) = Rank(I, i) /\ E = D \cup {y}

\* It stays so when a row is erased, which tells where it was.
LEMMA PlacesErased ==
    ASSUME NEW old \in Seq(Nat), NEW new \in Seq(Nat), NEW D, NEW I, Places(D, I, old, new),
           NEW i \in 0 .. Len(new) - 1, NEW V \in SUBSET Nat, Closed(I, V, i),
           NEW y \in Nat, NEW E, GoneWith(D, I, i, y, E), NEW t, TakenOutAt(new, t, i)
    PROVE  /\ Places(E, V, old, t)
           /\ i \notin I => y \in 0 .. Len(old) - 1 /\ old[y + 1] = new[i + 1]
<1> DEFINE n == Len(old)
           l == Len(new)
<1>0. n \in Nat /\ l \in Nat /\ i \in Nat /\ i < l
  OBVIOUS
<1>p. /\ D \subseteq 0 .. n - 1 /\ I \subseteq 0 .. l - 1 /\ Rank(D, n) = Rank(I, l)
      /\ \A x \in 0 .. n - 1, z \in 0 .. l - 1 :
           x \notin D /\ z \notin I /\ Rank(D, x) = Rank(I, z) => old[x + 1] = new[z + 1]
  BY Zenon DEF Places
<1>d. D \subseteq 0 .. n - 1 /\ I \subseteq 0 .. l - 1 /\ Rank(D, n) = Rank(I, l)
  BY <1>p
<1>1. /\ t \in Seq(Nat) /\ Len(t) = l - 1
      /\ \A z \in 0 .. l - 2 : t[z + 1] = IF z < i THEN new[z + 1] ELSE new[z + 2]
  BY DEF TakenOutAt
<1>r. \A x \in Nat :
        /\ x <= i => Rank(V, x) = Rank(I, x)
        /\ x >= i => Rank(V, x) = IF i \in I THEN Rank(I, x + 1) ELSE Rank(I, x + 1) - 1
  BY <1>0, RankClosed
<1>v. \A z \in Nat : z \in V <=> (z < i /\ z \in I) \/ (i <= z /\ z + 1 \in I)
  BY DEF Closed
<1>n. \A x \in Nat : Rank(I, x) \in Nat /\ Rank(D, x) \in Nat
  BY RankSteps
<1>y. i \notin I => /\ y \in Nat /\ y \notin D /\ Rank(D, y) = Rank(I, i) /\ E = D \cup {y}
                    /\ y \in 0 .. n - 1 /\ old[y + 1] = new[i + 1]
  <2> SUFFICES ASSUME i \notin I
               PROVE  /\ y \in Nat /\ y \notin D /\ Rank(D, y) = Rank(I, i) /\ E = D \cup {y}
                      /\ y \in 0 .. n - 1 /\ old[y + 1] = new[i + 1]
    OBVIOUS
  <2>1. y \in Nat /\ y \notin D /\ Rank(D, y) = Rank(I, i) /\ E = D \cup {y}
    BY DEF GoneWith
  <2>2. Rank(I, i) < Rank(I, l)
    BY <1>0, RankGrows
  <2>3. y < n
    <3> SUFFICES ASSUME n <= y PROVE FALSE
      BY <1>0, <2>1
    <3>1. Rank(D, n) <= Rank(D, y)
      BY <1>0, <2>1, RankGrows
    <3> QED
      BY <1>0, <1>d, <1>n, <2>1, <2>2, <3>1
  <2>4. y \in 0 .. n - 1
    BY <1>0, <2>1, <2>3
  <2>5. i \in 0 .. l - 1
    BY <1>0
  <2>6. old[y + 1] = new[i + 1]
    BY <1>p, <2>1, <2>4, <2>5
  <2> QED
    BY <2>1, <2>4, <2>6
<1>e. i \in I => E = D
  BY DEF GoneWith
<1>q. i \notin I => \A x \in Nat : Rank(E, x) = IF y < x THEN Rank(D, x) - 1 ELSE Rank(D, x)
  BY <1>y, RankAdds
<1>s. Rank(I, i + 1) = IF i \in I THEN Rank(I, i) ELSE Rank(I, i) + 1
  BY <1>0, RankSteps
<1> HIDE DEF n, l
<1>2. E \subseteq 0 .. n - 1
  BY <1>d, <1>e, <1>y
<1>3. V \subseteq 0 .. (l - 1) - 1
  <2> SUFFICES ASSUME NEW z \in V PROVE z \in 0 .. (l - 1) - 1
    OBVIOUS
  <2>1. z \in Nat
    OBVIOUS
  <2> QED
    <3>1. z < l - 1
      <4>1. CASE z < i
        BY <1>0, <2>1, <4>1
      <4>2. CASE i <= z
        <5>1. z + 1 \in I
          BY <1>v, <2>1, <4>2
        <5>2. z + 1 \in 0 .. l - 1
          BY <1>d, <5>1
        <5> QED
          BY <1>0, <2>1, <5>2
      <4> QED
        BY <1>0, <2>1, <4>1, <4>2
    <3> QED
      BY <1>0, <2>1, <3>1
<1>4. Rank(E, n) = Rank(V, l - 1)
  <2>1. l - 1 \in Nat /\ l - 1 >= i /\ (l - 1) + 1 = l
    BY <1>0
  <2>2. Rank(V, l - 1) = IF i \in I THEN Rank(I, l) ELSE Rank(I, l) - 1
    BY <1>r, <2>1
  <2>3. i \notin I => Rank(E, n) = Rank(D, n) - 1
    BY <1>0, <1>q, <1>y
  <2> QED
    BY <1>d, <1>e, <2>2, <2>3
<1>5. ASSUME NEW x \in 0 .. n - 1, NEW z \in 0 .. (l - 1) - 1, x \notin E, z \notin V,
             Rank(E, x) = Rank(V, z)
      PROVE  old[x + 1] = t[z + 1]
  <2> DEFINE u == IF z < i THEN z ELSE z + 1
  <2>0. x \in Nat /\ z \in Nat /\ u \in Nat /\ u \in 0 .. l - 1 /\ z \in 0 .. l - 2 /\ u # i
    BY <1>0
  <2>1. u \notin I /\ x \notin D
    BY <1>v, <1>5, <1>e, <1>y, <2>0, SMTT(30)
  <2>2. t[z + 1] = new[u + 1]
    <3>1. t[z + 1] = IF z < i THEN new[z + 1] ELSE new[z + 2]
      BY <1>1, <2>0
    <3>2. (z + 1) + 1 = z + 2
      BY <2>0
    <3> QED
      BY <3>1, <3>2
  <2>3. z < i => Rank(V, z) = Rank(I, u)
    BY <1>0, <1>r, <2>0
  <2>4. z >= i => Rank(V, z) = IF i \in I THEN Rank(I, u) ELSE Rank(I, u) - 1
    BY <1>0, <1>r, <2>0
  <2>u. (z < i => u = z) /\ (z >= i => u = z + 1)
    BY <1>0, <2>0
  <2> HIDE DEF u
  <2>n. /\ Rank(D, x) \in Nat /\ Rank(D, y) \in Nat /\ Rank(I, u) \in Nat /\ Rank(I, i) \in Nat
        /\ Rank(I, i + 1) \in Nat
    <3>1. i + 1 \in Nat
      BY <1>0
    <3> QED
      BY <1>0, <1>n, <2>0, <3>1
  <2>5. Rank(D, x) = Rank(I, u)
    <3>1. CASE i \in I
      BY <1>0, <1>5, <1>e, <2>0, <2>3, <2>4, <2>u, <3>1
    <3>2. CASE i \notin I /\ z < i
      <4>1. u = z /\ Rank(E, x) = Rank(I, z)
        BY <1>5, <2>3, <2>u, <3>2
      <4>2. Rank(I, z) < Rank(I, i)
        BY <1>0, <2>0, <2>1, <3>2, <4>1, RankGrows
      <4>3. ~(y < x)
        <5> SUFFICES ASSUME y < x PROVE FALSE
          OBVIOUS
        <5>1. Rank(D, y) < Rank(D, x) /\ Rank(E, x) = Rank(D, x) - 1
          BY <1>q, <1>y, <2>0, <3>2, RankGrows
        <5>2. Rank(D, y) = Rank(I, i)
          BY <1>y, <3>2
        <5> QED
          BY ONLY <2>n, <4>1, <4>2, <5>1, <5>2
      <4> QED
        BY <1>q, <2>0, <3>2, <4>1, <4>3
    <3>3. CASE i \notin I /\ z >= i
      <4>1. u = z + 1 /\ Rank(E, x) = Rank(I, u) - 1
        BY <1>0, <1>5, <2>0, <2>4, <2>u, <3>3
      <4>2. Rank(I, i + 1) <= Rank(I, u)
        BY <1>0, <2>0, <3>3, <4>1, RankGrows
      <4>3. y < x
        <5> SUFFICES ASSUME x <= y PROVE FALSE
          BY <1>y, <2>0, <3>3
        <5>1. x # y
          BY <1>5, <1>y, <3>3
        <5>2. Rank(D, x) < Rank(D, y)
          BY <1>y, <2>0, <2>1, <3>3, <5>1, RankGrows
        <5>3. Rank(E, x) = Rank(D, x)
          BY <1>q, <1>y, <2>0, <3>3
        <5>4. Rank(I, i + 1) = Rank(D, y) + 1
          BY <1>s, <1>y, <3>3
        <5> QED
          BY ONLY <2>n, <4>1, <4>2, <5>2, <5>3, <5>4
      <4>4. Rank(E, x) = Rank(D, x) - 1
        BY <1>q, <2>0, <3>3, <4>3
      <4> QED
        BY <2>n, <4>1, <4>4
    <3> QED
      BY <1>0, <2>0, <3>1, <3>2, <3>3
  <2> QED
    BY <1>p, <2>0, <2>1, <2>2, <2>5
<1>6. Places(E, V, old, t)
  BY <1>1, <1>2, <1>3, <1>4, <1>5 DEF Places, n
<1> QED
  BY <1>6, <1>y DEF n

-----------------------------------------------------------------------------
(* The moves of a list.                                                    *)

\* No two moves begin or end at the same position.
Apart(mv) ==
    \A j, k \in 1 .. Len(mv) : j # k => mv[j].from # mv[k].from /\ mv[j].to # mv[k].to

\* Every one is of a deleted row to an inserted row, the same.
Known(mv, D, I, old, new) ==
    \A k \in 1 .. Len(mv) :
      mv[k].from \in D /\ mv[k].to \in I /\ old[mv[k].from + 1] = new[mv[k].to + 1]

\* What Erase keeps of one move, and the function it collects them with.
MoveClosed(m, i) ==
    CASE m.to = i -> << >>
      [] m.to > i -> <<[m EXCEPT !.to = @ - 1]>>
      [] m.to < i -> <<m>>
KeptOf(mv, i) ==
    CHOOSE f : f = [k \in 0 .. Len(mv) |-> IF k = 0 THEN << >> ELSE f[k - 1] \o MoveClosed(mv[k], i)]

\* Nothing of a move to i, and any other with its end counted without i.
LEMMA MoveClosedIs ==
    ASSUME NEW m \in Moves, NEW i \in Nat
    PROVE  /\ MoveClosed(m, i) \in Seq(Moves)
           /\ m.to = i => MoveClosed(m, i) = << >>
           /\ m.to # i => \E e \in Moves : /\ MoveClosed(m, i) = <<e>> /\ e.from = m.from
                                           /\ e.to = IF m.to > i THEN m.to - 1 ELSE m.to
<1>0. m.to \in Nat /\ m.from \in Nat
  BY DEF Moves
<1>1. CASE m.to = i
  <2>1. MoveClosed(m, i) = << >>
    BY <1>1 DEF MoveClosed
  <2> QED
    BY <1>1, <2>1
<1>2. CASE m.to > i
  <2> DEFINE e == [m EXCEPT !.to = @ - 1]
  <2>1. MoveClosed(m, i) = <<e>>
    BY <1>0, <1>2 DEF MoveClosed
  <2>2. m.to - 1 \in Nat
    BY <1>0, <1>2
  <2>3. e \in Moves /\ e.from = m.from /\ e.to = m.to - 1
    BY <2>2 DEF Moves
  <2> HIDE DEF e
  <2>4. <<e>> \in Seq(Moves)
    BY <2>3
  <2> QED
    BY <1>0, <1>2, <2>1, <2>3, <2>4
<1>3. CASE m.to < i
  <2>1. MoveClosed(m, i) = <<m>>
    BY <1>0, <1>3 DEF MoveClosed
  <2>2. <<m>> \in Seq(Moves)
    OBVIOUS
  <2> QED
    BY <1>0, <1>3, <2>1, <2>2
<1> QED
  BY <1>0, <1>1, <1>2, <1>3

\* One element appended.
LEMMA OneMore ==
    ASSUME NEW S, NEW u \in Seq(S), NEW e \in S, NEW c, c = <<e>>
    PROVE  /\ u \o c \in Seq(S) /\ Len(u \o c) = Len(u) + 1 /\ (u \o c)[Len(u) + 1] = e
           /\ \A a \in 1 .. Len(u) : (u \o c)[a] = u[a]
  OBVIOUS

\* Moves appended to moves are moves ...
LEMMA Catenates ==
    ASSUME NEW S, NEW u \in Seq(S), NEW c \in Seq(S)
    PROVE  u \o c \in Seq(S)
  OBVIOUS

\* ... and none appended changes nothing.
LEMMA NoneMore ==
    ASSUME NEW S, NEW u \in Seq(S), NEW c, c = << >>
    PROVE  u \o c = u
  OBVIOUS

\* It takes the steps of Erase.
LEMMA KeptRuns ==
    ASSUME NEW mv \in Seq(Moves), NEW i \in Nat
    PROVE  /\ KeptOf(mv, i)[0] = << >>
           /\ \A k \in 1 .. Len(mv) : KeptOf(mv, i)[k] = KeptOf(mv, i)[k - 1] \o MoveClosed(mv[k], i)
           /\ \A k \in 0 .. Len(mv) : KeptOf(mv, i)[k] \in Seq(Moves)
<1> DEFINE n == Len(mv)
           V == Seq(Moves)
           step == [k \in 1 .. n |-> [u \in V |-> u \o MoveClosed(mv[k], i)]]
           none == << >>
<1>0. n \in Nat /\ \A k \in 1 .. n : mv[k] \in Moves
  OBVIOUS
<1>1. step \in Steps(n, V)
  <2>1. ASSUME NEW k \in 1 .. n, NEW u \in V
        PROVE  u \o MoveClosed(mv[k], i) \in V
    <3> DEFINE c == MoveClosed(mv[k], i)
    <3>1. c \in Seq(Moves)
      BY <1>0, MoveClosedIs
    <3>2. u \in Seq(Moves)
      OBVIOUS
    <3> HIDE DEF n, c
    <3>3. u \o c \in Seq(Moves)
      BY ONLY <3>1, <3>2, Catenates, Zenon
    <3> QED
      BY ONLY <3>3 DEF c, V
  <2> QED
    BY <2>1 DEF Steps
<1>2. none \in V
  OBVIOUS
<1> HIDE DEF n, V, step, none
<1>l. PICK f : IsLoop(f, n, V, none, step)
  BY <1>0, <1>1, <1>2, LoopRuns
<1>3. f \in [0 .. n -> V] /\ f[0] = none /\ \A k \in 1 .. n : f[k] = step[k][f[k - 1]]
  BY <1>l DEF IsLoop
<1>4. ASSUME NEW k \in 0 .. n
      PROVE  f[k] = IF k = 0 THEN << >> ELSE f[k - 1] \o MoveClosed(mv[k], i)
  <2>1. CASE k = 0
    BY <1>3, <2>1 DEF none
  <2>2. CASE k # 0
    <3>1. k \in 1 .. n /\ k - 1 \in 0 .. n
      BY <1>0, <2>2
    <3>2. f[k] = step[k][f[k - 1]] /\ f[k - 1] \in V
      BY <1>3, <3>1
    <3>3. f[k] = f[k - 1] \o MoveClosed(mv[k], i)
      BY <3>1, <3>2 DEF step
    <3> QED
      BY <2>2, <3>3
  <2> QED
    BY <2>1, <2>2
<1>5. f = [k \in 0 .. n |-> IF k = 0 THEN << >> ELSE f[k - 1] \o MoveClosed(mv[k], i)]
  BY <1>3, <1>4
<1> DEFINE p == KeptOf(mv, i)
<1>6. p = [k \in 0 .. n |-> IF k = 0 THEN << >> ELSE p[k - 1] \o MoveClosed(mv[k], i)]
  BY <1>5 DEF KeptOf, n
<1> HIDE DEF p
<1>7. p[0] = << >> /\ \A k \in 1 .. n : p[k] = p[k - 1] \o MoveClosed(mv[k], i)
  <2>1. \A k \in 0 .. n : p[k] = IF k = 0 THEN << >> ELSE p[k - 1] \o MoveClosed(mv[k], i)
    BY <1>6, Zenon
  <2>2. 0 \in 0 .. n /\ \A k \in 1 .. n : k \in 0 .. n /\ k # 0
    BY <1>0
  <2> QED
    BY <2>1, <2>2, Zenon
<1>8. \A k \in 0 .. n : p[k] \in Seq(Moves)
  <2> DEFINE T == {k \in Nat : p[k] \in Seq(Moves)}
  <2>1. 0 \in T
    <3>1. << >> \in Seq(Moves)
      OBVIOUS
    <3>2. p[0] \in Seq(Moves)
      BY <1>7, <3>1, Zenon
    <3> QED
      BY ONLY <3>2
  <2>2. ASSUME NEW k \in 0 .. n - 1, k \in T
        PROVE  k + 1 \in T
    <3>1. k + 1 \in 1 .. n /\ (k + 1) - 1 = k /\ k + 1 \in Nat
      BY <1>0
    <3>2. MoveClosed(mv[k + 1], i) \in Seq(Moves)
      BY <1>0, <3>1, MoveClosedIs
    <3> DEFINE c == MoveClosed(mv[k + 1], i)
    <3>3. p[k + 1] = p[k] \o c
      BY <1>7, <3>1
    <3>4. p[k] \in Seq(Moves) /\ c \in Seq(Moves)
      BY <2>2, <3>2
    <3> HIDE DEF c
    <3>5. p[k + 1] \in Seq(Moves)
      BY ONLY <3>3, <3>4, Catenates, Zenon
    <3> QED
      BY ONLY <3>1, <3>5
  <2> HIDE DEF T
  <2>3. 0 .. n \subseteq T
    BY <1>0, <2>1, <2>2, UpTo
  <2> QED
    BY <2>3 DEF T
<1> QED
  BY <1>7, <1>8 DEF p, n

\* Every move of w is one of mv, not to i, counted without position i.
LeftOver(mv, w, n, i) ==
    /\ w \in Seq(Moves)
    /\ \A a \in 1 .. Len(w) : \E c \in 1 .. n :
         /\ mv[c].to # i /\ w[a].from = mv[c].from
         /\ w[a].to = IF mv[c].to > i THEN mv[c].to - 1 ELSE mv[c].to

\* What it collects are moves that end elsewhere, still apart.
LEMMA KeptIs ==
    ASSUME NEW mv \in Seq(Moves), NEW i \in Nat, Apart(mv)
    PROVE  LET w == KeptOf(mv, i)[Len(mv)] IN LeftOver(mv, w, Len(mv), i) /\ Apart(w)
<1> DEFINE n == Len(mv)
           p == KeptOf(mv, i)
           T == {k \in Nat : k <= n => LeftOver(mv, p[k], k, i) /\ Apart(p[k])}
<1>0. n \in Nat /\ \A k \in 1 .. n : mv[k] \in Moves /\ mv[k].from \in Nat /\ mv[k].to \in Nat
  <2>1. \A m \in Moves : m.from \in Nat /\ m.to \in Nat
    BY DEF Moves
  <2>2. n \in Nat /\ \A k \in 1 .. n : mv[k] \in Moves
    OBVIOUS
  <2> QED
    BY <2>1, <2>2
<1>p. /\ p[0] = << >> /\ \A k \in 1 .. n : p[k] = p[k - 1] \o MoveClosed(mv[k], i)
      /\ \A k \in 0 .. n : p[k] \in Seq(Moves)
  BY KeptRuns
<1>a. \A j, k \in 1 .. n : j # k => mv[j].from # mv[k].from /\ mv[j].to # mv[k].to
  BY DEF Apart
<1> HIDE DEF n, p
<1>1. 0 \in T
  <2> DEFINE u == p[0]
  <2>1. u = << >> /\ << >> \in Seq(Moves) /\ Len(u) = 0
    BY <1>p
  <2> HIDE DEF u
  <2>2. 1 .. Len(u) = {} /\ u \in Seq(Moves)
    BY <2>1
  <2>3. LeftOver(mv, u, 0, i) /\ Apart(u)
    BY <2>2 DEF LeftOver, Apart
  <2> QED
    BY <2>3 DEF u
<1>2. ASSUME NEW k \in 0 .. n - 1, k \in T
      PROVE  k + 1 \in T
  <2> DEFINE u == p[k]
             m == mv[k + 1]
             c == MoveClosed(m, i)
             w == p[k + 1]
  <2>1. k \in Nat /\ k <= n /\ k + 1 \in 1 .. n /\ (k + 1) - 1 = k /\ k + 1 \in Nat
    BY <1>0
  <2>2. LeftOver(mv, u, k, i) /\ Apart(u)
    BY <1>2, <2>1
  <2>m. m = mv[k + 1]
    OBVIOUS
  <2>3. w = u \o c /\ u \in Seq(Moves) /\ w \in Seq(Moves) /\ m \in Moves
    <3>1. p[k + 1] = p[k] \o MoveClosed(mv[k + 1], i) /\ mv[k + 1] \in Moves
      BY <1>0, <1>p, <2>1
    <3>2. k \in 0 .. n /\ k + 1 \in 0 .. n
      BY <1>0, <2>1
    <3>3. p[k] \in Seq(Moves) /\ p[k + 1] \in Seq(Moves)
      BY ONLY <1>p, <3>2, Zenon
    <3> QED
      BY ONLY <3>1, <3>3
  <2> HIDE DEF u, w, m
  <2>4. \A a \in 1 .. Len(u) : \E d \in 1 .. k :
          /\ mv[d].to # i /\ u[a].from = mv[d].from
          /\ u[a].to = IF mv[d].to > i THEN mv[d].to - 1 ELSE mv[d].to
    BY <2>2 DEF LeftOver
  <2>5. CASE m.to = i
    <3>0. c = << >>
      BY <2>3, <2>5, MoveClosedIs
    <3> HIDE DEF c
    <3>1. w = u
      BY ONLY <2>3, <3>0, NoneMore, Zenon
    <3>2. 1 .. k \subseteq 1 .. k + 1
      BY <2>1
    <3>3. LeftOver(mv, w, k + 1, i) /\ Apart(w)
      BY <2>2, <2>3, <2>4, <3>1, <3>2 DEF LeftOver
    <3> QED
      BY <2>1, <3>3 DEF w
  <2>6. CASE m.to # i
    <3>1. PICK e \in Moves : /\ c = <<e>> /\ e.from = m.from
                             /\ e.to = IF m.to > i THEN m.to - 1 ELSE m.to
      BY <2>3, <2>6, MoveClosedIs
    <3> HIDE DEF c
    <3> DEFINE L == Len(u)
    <3>2. /\ L \in Nat /\ Len(w) = L + 1 /\ w[L + 1] = e
          /\ \A a \in 1 .. L : w[a] = u[a]
      <4>1. L \in Nat
        BY <2>3
      <4>2. c = <<e>> /\ w = u \o c /\ u \in Seq(Moves) /\ e \in Moves
        BY <2>3, <3>1
      <4>3. /\ Len(u \o c) = Len(u) + 1 /\ (u \o c)[Len(u) + 1] = e
            /\ \A a \in 1 .. Len(u) : (u \o c)[a] = u[a]
        BY ONLY <4>2, OneMore
      <4> DEFINE uc == u \o c
      <4>4. w = uc /\ Len(uc) = Len(u) + 1 /\ uc[Len(u) + 1] = e /\ \A a \in 1 .. Len(u) : uc[a] = u[a]
        BY ONLY <4>2, <4>3
      <4> HIDE DEF uc
      <4> QED
        BY ONLY <4>1, <4>4
    <3> HIDE DEF L
    <3>3. LeftOver(mv, w, k + 1, i)
      <4>1. ASSUME NEW a \in 1 .. Len(w)
            PROVE  \E d \in 1 .. k + 1 :
                     /\ mv[d].to # i /\ w[a].from = mv[d].from
                     /\ w[a].to = IF mv[d].to > i THEN mv[d].to - 1 ELSE mv[d].to
        <5>1. CASE a = L + 1
          <6>1. k + 1 \in 1 .. k + 1
            BY <2>1
          <6> QED
            BY <2>6, <2>m, <3>1, <3>2, <5>1, <6>1
        <5>2. CASE a # L + 1
          <6>1. a \in 1 .. L
            BY <3>2, <5>2
          <6>2. PICK d \in 1 .. k : /\ mv[d].to # i /\ u[a].from = mv[d].from
                                    /\ u[a].to = IF mv[d].to > i THEN mv[d].to - 1 ELSE mv[d].to
            BY <2>4, <6>1 DEF L
          <6>3. d \in 1 .. k + 1 /\ w[a] = u[a]
            BY <2>1, <3>2, <6>1
          <6> QED
            BY <6>2, <6>3
        <5> QED
          BY <5>1, <5>2
      <4> QED
        BY <2>3, <4>1 DEF LeftOver
    <3>4. ASSUME NEW a \in 1 .. L
          PROVE  u[a].from # e.from /\ u[a].to # e.to
      <4>1. PICK d \in 1 .. k : /\ mv[d].to # i /\ u[a].from = mv[d].from
                                /\ u[a].to = IF mv[d].to > i THEN mv[d].to - 1 ELSE mv[d].to
        BY <2>4 DEF L
      <4>2. d \in 1 .. n /\ d # k + 1
        BY <1>0, <2>1
      <4>3. mv[d].from # m.from /\ mv[d].to # m.to
        BY <1>a, <2>1, <2>m, <4>2
      <4>4. mv[d].to \in Nat /\ m.to \in Nat
        BY <1>0, <2>1, <2>m, <4>2
      <4> QED
        BY <2>6, <3>1, <4>1, <4>3, <4>4, SMTT(30)
    <3>5. Apart(w)
      <4> SUFFICES ASSUME NEW a \in 1 .. Len(w), NEW b \in 1 .. Len(w), a # b
                   PROVE  w[a].from # w[b].from /\ w[a].to # w[b].to
        BY DEF Apart
      <4>1. CASE a \in 1 .. L /\ b \in 1 .. L
        <5>1. u[a].from # u[b].from /\ u[a].to # u[b].to
          BY <2>2, <4>1 DEF Apart, L
        <5> QED
          BY <3>2, <4>1, <5>1
      <4>2. CASE a = L + 1 /\ b \in 1 .. L
        BY <3>2, <3>4, <4>2
      <4>3. CASE a \in 1 .. L /\ b = L + 1
        BY <3>2, <3>4, <4>3
      <4> QED
        BY <3>2, <4>1, <4>2, <4>3
    <3> QED
      BY <2>1, <3>3, <3>5 DEF w
  <2> QED
    BY <2>5, <2>6
<1> HIDE DEF T
<1>3. 0 .. n \subseteq T /\ n \in 0 .. n
  <2>0. n \in Nat
    BY <1>0
  <2>1. 0 .. n \subseteq T
    BY ONLY <2>0, <1>1, <1>2, UpTo, Zenon
  <2> QED
    BY <1>0, <2>1
<1> QED
  BY <1>0, <1>3 DEF T, p, n

(* The moves are known without the erased position too.                    *)
LEMMA KnownErased ==
    ASSUME NEW old, NEW new \in Seq(Nat), NEW i \in 0 .. Len(new) - 1, NEW t, TakenOutAt(new, t, i),
           NEW D, NEW E, D \subseteq E, NEW I \in SUBSET (0 .. Len(new) - 1),
           NEW V \in SUBSET Nat, Closed(I, V, i),
           NEW mv \in Seq(Moves), NEW w, Known(mv, D, I, old, new), LeftOver(mv, w, Len(mv), i)
    PROVE  Known(w, E, V, old, t)
<1> SUFFICES ASSUME NEW a \in 1 .. Len(w)
             PROVE  w[a].from \in E /\ w[a].to \in V /\ old[w[a].from + 1] = t[w[a].to + 1]
  BY DEF Known
<1>1. PICK c \in 1 .. Len(mv) : /\ mv[c].to # i /\ w[a].from = mv[c].from
                                /\ w[a].to = IF mv[c].to > i THEN mv[c].to - 1 ELSE mv[c].to
  BY DEF LeftOver
<1>2. mv[c].from \in D /\ mv[c].to \in I /\ old[mv[c].from + 1] = new[mv[c].to + 1]
  BY DEF Known
<1> DEFINE x == mv[c].to
           y == w[a].to
           n == Len(new)
<1>3. x \in Nat /\ x < n /\ n \in Nat /\ i \in Nat /\ i < n /\ x # i
  <2>1. n \in Nat
    OBVIOUS
  <2>2. x \in I /\ I \subseteq 0 .. n - 1 /\ i \in 0 .. n - 1 /\ x # i
    BY <1>1, <1>2
  <2> HIDE DEF n, x
  <2> QED
    BY ONLY <2>1, <2>2
<1>4. y = IF x > i THEN x - 1 ELSE x
  BY <1>1
<1>5. x \in I /\ w[a].from \in E /\ old[w[a].from + 1] = new[x + 1]
  BY <1>1, <1>2
<1>v. \A z \in Nat : z \in V <=> (z < i /\ z \in I) \/ (i <= z /\ z + 1 \in I)
  BY DEF Closed
<1>t. \A z \in 0 .. n - 2 : t[z + 1] = IF z < i THEN new[z + 1] ELSE new[z + 2]
  BY DEF TakenOutAt
<1> HIDE DEF x, y, n
<1>6. CASE x > i
  <2>1. y \in Nat /\ y = x - 1 /\ i <= y /\ y + 1 = x /\ y + 2 = x + 1 /\ y \in 0 .. n - 2
    BY <1>3, <1>4, <1>6
  <2>2. y \in V
    BY <1>3, <1>5, <1>v, <2>1
  <2>3. t[y + 1] = new[x + 1]
    <3>1. ~(y < i)
      BY <1>3, <2>1
    <3>2. t[y + 1] = new[y + 2]
      BY ONLY <1>t, <2>1, <3>1
    <3> QED
      BY ONLY <3>2, <2>1
  <2> QED
    BY <1>5, <2>2, <2>3 DEF y
<1>7. CASE x < i
  <2>1. y = x /\ y \in 0 .. n - 2
    BY <1>3, <1>4, <1>7
  <2>2. y \in V
    BY <1>3, <1>5, <1>7, <1>v, <2>1
  <2>3. t[y + 1] = new[x + 1]
    BY <1>3, <1>7, <1>t, <2>1
  <2> QED
    BY <1>5, <2>2, <2>3 DEF y
<1> QED
  BY <1>3, <1>6, <1>7

-----------------------------------------------------------------------------
(* erase and move of a list.                                               *)

(* The position in the old list of the row at position i, if it was there. *)
Was(b, i) == ShiftIndex(b.deletions, UnshiftIndex(b.insertions, i))

\* It counts as many places in the old list as i in the new one.
LEMMA WasIs ==
    ASSUME NEW b \in Builders, NEW i \in Nat
    PROVE  Was(b, i) \in Nat /\ Was(b, i) \notin Del(b) /\ Rank(Del(b), Was(b, i)) = Rank(Ins(b), i)
<1>1. b.deletions \in Ranges /\ b.insertions \in Ranges
  BY BuilderIs
<1>2. UnshiftIndex(b.insertions, i) \in Nat /\ UnshiftIndex(b.insertions, i) = Rank(Members(b.insertions), i)
  BY <1>1, UnshiftIs
<1> QED
  BY <1>1, <1>2, ShiftIs DEF Was, Del, Ins

\* The deletions after the row at position i goes.
LEMMA DeletedIs ==
    ASSUME NEW b \in Builders, NEW i \in Nat
    PROVE  LET out == EraseOrUnshift(b.insertions, i)
               left == AddShifted(b.deletions, out.index)
               del == IF out.index = NPos THEN b.deletions ELSE left.set
           IN  /\ out.set \in Ranges /\ Closed(Ins(b), Members(out.set), i)
               /\ out.index = NPos <=> i \in Ins(b)
               /\ del \in Ranges /\ GoneWith(Del(b), Ins(b), i, Was(b, i), Members(del))
               /\ i \notin Ins(b) => left.index = Was(b, i)
<1> DEFINE out == EraseOrUnshift(b.insertions, i)
           left == AddShifted(b.deletions, out.index)
           del == IF out.index = NPos THEN b.deletions ELSE left.set
           at == UnshiftIndex(b.insertions, i)
           y == Was(b, i)
<1>0. b.deletions \in Ranges /\ b.insertions \in Ranges
  BY BuilderIs
<1>y. y \in Nat /\ y \notin Del(b) /\ Rank(Del(b), y) = Rank(Ins(b), i)
  BY WasIs
<1>i. InSet(b.insertions, i) <=> i \in Ins(b)
  BY <1>0, InSetMeans DEF Ins
<1>a. at \in Nat /\ at # NPos
  <2>1. at \in Nat
    BY <1>0, UnshiftIs
  <2> HIDE DEF at
  <2> QED
    BY <2>1 DEF NPos
<1>1. out.set \in Ranges /\ Closed(Ins(b), Members(out.set), i)
  <2>1. out.set = EraseIndex(b.insertions, i)
    BY DEF EraseOrUnshift
  <2> HIDE DEF out
  <2>2. /\ out.set \in Ranges
        /\ \A z \in Nat : z \in Members(out.set) <=>
             (z < i /\ z \in Ins(b)) \/ (i <= z /\ z + 1 \in Ins(b))
    BY <1>0, <2>1, EraseIndexIs DEF Ins
  <2> QED
    BY ONLY <2>2 DEF Closed
<1>2. out.index = IF i \in Ins(b) THEN NPos ELSE at
  BY <1>i DEF EraseOrUnshift
<1> HIDE DEF out
<1>3. out.index = NPos <=> i \in Ins(b)
  BY ONLY <1>2, <1>a
<1>4. CASE i \in Ins(b)
  <2>1. del = b.deletions
    BY <1>3, <1>4
  <2> HIDE DEF del
  <2>2. GoneWith(Del(b), Ins(b), i, y, Members(del))
    BY <1>4, <2>1 DEF GoneWith, Del
  <2> QED
    BY <1>0, <1>1, <1>3, <1>4, <2>1, <2>2 DEF del, out
<1>5. CASE i \notin Ins(b)
  <2>1. left.index = y /\ left.set = AddIndex(b.deletions, y)
    <3>1. out.index = at
      BY <1>2, <1>5
    <3> QED
      BY <3>1 DEF AddShifted, Was
  <2>2. del = left.set
    BY <1>3, <1>5
  <2> HIDE DEF left, y
  <2>3. left.set \in Ranges /\ Members(left.set) = Del(b) \cup {y}
    BY <1>0, <1>y, <2>1, AddIndexIs DEF Del
  <2> HIDE DEF del
  <2>4. GoneWith(Del(b), Ins(b), i, y, Members(del))
    BY <1>5, <1>y, <2>2, <2>3 DEF GoneWith
  <2> QED
    BY <1>1, <1>3, <1>5, <2>1, <2>2, <2>3, <2>4 DEF del, left, y, out
<1> QED
  BY <1>4, <1>5

\* erase.
LEMMA EraseIs ==
    ASSUME NEW b \in Builders, NEW i \in Nat
    PROVE  LET c == Erase(b, i)
           IN  /\ c \in Builders /\ c.mapping = b.mapping
               /\ Closed(Mod(b), Mod(c), i) /\ Closed(Ins(b), Ins(c), i)
               /\ GoneWith(Del(b), Ins(b), i, Was(b, i), Del(c))
               /\ c.moves = KeptOf(b.moves, i)[Len(b.moves)]
<1> DEFINE out == EraseOrUnshift(b.insertions, i)
           del == IF out.index = NPos THEN b.deletions ELSE AddShifted(b.deletions, out.index).set
           m == EraseIndex(b.modifications, i)
           K == KeptOf(b.moves, i)
           kept == K[Len(b.moves)]
           ins == out.set
           c == Erase(b, i)
<1>0. /\ b.modifications \in Ranges /\ b.moves \in Seq(Moves) /\ b.mapping \in Mappings
  BY BuilderIs
<1>1. c = [b EXCEPT !.modifications = m, !.insertions = ins, !.deletions = del, !.moves = kept]
  BY DEF Erase, KeptOf, MoveClosed
<1>2. ins \in Ranges /\ Closed(Ins(b), Members(ins), i)
  BY DeletedIs
<1>3. del \in Ranges /\ GoneWith(Del(b), Ins(b), i, Was(b, i), Members(del))
  BY DeletedIs
<1>4. m \in Ranges /\ Closed(Mod(b), Members(m), i)
  <2> HIDE DEF m
  <2>1. /\ m \in Ranges
        /\ \A z \in Nat : z \in Members(m) <=>
             (z < i /\ z \in Mod(b)) \/ (i <= z /\ z + 1 \in Mod(b))
    BY <1>0, EraseIndexIs DEF m, Mod
  <2> QED
    BY ONLY <2>1 DEF Closed
<1>5. kept \in Seq(Moves)
  <2>1. Len(b.moves) \in 0 .. Len(b.moves)
    BY <1>0
  <2>2. \A k \in 0 .. Len(b.moves) : K[k] \in Seq(Moves)
    BY <1>0, KeptRuns
  <2> HIDE DEF K
  <2> QED
    BY ONLY <2>1, <2>2
<1> HIDE DEF m, del, ins, kept
<1>6. c \in Builders
  BY <1>1, <1>2, <1>3, <1>4, <1>5 DEF Builders
<1>7. /\ c.modifications = m /\ c.insertions = ins /\ c.deletions = del /\ c.moves = kept
      /\ c.mapping = b.mapping
  BY <1>1 DEF Builders
<1> HIDE DEF c
<1>8. Mod(c) = Members(m) /\ Ins(c) = Members(ins) /\ Del(c) = Members(del)
  BY ONLY <1>7 DEF Mod, Ins, Del
<1>9. Closed(Mod(b), Mod(c), i) /\ Closed(Ins(b), Ins(c), i) /\ GoneWith(Del(b), Ins(b), i, Was(b, i), Del(c))
  BY ONLY <1>2, <1>3, <1>4, <1>8
<1> QED
  BY <1>6, <1>7, <1>9 DEF c, kept

\* Every move of w is one of mv, with its end moved by a new position i.
MovedUpAt(mv, w, i) ==
    /\ w \in Seq(Moves) /\ Len(w) = Len(mv)
    /\ \A k \in 1 .. Len(mv) : w[k].from = mv[k].from /\ w[k].to = After(mv[k].to, i, 1)

(* A new row in the list.                                                  *)
LEMMA KnownInserted ==
    ASSUME NEW old, NEW new \in Seq(Nat), NEW i \in 0 .. Len(new), NEW e, NEW t, PutInAt(new, t, i, e),
           NEW D, NEW I \in SUBSET (0 .. Len(new) - 1),
           NEW V \in SUBSET Nat, Opened(I, V, i),
           NEW mv \in Seq(Moves), NEW w, Known(mv, D, I, old, new), Apart(mv), MovedUpAt(mv, w, i)
    PROVE  Known(w, D, V, old, t) /\ Apart(w)
<1> DEFINE n == Len(new)
           L == Len(mv)
<1>0. n \in Nat /\ i \in Nat /\ i <= n /\ L \in Nat /\ Len(w) = L
  <2>1. n \in Nat /\ L \in Nat /\ Len(w) = L /\ i \in 0 .. n
    BY DEF MovedUpAt
  <2> HIDE DEF n, L
  <2> QED
    BY ONLY <2>1
<1>1. \A k \in 1 .. L : /\ mv[k].to \in I /\ mv[k].to \in Nat /\ mv[k].to < n
                        /\ w[k].from = mv[k].from /\ w[k].from \in D
                        /\ w[k].to = IF mv[k].to >= i THEN mv[k].to + 1 ELSE mv[k].to
                        /\ old[w[k].from + 1] = new[mv[k].to + 1]
  <2> TAKE k \in 1 .. L
  <2>1. mv[k].from \in D /\ mv[k].to \in I /\ old[mv[k].from + 1] = new[mv[k].to + 1]
    BY DEF Known
  <2>2. w[k].from = mv[k].from /\ w[k].to = IF mv[k].to >= i THEN mv[k].to + 1 ELSE mv[k].to
    BY DEF MovedUpAt, After
  <2>3. I \subseteq 0 .. n - 1
    OBVIOUS
  <2> HIDE DEF n, L
  <2> DEFINE x == mv[k].to
  <2>5. x \in I
    BY <2>1
  <2> HIDE DEF x
  <2>6. x \in Nat /\ x < n
    BY ONLY <1>0, <2>5, <2>3
  <2>4. mv[k].to \in Nat /\ mv[k].to < n
    BY <2>6 DEF x
  <2> QED
    BY <2>1, <2>2, <2>4
<1>a. \A j, k \in 1 .. L : j # k => mv[j].from # mv[k].from /\ mv[j].to # mv[k].to
  BY DEF Apart
<1>v. \A z \in Nat : z \in V <=> (z < i /\ z \in I) \/ z = i \/ (z > i /\ z - 1 \in I)
  BY DEF Opened
<1>t. \A z \in 0 .. n : t[z + 1] = IF z < i THEN new[z + 1] ELSE IF z = i THEN e ELSE new[z]
  BY DEF PutInAt
<1> HIDE DEF n, L
<1>2. ASSUME NEW k \in 1 .. L
      PROVE  w[k].to \in V /\ old[w[k].from + 1] = t[w[k].to + 1]
  <2> DEFINE x == mv[k].to
             y == w[k].to
             o == old[w[k].from + 1]
  <2>1. x \in I /\ x \in Nat /\ x < n /\ o = new[x + 1] /\ y = IF x >= i THEN x + 1 ELSE x
    BY <1>1
  <2> HIDE DEF x, y, o
  <2>2. CASE x >= i
    <3>1. y = x + 1 /\ y \in 0 .. n /\ y \in Nat /\ y > i /\ y - 1 = x
      BY ONLY <1>0, <2>1, <2>2
    <3>2. y \in V
      BY ONLY <1>v, <2>1, <3>1
    <3>4. ~(y < i) /\ y # i
      BY ONLY <1>0, <3>1
    <3>3. t[y + 1] = new[y]
      BY ONLY <3>4, <1>t, <3>1
    <3> QED
      BY <2>1, <3>1, <3>2, <3>3 DEF y, o
  <2>3. CASE ~(x >= i)
    <3>1. y = x /\ y \in 0 .. n /\ y \in Nat /\ y < i
      BY ONLY <1>0, <2>1, <2>3
    <3>2. y \in V
      BY ONLY <1>v, <2>1, <3>1
    <3>3. t[y + 1] = new[y + 1]
      BY ONLY <1>0, <1>t, <3>1
    <3> QED
      BY <2>1, <3>1, <3>2, <3>3 DEF y, o
  <2> QED
    BY <2>2, <2>3
<1>3. ASSUME NEW j \in 1 .. L, NEW k \in 1 .. L, j # k
      PROVE  w[j].from # w[k].from /\ w[j].to # w[k].to
  <2>1. mv[j].from # mv[k].from /\ mv[j].to # mv[k].to
    BY <1>3, <1>a
  <2> QED
    <3> DEFINE x == mv[j].to
               y == mv[k].to
               u == w[j].to
               v == w[k].to
    <3>1. /\ x \in Nat /\ y \in Nat /\ x # y
          /\ u = (IF x >= i THEN x + 1 ELSE x) /\ v = (IF y >= i THEN y + 1 ELSE y)
      BY <1>1, <2>1
    <3>2. w[j].from # w[k].from
      BY <1>1, <2>1
    <3> HIDE DEF x, y, u, v
    <3>3. u # v
      BY ONLY <1>0, <3>1
    <3> QED
      BY <3>2, <3>3 DEF u, v
<1> QED
  BY <1>0, <1>1, <1>2, <1>3 DEF Known, Apart

(* Where a list's move of an entry takes the row at position x.            *)
MovedTo(x, from, to) ==
    CASE x = from -> to
      [] x >= to /\ x < from -> x + 1
      [] x <= to /\ x > from -> x - 1
      [] OTHER -> x

\* The moves known already, with their ends moved.
MovedAll(mv, from, to) ==
    [k \in DOMAIN mv |-> [mv[k] EXCEPT !.to = MovedTo(@, from, to)]]

\* Counted without from, and then with to.
LEMMA MovedToIs ==
    ASSUME NEW x \in Nat, NEW from \in Nat, NEW to \in Nat
    PROVE  /\ MovedTo(x, from, to) \in Nat
           /\ x = from => MovedTo(x, from, to) = to
           /\ x # from => MovedTo(x, from, to) = After(IF x > from THEN x - 1 ELSE x, to, 1)
<1>1. CASE x = from
  <2>1. MovedTo(x, from, to) = to
    BY <1>1 DEF MovedTo
  <2> QED
    BY <1>1, <2>1
<1>2. CASE x # from /\ x >= to /\ x < from
  <2>1. MovedTo(x, from, to) = x + 1
    BY <1>2 DEF MovedTo
  <2> QED
    BY <1>2, <2>1 DEF After
<1>3. CASE x # from /\ ~(x >= to /\ x < from) /\ x <= to /\ x > from
  <2>1. MovedTo(x, from, to) = x - 1
    BY <1>3 DEF MovedTo
  <2> QED
    BY <1>3, <2>1 DEF After
<1>4. CASE x # from /\ ~(x >= to /\ x < from) /\ ~(x <= to /\ x > from)
  <2>1. MovedTo(x, from, to) = x
    BY <1>4 DEF MovedTo
  <2> QED
    BY <1>4, <2>1 DEF After
<1> QED
  BY <1>1, <1>2, <1>3, <1>4

\* They are as many, from where they were.
LEMMA MovedAllIs ==
    ASSUME NEW mv \in Seq(Moves), NEW from \in Nat, NEW to \in Nat
    PROVE  /\ MovedAll(mv, from, to) \in Seq(Moves) /\ Len(MovedAll(mv, from, to)) = Len(mv)
           /\ \A k \in 1 .. Len(mv) : /\ MovedAll(mv, from, to)[k].from = mv[k].from
                                      /\ MovedAll(mv, from, to)[k].to = MovedTo(mv[k].to, from, to)
<1> DEFINE L == Len(mv)
           e(k) == [mv[k] EXCEPT !.to = MovedTo(@, from, to)]
           w == MovedAll(mv, from, to)
<1>1. L \in Nat /\ DOMAIN mv = 1 .. L /\ \A k \in 1 .. L : mv[k] \in Moves
  OBVIOUS
<1>2. w = [k \in 1 .. L |-> e(k)]
  BY ONLY <1>1 DEF MovedAll
<1>3. \A k \in 1 .. L : /\ e(k) \in Moves /\ e(k).from = mv[k].from
                        /\ e(k).to = MovedTo(mv[k].to, from, to)
  <2> TAKE k \in 1 .. L
  <2>1. mv[k] \in Moves
    BY <1>1
  <2> DEFINE m == mv[k]
  <2> HIDE DEF m
  <2>2. m \in Moves /\ m.to \in Nat /\ m.from \in Nat
    BY <2>1 DEF m, Moves
  <2>3. MovedTo(m.to, from, to) \in Nat
    BY <2>2, MovedToIs
  <2>4. /\ [m EXCEPT !.to = MovedTo(@, from, to)] \in Moves
        /\ [m EXCEPT !.to = MovedTo(@, from, to)].from = m.from
        /\ [m EXCEPT !.to = MovedTo(@, from, to)].to = MovedTo(m.to, from, to)
    BY <2>2, <2>3 DEF Moves
  <2> QED
    BY <2>4 DEF m
<1> HIDE DEF e, w, L
<1>4. w \in [1 .. L -> Moves] /\ \A k \in 1 .. L : w[k] = e(k)
  BY <1>2, <1>3
<1>5. w \in Seq(Moves) /\ Len(w) = L
  BY ONLY <1>1, <1>4
<1> QED
  BY <1>3, <1>4, <1>5 DEF w, L

\* The moves after an entry moved: its own is there already when in is true.
MovedBy(mv, w, y, from, to, in) ==
    /\ w \in Seq(Moves) /\ Len(w) = IF in THEN Len(mv) ELSE Len(mv) + 1
    /\ \A k \in 1 .. Len(mv) : w[k].from = mv[k].from /\ w[k].to = MovedTo(mv[k].to, from, to)
    /\ ~in => w[Len(mv) + 1].from = y /\ w[Len(mv) + 1].to = to

\* The modifications after an entry moved, those without it being M.
ModsMoved(S, M, V, from, to) ==
    \A z \in Nat : z \in V <=>
      (z < to /\ z \in M) \/ (z = to /\ from \in S) \/ (z > to /\ z - 1 \in M)

\* The modifications lose position from and get position to.
LEMMA ModsMovedIs ==
    ASSUME NEW s \in Ranges, NEW from \in Nat, NEW to \in Nat
    PROVE  LET m == IF InSet(s, from) THEN InsertRange(EraseIndex(s, from), to, 1)
                    ELSE ShiftForInsert(EraseIndex(s, from), to, 1)
           IN  /\ m \in Ranges /\ Members(EraseIndex(s, from)) \in SUBSET Nat
               /\ Closed(Members(s), Members(EraseIndex(s, from)), from)
               /\ ModsMoved(Members(s), Members(EraseIndex(s, from)), Members(m), from, to)
<1> DEFINE r == EraseIndex(s, from)
           M == Members(r)
           m == IF InSet(s, from) THEN InsertRange(r, to, 1) ELSE ShiftForInsert(r, to, 1)
<1>1. r \in Ranges /\ M \subseteq Nat /\ Closed(Members(s), M, from)
  <2> HIDE DEF r
  <2>1. /\ r \in Ranges
        /\ \A z \in Nat : z \in M <=> (z < from /\ z \in Members(s)) \/ (from <= z /\ z + 1 \in Members(s))
    BY EraseIndexIs DEF r
  <2>2. M \subseteq Nat
    BY <2>1, InMembers
  <2> QED
    BY ONLY <2>1, <2>2 DEF Closed
<1>2. InSet(s, from) <=> from \in Members(s)
  BY InSetMeans
<1> HIDE DEF r
<1>3. CASE from \in Members(s)
  <2> DEFINE v == InsertRange(r, to, 1)
  <2>1. m = v
    BY <1>2, <1>3
  <2>2. /\ v \in Ranges
        /\ \A z \in Nat : z \in Members(v) <=>
             (z < to /\ z \in M) \/ (to <= z - 1 /\ z - 1 \in M) \/ (to <= z /\ z < to + 1)
    BY <1>1, InsertRangeIs
  <2> HIDE DEF m, v, M
  <2>3. ModsMoved(Members(s), M, Members(v), from, to)
    BY <2>2, <1>3 DEF ModsMoved
  <2> QED
    BY <1>1, <2>1, <2>2, <2>3 DEF m, r, M
<1>4. CASE from \notin Members(s)
  <2> DEFINE v == ShiftForInsert(r, to, 1)
  <2>1. m = v
    BY <1>2, <1>4
  <2>2. /\ v \in Ranges
        /\ \A z \in Nat : z \in Members(v) <=>
             (z < to /\ z \in M) \/ (to <= z - 1 /\ z - 1 \in M)
    BY <1>1, ShiftForInsertIs
  <2> HIDE DEF m, v, M
  <2>3. ModsMoved(Members(s), M, Members(v), from, to)
    BY <2>2, <1>4 DEF ModsMoved
  <2> QED
    BY <1>1, <2>1, <2>2, <2>3 DEF m, r, M
<1> QED
  BY <1>3, <1>4

\* move.
LEMMA MoveIs ==
    ASSUME NEW b \in Builders, NEW from \in Nat, NEW to \in Nat,
           \A k \in 1 .. Len(b.moves) : b.moves[k].to \in Ins(b)
    PROVE  LET c == Move(b, from, to)
               M == Members(EraseIndex(b.modifications, from))
               I == Members(EraseIndex(b.insertions, from))
           IN  /\ c \in Builders /\ c.mapping = b.mapping
               /\ M \in SUBSET Nat /\ Closed(Mod(b), M, from) /\ ModsMoved(Mod(b), M, Mod(c), from, to)
               /\ I \in SUBSET Nat /\ Closed(Ins(b), I, from) /\ Opened(I, Ins(c), to)
               /\ GoneWith(Del(b), Ins(b), from, Was(b, from), Del(c))
               /\ MovedBy(b.moves, c.moves, Was(b, from), from, to, from \in Ins(b))
<1> DEFINE mv == b.moves
           out == EraseOrUnshift(b.insertions, from)
           left == AddShifted(b.deletions, out.index)
           del == IF out.index = NPos THEN b.deletions ELSE left.set
           again == \E k \in DOMAIN mv : mv[k].to = from
           moved == MovedAll(mv, from, to)
           M == Members(EraseIndex(b.modifications, from))
           I == Members(EraseIndex(b.insertions, from))
           m == IF InSet(b.modifications, from)
                THEN InsertRange(EraseIndex(b.modifications, from), to, 1)
                ELSE ShiftForInsert(EraseIndex(b.modifications, from), to, 1)
           ins == InsertRange(out.set, to, 1)
           e == [from |-> left.index, to |-> to]
           b1 == [b EXCEPT !.insertions = ins, !.modifications = m]
           c == Move(b, from, to)
           y == Was(b, from)
<1>0. /\ b.modifications \in Ranges /\ b.insertions \in Ranges /\ mv \in Seq(Moves)
      /\ b.mapping \in Mappings /\ y \in Nat
  BY BuilderIs, WasIs
<1>1. c = IF again \/ out.index = NPos THEN [b1 EXCEPT !.moves = moved]
          ELSE [b1 EXCEPT !.moves = Append(moved, e), !.deletions = left.set]
  BY DEF Move, MovedAll, MovedTo
<1>2. /\ m \in Ranges /\ M \in SUBSET Nat
      /\ Closed(Mod(b), M, from) /\ ModsMoved(Mod(b), M, Members(m), from, to)
  BY <1>0, ModsMovedIs DEF Mod
<1>3. /\ out.set \in Ranges /\ Closed(Ins(b), Members(out.set), from)
      /\ out.index = NPos <=> from \in Ins(b)
      /\ del \in Ranges /\ GoneWith(Del(b), Ins(b), from, y, Members(del))
      /\ from \notin Ins(b) => left.index = y
  BY DeletedIs
<1>4. /\ moved \in Seq(Moves) /\ Len(moved) = Len(mv)
      /\ \A k \in 1 .. Len(mv) : moved[k].from = mv[k].from /\ moved[k].to = MovedTo(mv[k].to, from, to)
  BY <1>0, MovedAllIs
<1>5. out.set = EraseIndex(b.insertions, from)
  BY DEF EraseOrUnshift
<1>6. again => from \in Ins(b)
  <2>1. DOMAIN mv = 1 .. Len(mv)
    BY <1>0
  <2> HIDE DEF mv
  <2>2. \A k \in 1 .. Len(mv) : mv[k].to \in Ins(b)
    BY DEF mv
  <2> QED
    BY ONLY <2>1, <2>2
<1> HIDE DEF m, out, moved, again, del, left, M, y
<1>7. ins \in Ranges /\ I \in SUBSET Nat /\ Closed(Ins(b), I, from) /\ Opened(I, Members(ins), to)
  <2>1. /\ ins \in Ranges
        /\ \A z \in Nat : z \in Members(ins) <=>
             (z < to /\ z \in I) \/ (to <= z - 1 /\ z - 1 \in I) \/ (to <= z /\ z < to + 1)
    BY <1>3, <1>5, InsertRangeIs
  <2>2. I \subseteq Nat
    BY <1>3, <1>5, InMembers
  <2>3. Closed(Ins(b), I, from)
    BY <1>3, <1>5
  <2> HIDE DEF ins, I
  <2>4. Opened(I, Members(ins), to)
    BY <2>1 DEF Opened
  <2> QED
    BY <2>1, <2>2, <2>3, <2>4
<1> HIDE DEF ins, I
<1>8. CASE from \in Ins(b)
  <2>1. c = [b1 EXCEPT !.moves = moved]
    BY <1>1, <1>3, <1>8
  <2>2. del = b.deletions
    BY <1>3, <1>8 DEF del
  <2>3. c \in Builders
    BY <1>2, <1>4, <1>7, <2>1 DEF Builders
  <2>4. /\ c.modifications = m /\ c.insertions = ins /\ c.deletions = del /\ c.moves = moved
        /\ c.mapping = b.mapping
    BY <2>1, <2>2 DEF Builders
  <2> HIDE DEF c
  <2>5. Mod(c) = Members(m) /\ Ins(c) = Members(ins) /\ Del(c) = Members(del)
    BY ONLY <2>4 DEF Mod, Ins, Del
  <2>6. MovedBy(mv, c.moves, y, from, to, from \in Ins(b))
    BY <1>4, <1>8, <2>4 DEF MovedBy
  <2>7. /\ ModsMoved(Mod(b), M, Mod(c), from, to) /\ Opened(I, Ins(c), to)
        /\ GoneWith(Del(b), Ins(b), from, y, Del(c))
    BY ONLY <1>2, <1>3, <1>7, <2>5
  <2> QED
    BY <1>2, <1>7, <2>3, <2>4, <2>6, <2>7 DEF c, y, M, I, mv
<1>9. CASE from \notin Ins(b)
  <2> DEFINE w == Append(moved, e)
  <2>1. c = [b1 EXCEPT !.moves = w, !.deletions = left.set]
    BY <1>1, <1>3, <1>6, <1>9
  <2>2. del = left.set
    BY <1>3, <1>9 DEF del
  <2>3. e \in Moves /\ e.from = y /\ e.to = to
    BY <1>0, <1>3, <1>9 DEF Moves
  <2> HIDE DEF e
  <2>4. /\ w \in Seq(Moves) /\ Len(w) = Len(mv) + 1 /\ w[Len(mv) + 1] = e
        /\ \A k \in 1 .. Len(mv) : w[k] = moved[k]
    <3>1. /\ w \in Seq(Moves) /\ Len(w) = Len(moved) + 1 /\ w[Len(moved) + 1] = e
          /\ \A k \in 1 .. Len(moved) : w[k] = moved[k]
      BY ONLY <1>4, <2>3
    <3> QED
      BY ONLY <1>4, <3>1
  <2> HIDE DEF w
  <2>5. c \in Builders
    BY <1>2, <1>3, <1>7, <2>1, <2>2, <2>4 DEF Builders
  <2>6. /\ c.modifications = m /\ c.insertions = ins /\ c.deletions = del /\ c.moves = w
        /\ c.mapping = b.mapping
    BY <2>1, <2>2 DEF Builders
  <2> HIDE DEF c
  <2>7. Mod(c) = Members(m) /\ Ins(c) = Members(ins) /\ Del(c) = Members(del)
    BY ONLY <2>6 DEF Mod, Ins, Del
  <2>8. MovedBy(mv, c.moves, y, from, to, from \in Ins(b))
    <3> DEFINE L == Len(mv)
    <3>2. /\ w \in Seq(Moves) /\ Len(w) = L + 1 /\ w[L + 1].from = y /\ w[L + 1].to = to
      BY ONLY <2>3, <2>4
    <3>3. \A k \in 1 .. L : w[k].from = mv[k].from /\ w[k].to = MovedTo(mv[k].to, from, to)
      BY ONLY <1>4, <2>4
    <3>4. c.moves = w
      BY <2>6
    <3> QED
      BY ONLY <1>9, <3>2, <3>3, <3>4 DEF MovedBy
  <2>9. /\ ModsMoved(Mod(b), M, Mod(c), from, to) /\ Opened(I, Ins(c), to)
        /\ GoneWith(Del(b), Ins(b), from, y, Del(c))
    BY ONLY <1>2, <1>3, <1>7, <2>7
  <2> QED
    BY <1>2, <1>7, <2>5, <2>6, <2>8, <2>9 DEF c, y, M, I, mv
<1> QED
  BY <1>8, <1>9

\* No two rows go to the same position.
LEMMA MovedApart ==
    ASSUME NEW x \in Nat, NEW y \in Nat, x # y, NEW from \in Nat, NEW to \in Nat
    PROVE  MovedTo(x, from, to) # MovedTo(y, from, to)
<1>1. \A z \in Nat : z # from => MovedTo(z, from, to) = IF (IF z > from THEN z - 1 ELSE z) >= to
                                                    THEN (IF z > from THEN z - 1 ELSE z) + 1
                                                    ELSE (IF z > from THEN z - 1 ELSE z)
  BY MovedToIs DEF After
<1>2. \A z \in Nat : z = from => MovedTo(z, from, to) = to
  BY MovedToIs
<1> DEFINE a == MovedTo(x, from, to)
           b == MovedTo(y, from, to)
<1>3. /\ x # from => a = IF (IF x > from THEN x - 1 ELSE x) >= to
                        THEN (IF x > from THEN x - 1 ELSE x) + 1 ELSE (IF x > from THEN x - 1 ELSE x)
      /\ y # from => b = IF (IF y > from THEN y - 1 ELSE y) >= to
                        THEN (IF y > from THEN y - 1 ELSE y) + 1 ELSE (IF y > from THEN y - 1 ELSE y)
      /\ x = from => a = to
      /\ y = from => b = to
  BY <1>1, <1>2
<1> HIDE DEF a, b
<1>4. a # b
  BY ONLY <1>3, x \in Nat, y \in Nat, x # y, from \in Nat, to \in Nat
<1> QED
  BY <1>4 DEF a, b

\* The row moved: unless it was inserted, it was in the old list, at y.
MovedRow(I, D, E, old, e, y, from) ==
    from \notin I => y \in E /\ y \notin D /\ old[y + 1] = e

\* MovedBy, as the position moved from is in I or not.
MovedOf(mv, w, y, from, to, I) == MovedBy(mv, w, y, from, to, from \in I)

\* The rows, by way of u, and the positions, by way of J.
RowMoved(new, u, t, from, to, e) ==
    /\ new \in Seq(Nat) /\ from \in 0 .. Len(new) - 1 /\ to \in 0 .. Len(new) - 1
    /\ TakenOutAt(new, u, from) /\ e = new[from + 1] /\ PutInAt(u, t, to, e)
PlaceMoved(I, J, V, from, to) == Closed(I, J, from) /\ Opened(J, V, to)

\* A move on a list, and what is known before it.
MoveMade(old, new, u, t, from, to, e, D, E, I, J, V, y, mv, w) ==
    /\ RowMoved(new, u, t, from, to, e) /\ PlaceMoved(I, J, V, from, to)
    /\ D \subseteq E /\ I \in SUBSET (0 .. Len(new) - 1)
    /\ y \in Nat /\ MovedRow(I, D, E, old, e, y, from)
    /\ mv \in Seq(Moves) /\ MovedOf(mv, w, y, from, to, I)
    /\ Known(mv, D, I, old, new) /\ Apart(mv)

\* The moves are known after it, too, and apart.
LEMMA KnownMoved ==
    ASSUME NEW old, NEW new, NEW u, NEW t, NEW from, NEW to, NEW e, NEW D, NEW E, NEW I, NEW J, NEW V,
           NEW y, NEW mv, NEW w, MoveMade(old, new, u, t, from, to, e, D, E, I, J, V, y, mv, w)
    PROVE  Known(w, E, V, old, t) /\ Apart(w)
<1>m. /\ RowMoved(new, u, t, from, to, e) /\ PlaceMoved(I, J, V, from, to)
      /\ D \subseteq E /\ I \in SUBSET (0 .. Len(new) - 1)
      /\ y \in Nat /\ MovedRow(I, D, E, old, e, y, from)
      /\ mv \in Seq(Moves) /\ MovedOf(mv, w, y, from, to, I)
      /\ Known(mv, D, I, old, new) /\ Apart(mv)
  BY DEF MoveMade
<1> USE <1>m
<1>h. /\ new \in Seq(Nat) /\ from \in 0 .. Len(new) - 1 /\ to \in 0 .. Len(new) - 1
      /\ TakenOutAt(new, u, from) /\ e = new[from + 1] /\ PutInAt(u, t, to, e)
      /\ Closed(I, J, from) /\ Opened(J, V, to)
  BY DEF RowMoved, PlaceMoved
<1> USE <1>h
<1> DEFINE n == Len(new)
           L == Len(mv)
<1>0. n \in Nat /\ from \in Nat /\ from < n /\ to \in Nat /\ to < n /\ L \in Nat /\ I \subseteq 0 .. n - 1
  <2>1. n \in Nat /\ L \in Nat /\ from \in 0 .. n - 1 /\ to \in 0 .. n - 1 /\ I \subseteq 0 .. n - 1
    OBVIOUS
  <2> HIDE DEF n, L
  <2> QED
    BY ONLY <2>1
<1>w. /\ w \in Seq(Moves) /\ Len(w) = IF from \in I THEN L ELSE L + 1
      /\ \A k \in 1 .. L : w[k].from = mv[k].from /\ w[k].to = MovedTo(mv[k].to, from, to)
      /\ from \notin I => w[L + 1].from = y /\ w[L + 1].to = to
  BY DEF MovedOf, MovedBy
<1>r. from \notin I => y \in E /\ y \notin D /\ old[y + 1] = e
  BY DEF MovedRow
<1>u. \A z \in 0 .. n - 2 : u[z + 1] = IF z < from THEN new[z + 1] ELSE new[z + 2]
  BY DEF TakenOutAt
<1>t. \A z \in 0 .. n - 1 : t[z + 1] = IF z < to THEN u[z + 1] ELSE IF z = to THEN e ELSE u[z]
  <2>1. Len(u) = n - 1 /\ \A z \in 0 .. Len(u) : t[z + 1] = IF z < to THEN u[z + 1] ELSE IF z = to THEN e ELSE u[z]
    BY DEF PutInAt, TakenOutAt
  <2> QED
    BY ONLY <2>1
<1>j. \A z \in Nat : z \in J <=> (z < from /\ z \in I) \/ (from <= z /\ z + 1 \in I)
  BY DEF Closed
<1>v. \A z \in Nat : z \in V <=> (z < to /\ z \in J) \/ z = to \/ (z > to /\ z - 1 \in J)
  BY DEF Opened
<1>a. \A j, k \in 1 .. L : j # k => mv[j].from # mv[k].from /\ mv[j].to # mv[k].to
  BY DEF Apart
<1>k. \A k \in 1 .. L : mv[k].from \in D /\ mv[k].to \in I /\ old[mv[k].from + 1] = new[mv[k].to + 1]
  BY DEF Known
<1>to. to \in V /\ t[to + 1] = e
  <2>1. to \in V
    BY <1>0 DEF Opened
  <2>2. to \in 0 .. n - 1 /\ ~(to < to)
    BY <1>0
  <2> QED
    BY <1>t, <2>1, <2>2
<1> HIDE DEF n, L
<1>1. ASSUME NEW k \in 1 .. L
      PROVE  /\ w[k].from \in E /\ w[k].from \in D /\ w[k].to \in V /\ old[w[k].from + 1] = t[w[k].to + 1]
             /\ mv[k].to \in Nat /\ (w[k].to = to => mv[k].to = from)
  <2> DEFINE x == mv[k].to
             o == old[w[k].from + 1]
             a == w[k].to
  <2>1. x \in I /\ o = new[x + 1] /\ w[k].from \in E /\ w[k].from \in D /\ a = MovedTo(x, from, to)
    <3>1. mv[k].from \in D /\ mv[k].to \in I /\ old[mv[k].from + 1] = new[mv[k].to + 1]
      BY ONLY <1>k, k \in 1 .. L
    <3>2. w[k].from = mv[k].from /\ w[k].to = MovedTo(mv[k].to, from, to)
      BY ONLY <1>w, k \in 1 .. L
    <3> QED
      BY <3>1, <3>2
  <2> HIDE DEF x, o, a
  <2>2. x \in Nat /\ x < n
    BY ONLY <1>0, <2>1
  <2>3. CASE x = from
    <3>1. a = to
      BY <1>0, <2>1, <2>2, <2>3, MovedToIs
    <3> QED
      BY <1>to, <2>1, <2>2, <2>3, <3>1 DEF x, o, a
  <2>4. CASE x # from
    <3> DEFINE v == IF x > from THEN x - 1 ELSE x
    <3>1. v \in Nat /\ v \in 0 .. n - 2 /\ v \in J /\ u[v + 1] = new[x + 1]
      <4>1. CASE x > from
        <5>1. v = x - 1
          BY <4>1
        <5> HIDE DEF v
        <5>2. v \in Nat /\ v \in 0 .. n - 2 /\ v + 1 = x /\ v + 2 = x + 1 /\ from <= v /\ ~(v < from)
          BY ONLY <1>0, <2>2, <4>1, <5>1
        <5>3. v \in J
          BY ONLY <1>j, <2>1, <5>2
        <5>4. u[v + 1] = new[v + 2]
          BY ONLY <1>u, <5>2
        <5> QED
          BY ONLY <5>2, <5>3, <5>4
      <4>2. CASE x < from
        <5>1. v = x
          BY <1>0, <2>2, <4>2
        <5> HIDE DEF v
        <5>2. v \in Nat /\ v \in 0 .. n - 2 /\ v < from
          BY ONLY <1>0, <2>2, <4>2, <5>1
        <5>3. v \in J
          BY ONLY <1>j, <2>1, <5>1, <5>2
        <5>4. u[v + 1] = new[v + 1]
          BY ONLY <1>u, <5>2
        <5> QED
          BY ONLY <5>1, <5>2, <5>3, <5>4
      <4> QED
        BY <1>0, <2>2, <2>4, <4>1, <4>2
    <3>2. a = After(v, to, 1)
      BY <1>0, <2>1, <2>2, <2>4, MovedToIs
    <3> HIDE DEF v
    <3>3. a \in Nat /\ a # to /\ a \in V /\ t[a + 1] = u[v + 1]
      <4>1. CASE v >= to
        <5>1. a = v + 1
          BY <3>2, <4>1 DEF After
        <5>2. a \in Nat /\ a \in 0 .. n - 1 /\ a > to /\ a - 1 = v /\ ~(a < to) /\ a # to
          BY ONLY <1>0, <3>1, <4>1, <5>1
        <5>3. a \in V
          BY ONLY <1>v, <3>1, <5>2
        <5>4. t[a + 1] = u[a]
          BY ONLY <1>t, <5>2
        <5> QED
          BY ONLY <5>1, <5>2, <5>3, <5>4
      <4>2. CASE ~(v >= to)
        <5>1. a = v
          BY <3>2, <4>2 DEF After
        <5>2. a \in Nat /\ a \in 0 .. n - 1 /\ a < to /\ a # to
          BY ONLY <1>0, <3>1, <4>2, <5>1
        <5>3. a \in V
          BY ONLY <1>v, <3>1, <5>1, <5>2
        <5>4. t[a + 1] = u[a + 1]
          BY ONLY <1>t, <5>2
        <5> QED
          BY ONLY <5>1, <5>2, <5>3, <5>4
      <4> QED
        BY <4>1, <4>2
    <3>4. o = t[a + 1]
      BY ONLY <2>1, <3>1, <3>3
    <3> QED
      BY ONLY <2>1, <2>2, <3>3, <3>4 DEF x, o, a
  <2> QED
    BY <2>3, <2>4
<1>2. ASSUME NEW j \in 1 .. L, NEW k \in 1 .. L, j # k
      PROVE  w[j].from # w[k].from /\ w[j].to # w[k].to
  <2>1. mv[j].from # mv[k].from /\ mv[j].to # mv[k].to
    BY <1>2, <1>a
  <2>2. mv[j].to \in Nat /\ mv[k].to \in Nat
    BY <1>1
  <2>3. MovedTo(mv[j].to, from, to) # MovedTo(mv[k].to, from, to)
    BY <1>0, <2>1, <2>2, MovedApart
  <2>4. w[j].from = mv[j].from /\ w[j].to = MovedTo(mv[j].to, from, to)
    BY ONLY <1>w, j \in 1 .. L
  <2>5. w[k].from = mv[k].from /\ w[k].to = MovedTo(mv[k].to, from, to)
    BY ONLY <1>w, k \in 1 .. L
  <2> QED
    BY ONLY <2>1, <2>3, <2>4, <2>5
<1>3. CASE from \in I
  <2>1. Len(w) = L
    BY <1>w, <1>3
  <2> QED
    BY <1>1, <1>2, <2>1 DEF Known, Apart
<1>4. CASE from \notin I
  <2>1. Len(w) = L + 1 /\ w[L + 1].from = y /\ w[L + 1].to = to
    BY <1>w, <1>4
  <2>2. 1 .. L + 1 = (1 .. L) \cup {L + 1} /\ L + 1 \notin 1 .. L
    <3>1. L \in Nat
      BY <1>0
    <3> QED
      BY ONLY <3>1
  <2>3. \A k \in 1 .. L : w[k].from # y /\ w[k].to # to
    <3> TAKE k \in 1 .. L
    <3>1. w[k].from \in D /\ (w[k].to = to => mv[k].to = from)
      BY <1>1
    <3>2. mv[k].to \in I
      BY ONLY <1>k, k \in 1 .. L
    <3>3. y \notin D
      BY <1>4, <1>r
    <3> QED
      BY ONLY <1>4, <3>1, <3>2, <3>3
  <2>4. Known(w, E, V, old, t)
    <3> SUFFICES ASSUME NEW k \in 1 .. L + 1
                 PROVE  w[k].from \in E /\ w[k].to \in V /\ old[w[k].from + 1] = t[w[k].to + 1]
      BY <2>1 DEF Known
    <3>1. CASE k \in 1 .. L
      BY <1>1, <3>1
    <3>2. CASE k = L + 1
      <4>1. w[k].from = y /\ w[k].to = to
        BY <2>1, <3>2
      <4> QED
        BY <1>4, <1>r, <1>to, <4>1
    <3> QED
      BY <2>2, <3>1, <3>2
  <2>5. Apart(w)
    <3> SUFFICES ASSUME NEW j \in 1 .. L + 1, NEW k \in 1 .. L + 1, j # k
                 PROVE  w[j].from # w[k].from /\ w[j].to # w[k].to
      BY <2>1 DEF Apart
    <3>1. CASE j \in 1 .. L /\ k \in 1 .. L
      BY <1>2, <3>1
    <3>2. CASE j \in 1 .. L /\ k = L + 1
      BY <2>1, <2>3, <3>2
    <3>3. CASE j = L + 1 /\ k \in 1 .. L
      BY <2>1, <2>3, <3>3
    <3> QED
      BY <2>2, <3>1, <3>2, <3>3
  <2> QED
    BY <2>4, <2>5
<1> QED
  BY <1>3, <1>4

-----------------------------------------------------------------------------
(* clear.                                                                  *)

\* The index set 0 .. n - 1.
LEMMA WithLengthIs ==
    ASSUME NEW n \in Nat
    PROVE  WithLength(n) \in Ranges /\ Members(WithLength(n)) = 0 .. n - 1
<1>1. CASE n = 0
  <2>1. WithLength(n) = << >>
    BY <1>1 DEF WithLength
  <2>2. 0 .. n - 1 = {}
    BY <1>1
  <2> QED
    BY <2>1, <2>2, EmptyRanges
<1>2. CASE n # 0
  <2> DEFINE s == << <<0, n>> >>
  <2>1. WithLength(n) = s
    BY <1>2 DEF WithLength
  <2>2. s \in Seq(Pairs) /\ Len(s) = 1 /\ s[1][1] = 0 /\ s[1][2] = n
    <3>1. <<0, n>> \in Pairs
      BY DEF Pairs
    <3> QED
      BY <3>1
  <2> HIDE DEF s
  <2>3. s \in Ranges
    <3>1. \A i \in 1 .. 1 : s[i][1] < s[i][2]
      BY <1>2, <2>2
    <3>2. \A i \in 1 .. 1 - 1 : s[i][2] < s[i + 1][1]
      OBVIOUS
    <3> QED
      BY <2>2, <3>1, <3>2, MakesRanges
  <2>4. \A y : y \in Members(s) <=> y \in Nat /\ \E i \in 1 .. Len(s) : s[i][1] <= y /\ y < s[i][2]
    BY <2>3, InMembers
  <2>5. \A y : y \in Members(s) <=> y \in Nat /\ y < n
    BY <2>2, <2>4
  <2> DEFINE M == Members(s)
  <2> HIDE DEF M
  <2>7. \A y : y \in M <=> y \in 0 .. n - 1
    <3>1. \A y : y \in M <=> y \in Nat /\ y < n
      BY <2>5 DEF M
    <3> QED
      BY ONLY <3>1, n \in Nat
  <2>6. Members(s) = 0 .. n - 1
    BY ONLY <2>7 DEF M
  <2> QED
    BY <2>1, <2>3, <2>6
<1> QED
  BY <1>1, <1>2

\* The changes of a clear.
LEMMA ClearedTo ==
    ASSUME NEW n \in Nat
    PROVE  LET c == [NoChange EXCEPT !.deletions = WithLength(n)]
           IN  /\ c \in Builders /\ Del(c) = 0 .. n - 1 /\ Ins(c) = {} /\ Mod(c) = {}
               /\ c.moves = << >> /\ c.mapping = << >> /\ DOMAIN c.mapping = {}
<1> DEFINE w == WithLength(n)
           c == [NoChange EXCEPT !.deletions = w]
<1>1. w \in Ranges /\ Members(w) = 0 .. n - 1
  BY WithLengthIs
<1>2. /\ NoChange \in Builders /\ Ins(NoChange) = {} /\ Mod(NoChange) = {}
      /\ NoChange.moves = << >> /\ DOMAIN NoChange.mapping = {}
  BY NoChangeIs
<1>3. NoChange.mapping = << >>
  BY DEF NoChange
<1> HIDE DEF w
<1>4. c \in Builders
  BY <1>1, <1>2 DEF Builders
<1>5. /\ c.deletions = w /\ c.insertions = NoChange.insertions
      /\ c.modifications = NoChange.modifications
      /\ c.moves = NoChange.moves /\ c.mapping = NoChange.mapping
  BY <1>2 DEF Builders
<1> HIDE DEF c
<1>6. Del(c) = 0 .. n - 1 /\ Ins(c) = {} /\ Mod(c) = {}
  BY <1>1, <1>2, <1>5 DEF Del, Ins, Mod
<1>7. DOMAIN c.mapping = {} /\ c.mapping = << >> /\ c.moves = << >>
  BY ONLY <1>2, <1>3, <1>5
<1> QED
  BY <1>4, <1>6, <1>7 DEF c, w

\* clear of a table.
LEMMA ClearTableIs ==
    ASSUME NEW b, Huge \in Nat
    PROVE  LET c == Clear(b, Huge)
           IN  /\ c \in Builders /\ Del(c) = 0 .. Huge - 1 /\ Ins(c) = {} /\ Mod(c) = {}
               /\ c.moves = << >> /\ c.mapping = << >> /\ DOMAIN c.mapping = {}
<1>1. Clear(b, Huge) = [NoChange EXCEPT !.deletions = WithLength(Huge)]
  BY DEF Clear
<1> QED
  BY <1>1, ClearedTo

\* The size before, from the size now.
LEMMA ClearListIs ==
    ASSUME NEW b \in Builders, NEW old \in Seq(Nat), NEW new \in Seq(Nat),
           Places(Del(b), Ins(b), old, new), Huge \in Nat, Len(old) <= Huge, Len(new) < Huge
    PROVE  LET c == Clear(b, Len(new))
           IN  /\ c \in Builders /\ Del(c) = 0 .. Len(old) - 1 /\ Ins(c) = {} /\ Mod(c) = {}
               /\ c.moves = << >> /\ c.mapping = << >> /\ DOMAIN c.mapping = {}
<1> DEFINE n == Len(old)
           m == Len(new)
           D == Del(b)
           I == Ins(b)
           cd == CountIn(b.deletions, 0, Huge)
           ci == CountIn(b.insertions, 0, Huge)
<1>0. n \in Nat /\ m \in Nat /\ b.deletions \in Ranges /\ b.insertions \in Ranges
  BY BuilderIs
<1>p. D \subseteq 0 .. n - 1 /\ I \subseteq 0 .. m - 1 /\ Rank(D, n) = Rank(I, m)
  BY DEF Places
<1>c. n <= Huge /\ m < Huge /\ Huge \in Nat
  OBVIOUS
<1>1. UnshiftIndex(b.deletions, Huge) = Rank(D, Huge) /\ UnshiftIndex(b.insertions, Huge) = Rank(I, Huge)
  BY <1>0, UnshiftIs DEF Del, Ins
<1>2. Rank(D, Huge) = Huge - cd /\ Rank(I, Huge) = Huge - ci
  BY <1>1 DEF UnshiftIndex
<1>i. cd \in Nat /\ ci \in Nat
  <2>1. \A s \in Ranges : CountIn(s, 0, Huge) \in Nat
    <3> TAKE s \in Ranges
    <3> DEFINE T == {y \in Members(s) : y < Huge}
    <3>1. CountIn(s, 0, Huge) = Cardinality(T)
      BY CountIs
    <3>2. T \subseteq 0 .. Huge - 1
      BY InMembers
    <3>3. IsFiniteSet(0 .. Huge - 1)
      BY FS_Interval
    <3>4. IsFiniteSet(T)
      BY <3>2, <3>3, FS_Subset
    <3> QED
      BY <3>1, <3>4, FS_CardinalityType
  <2> QED
    BY <1>0, <2>1
<1> HIDE DEF n, m, D, I, cd, ci
<1>3. Rank(D, Huge) = Rank(D, n) + (Huge - n)
  BY ONLY <1>0, <1>p, <1>c, RankBeyond, Zenon
<1>4. Rank(I, Huge) = Rank(I, m) + (Huge - m)
  <2>1. m <= Huge
    BY ONLY <1>0, <1>c
  <2> QED
    BY ONLY <1>0, <1>p, <1>c, <2>1, RankBeyond, Zenon
<1>5. Rank(D, n) \in Nat /\ Rank(I, m) \in Nat
  BY <1>0, RankSteps
<1>6. m + cd - ci = n
  <2> DEFINE rd == Rank(D, n)
             ri == Rank(I, m)
             hd == Rank(D, Huge)
             hi == Rank(I, Huge)
  <2>1. /\ hd = Huge - cd /\ hi = Huge - ci /\ hd = rd + (Huge - n) /\ hi = ri + (Huge - m)
        /\ rd \in Nat /\ ri \in Nat /\ rd = ri
    BY ONLY <1>p, <1>2, <1>3, <1>4, <1>5
  <2> HIDE DEF rd, ri, hd, hi
  <2>2. cd = n - rd
    BY ONLY <1>0, <1>c, <1>i, <2>1
  <2>3. ci = m - ri
    BY ONLY <1>0, <1>c, <1>i, <2>1
  <2> QED
    BY ONLY <1>0, <1>i, <2>1, <2>2, <2>3
<1>7. m # Huge
  BY ONLY <1>0, <1>c
<1>8. Clear(b, m) = [NoChange EXCEPT !.deletions = WithLength(n)]
  <2>1. Clear(b, m) = [NoChange EXCEPT !.deletions = WithLength(IF m = Huge THEN Huge ELSE m + cd - ci)]
    BY DEF Clear, cd, ci
  <2> QED
    BY ONLY <2>1, <1>6, <1>7
<1>9. LET c == [NoChange EXCEPT !.deletions = WithLength(n)]
      IN  /\ c \in Builders /\ Del(c) = 0 .. n - 1 /\ Ins(c) = {} /\ Mod(c) = {}
          /\ c.moves = << >> /\ c.mapping = << >> /\ DOMAIN c.mapping = {}
  BY <1>0, ClearedTo
<1> QED
  BY <1>8, <1>9 DEF n, m

(* Nothing known of a list that was emptied, nor of one that did not change.*)
LEMMA PlacesCleared ==
    ASSUME NEW old \in Seq(Nat), NEW t, t = << >>
    PROVE  Places(0 .. Len(old) - 1, {}, old, t)
<1> DEFINE n == Len(old)
           D == 0 .. n - 1
<1>0. n \in Nat /\ Len(t) = 0
  OBVIOUS
<1> HIDE DEF n
<1>1. Rank(D, n) = 0
  <2>1. {y \in 0 .. n - 1 : y \notin D} = {}
    OBVIOUS
  <2> QED
    BY <2>1, FS_EmptySet DEF Rank
<1>2. Rank({}, 0) = 0
  BY RankSteps
<1>3. 0 .. 0 - 1 = {}
  OBVIOUS
<1> HIDE DEF D
<1>4. D \subseteq 0 .. n - 1
  BY DEF D
<1>5. Places(D, {}, old, t)
  BY <1>0, <1>1, <1>2, <1>3, <1>4 DEF Places, n
<1> QED
  BY <1>5 DEF D, n

\* Nothing deleted or inserted: every position corresponds to itself.
LEMMA PlacesSame ==
    ASSUME NEW old \in Seq(Nat)
    PROVE  Places({}, {}, old, old)
<1> DEFINE n == Len(old)
<1>0. n \in Nat
  OBVIOUS
<1>1. \A x \in 0 .. n - 1, y \in 0 .. n - 1 :
        x \notin {} /\ y \notin {} /\ Rank({}, x) = Rank({}, y) => old[x + 1] = old[y + 1]
  <2> TAKE x \in 0 .. n - 1, y \in 0 .. n - 1
  <2>1. x \in Nat /\ y \in Nat
    OBVIOUS
  <2>2. Rank({}, x) = Rank({}, y) => x = y
    BY <2>1, OneOfRank
  <2> QED
    BY <2>2
<1> QED
  BY <1>0, <1>1 DEF Places

-----------------------------------------------------------------------------
(* clean_up_stale_moves.                                                   *)

(* A row that is where it was is neither deleted nor inserted.             *)
LEMMA PlacesWithout ==
    ASSUME NEW old \in Seq(Nat), NEW new \in Seq(Nat), NEW D, NEW I, Places(D, I, old, new),
           NEW x \in D, NEW y \in I, Rank(D, x) = Rank(I, y), old[x + 1] = new[y + 1]
    PROVE  Places(D \ {x}, I \ {y}, old, new)
<1> DEFINE n == Len(old)
           m == Len(new)
           E == D \ {x}
           V == I \ {y}
<1>0. n \in Nat /\ m \in Nat
  OBVIOUS
<1>s. D \subseteq 0 .. n - 1 /\ I \subseteq 0 .. m - 1 /\ Rank(D, n) = Rank(I, m)
  BY DEF Places
<1>p. \A u \in 0 .. n - 1, v \in 0 .. m - 1 :
        u \notin D /\ v \notin I /\ Rank(D, u) = Rank(I, v) => old[u + 1] = new[v + 1]
  BY Zenon DEF Places
<1>r. Rank(D, x) = Rank(I, y) /\ x \in D /\ y \in I
  OBVIOUS
<1>o. old[x + 1] = new[y + 1]
  OBVIOUS
<1> HIDE DEF n, m
<1>1. x \in Nat /\ x < n /\ y \in Nat /\ y < m
  BY ONLY <1>0, <1>s, <1>r
<1>2. \A u \in Nat : Rank(E, u) = IF x < u THEN Rank(D, u) + 1 ELSE Rank(D, u)
  BY <1>1, RankRemoves
<1>3. \A v \in Nat : Rank(V, v) = IF y < v THEN Rank(I, v) + 1 ELSE Rank(I, v)
  BY <1>1, RankRemoves
<1> HIDE DEF E, V
<1>4. Rank(E, x) = Rank(D, x) /\ Rank(V, y) = Rank(I, y)
  BY ONLY <1>1, <1>2, <1>3
<1>5. Rank(E, n) = Rank(V, m)
  <2>1. Rank(E, n) = Rank(D, n) + 1
    BY ONLY <1>0, <1>1, <1>2
  <2>2. Rank(V, m) = Rank(I, m) + 1
    BY ONLY <1>0, <1>1, <1>3
  <2> QED
    BY ONLY <2>1, <2>2, <1>s
<1>6. x \notin E /\ y \notin V /\ E \subseteq 0 .. n - 1 /\ V \subseteq 0 .. m - 1
  BY <1>s DEF E, V
<1>7. ASSUME NEW u \in 0 .. n - 1, NEW v \in 0 .. m - 1, u \notin E, v \notin V, Rank(E, u) = Rank(V, v)
      PROVE  old[u + 1] = new[v + 1]
  <2>1. u \in Nat /\ v \in Nat
    OBVIOUS
  <2>r. Rank(E, x) = Rank(V, y)
    BY <1>4, <1>r
  <2>2. CASE u = x
    <3>1. Rank(V, v) = Rank(V, y)
      BY <1>7, <2>2, <2>r
    <3>2. v = y
      BY ONLY <1>1, <1>6, <1>7, <2>1, <3>1, OneOfRank, Zenon
    <3> QED
      BY <1>o, <2>2, <3>2
  <2>3. CASE u # x
    <3>1. v # y
      <4>1. SUFFICES ASSUME v = y PROVE FALSE
        OBVIOUS
      <4>2. Rank(E, u) = Rank(E, x)
        BY <1>7, <4>1, <2>r
      <4>3. u = x
        BY ONLY <1>1, <1>6, <1>7, <2>1, <4>2, OneOfRank, Zenon
      <4> QED
        BY <2>3, <4>3
    <3>2. u \notin D /\ v \notin I
      BY <1>7, <2>3, <3>1 DEF E, V
    <3>3. x < u <=> y < v
      <4>1. /\ x < u => Rank(E, x) < Rank(E, u)
            /\ u < x => Rank(E, u) < Rank(E, x)
        <5>1. x < u => Rank(E, x) < Rank(E, u)
          BY ONLY <1>1, <1>6, <2>1, RankGrows
        <5>2. u < x => Rank(E, u) < Rank(E, x)
          BY ONLY <1>1, <1>7, <2>1, RankGrows
        <5> QED
          BY <5>1, <5>2
      <4>2. /\ y < v => Rank(V, y) < Rank(V, v)
            /\ v < y => Rank(V, v) < Rank(V, y)
        <5>1. y < v => Rank(V, y) < Rank(V, v)
          BY ONLY <1>1, <1>6, <2>1, RankGrows
        <5>2. v < y => Rank(V, v) < Rank(V, y)
          BY ONLY <1>1, <1>7, <2>1, RankGrows
        <5> QED
          BY <5>1, <5>2
      <4>3. Rank(E, u) \in Nat /\ Rank(E, x) \in Nat
        BY <1>1, <2>1, RankSteps
      <4> QED
        BY <1>1, <1>7, <2>1, <2>3, <2>r, <3>1, <4>1, <4>2, <4>3
    <3>4. Rank(D, u) = Rank(I, v)
      <4>1. /\ Rank(E, u) = IF x < u THEN Rank(D, u) + 1 ELSE Rank(D, u)
            /\ Rank(V, v) = IF y < v THEN Rank(I, v) + 1 ELSE Rank(I, v)
        BY <1>2, <1>3, <2>1
      <4>2. Rank(D, u) \in Nat /\ Rank(I, v) \in Nat
        BY <2>1, RankSteps
      <4> DEFINE a == Rank(E, u)
                 a1 == Rank(V, v)
                 d == Rank(D, u)
                 e == Rank(I, v)
      <4>3. /\ a = (IF x < u THEN d + 1 ELSE d) /\ a1 = (IF x < u THEN e + 1 ELSE e) /\ a = a1
            /\ d \in Nat /\ e \in Nat
        BY <1>7, <3>3, <4>1, <4>2
      <4> HIDE DEF a, a1, d, e
      <4>4. d = e
        BY ONLY <4>3
      <4> QED
        BY ONLY <4>4 DEF d, e
    <3> QED
      BY <1>p, <3>2, <3>4
  <2> QED
    BY <2>2, <2>3
<1>8. \A u \in 0 .. n - 1, v \in 0 .. m - 1 :
        u \notin E /\ v \notin V /\ Rank(E, u) = Rank(V, v) => old[u + 1] = new[v + 1]
  BY <1>7
<1>9. Places(E, V, old, new)
  BY ONLY <1>5, <1>6, <1>8, Zenon DEF Places, n, m
<1> QED
  BY <1>9 DEF E, V

\* One step of CleanUpStaleMoves, and its results after each move.
LookAt(acc, m) ==
    IF UnshiftIndex(acc.deletions, m.from) = UnshiftIndex(acc.insertions, m.to)
    THEN [acc EXCEPT !.deletions = RemoveIndex(@, m.from),
                     !.insertions = RemoveIndex(@, m.to)]
    ELSE [acc EXCEPT !.moves = Append(@, m)]
CleanedUp(b) ==
    CHOOSE f : f = [k \in 0 .. Len(b.moves) |-> IF k = 0 THEN [b EXCEPT !.moves = << >>]
                                                ELSE LookAt(f[k - 1], b.moves[k])]

\* A stale move goes with its deletion and insertion; any other is kept.
LEMMA LookIs ==
    ASSUME NEW acc \in Builders, NEW m \in Moves
    PROVE  LET c == LookAt(acc, m)
               stale == Rank(Del(acc), m.from) = Rank(Ins(acc), m.to)
           IN  /\ c \in Builders /\ c.modifications = acc.modifications /\ c.mapping = acc.mapping
               /\ stale => /\ Del(c) = Del(acc) \ {m.from} /\ Ins(c) = Ins(acc) \ {m.to}
                           /\ c.moves = acc.moves
               /\ ~stale => /\ Del(c) = Del(acc) /\ Ins(c) = Ins(acc)
                            /\ c.moves = Append(acc.moves, m)
<1> DEFINE c == LookAt(acc, m)
           stale == Rank(Del(acc), m.from) = Rank(Ins(acc), m.to)
           del == RemoveIndex(acc.deletions, m.from)
           ins == RemoveIndex(acc.insertions, m.to)
<1>0. m.from \in Nat /\ m.to \in Nat
  BY DEF Moves
<1>1. /\ acc.deletions \in Ranges /\ acc.insertions \in Ranges /\ acc.moves \in Seq(Moves)
  BY BuilderIs
<1>2. /\ UnshiftIndex(acc.deletions, m.from) = Rank(Del(acc), m.from)
      /\ UnshiftIndex(acc.insertions, m.to) = Rank(Ins(acc), m.to)
  BY <1>0, <1>1, UnshiftIs DEF Del, Ins
<1>3. /\ del \in Ranges /\ Members(del) = Del(acc) \ {m.from}
      /\ ins \in Ranges /\ Members(ins) = Ins(acc) \ {m.to}
  BY <1>0, <1>1, RemoveIndexIs DEF Del, Ins
<1>4. c = IF stale THEN [acc EXCEPT !.deletions = del, !.insertions = ins]
          ELSE [acc EXCEPT !.moves = Append(acc.moves, m)]
  BY <1>2 DEF LookAt, Builders
<1> HIDE DEF c, stale, del, ins
<1>5. CASE stale
  <2>1. c = [acc EXCEPT !.deletions = del, !.insertions = ins]
    BY <1>4, <1>5
  <2>2. c \in Builders
    BY <1>3, <2>1 DEF Builders
  <2>3. /\ c.modifications = acc.modifications /\ c.mapping = acc.mapping /\ c.moves = acc.moves
        /\ c.deletions = del /\ c.insertions = ins
    BY <2>1 DEF Builders
  <2>4. Del(c) = Del(acc) \ {m.from} /\ Ins(c) = Ins(acc) \ {m.to}
    BY ONLY <1>3, <2>3 DEF Del, Ins
  <2> QED
    BY <1>5, <2>2, <2>3, <2>4 DEF c, stale
<1>6. CASE ~stale
  <2> DEFINE w == Append(acc.moves, m)
  <2>0. w \in Seq(Moves)
    BY <1>1
  <2>1. c = [acc EXCEPT !.moves = w]
    BY <1>4, <1>6
  <2> HIDE DEF w
  <2>2. c \in Builders
    BY <2>0, <2>1 DEF Builders
  <2>3. /\ c.modifications = acc.modifications /\ c.mapping = acc.mapping /\ c.moves = w
        /\ c.deletions = acc.deletions /\ c.insertions = acc.insertions
    BY <2>1 DEF Builders
  <2>4. Del(c) = Del(acc) /\ Ins(c) = Ins(acc)
    BY ONLY <2>3 DEF Del, Ins
  <2> QED
    BY <1>6, <2>2, <2>3, <2>4 DEF c, stale, w
<1> QED
  BY <1>5, <1>6

\* CleanUpStaleMoves takes these steps.
LEMMA CleanedRuns ==
    ASSUME NEW b \in Builders
    PROVE  /\ CleanUpStaleMoves(b) = CleanedUp(b)[Len(b.moves)]
           /\ CleanedUp(b)[0] = [b EXCEPT !.moves = << >>]
           /\ \A k \in 1 .. Len(b.moves) : CleanedUp(b)[k] = LookAt(CleanedUp(b)[k - 1], b.moves[k])
           /\ \A k \in 0 .. Len(b.moves) : CleanedUp(b)[k] \in Builders
<1> DEFINE mv == b.moves
           n == Len(mv)
           V == Builders
           none == [b EXCEPT !.moves = << >>]
           step == [k \in 1 .. n |-> [u \in V |-> LookAt(u, mv[k])]]
<1>0. n \in Nat /\ \A k \in 1 .. n : mv[k] \in Moves
  BY BuilderIs
<1>1. step \in Steps(n, V)
  <2>1. ASSUME NEW k \in 1 .. n, NEW u \in V
        PROVE  LookAt(u, mv[k]) \in V
    BY <1>0, LookIs
  <2> HIDE DEF V, n, mv
  <2> QED
    BY <2>1 DEF Steps
<1>2. none \in V
  <2>1. << >> \in Seq(Moves)
    OBVIOUS
  <2> QED
    BY <2>1 DEF Builders
<1>c. CleanUpStaleMoves(b) = CleanedUp(b)[n]
  BY DEF CleanUpStaleMoves, CleanedUp, LookAt
<1> HIDE DEF n, V, step, none, mv
<1>l. PICK f : IsLoop(f, n, V, none, step)
  BY <1>0, <1>1, <1>2, LoopRuns
<1>3. f \in [0 .. n -> V] /\ f[0] = none /\ \A k \in 1 .. n : f[k] = step[k][f[k - 1]]
  BY <1>l DEF IsLoop
<1>4. ASSUME NEW k \in 0 .. n
      PROVE  f[k] = IF k = 0 THEN none ELSE LookAt(f[k - 1], mv[k])
  <2>1. CASE k = 0
    BY <1>3, <2>1
  <2>2. CASE k # 0
    <3>1. k \in 1 .. n /\ k - 1 \in 0 .. n
      BY <1>0, <2>2
    <3>2. f[k] = step[k][f[k - 1]] /\ f[k - 1] \in V
      BY <1>3, <3>1
    <3>3. f[k] = LookAt(f[k - 1], mv[k])
      BY <3>1, <3>2 DEF step
    <3> QED
      BY <2>2, <3>3
  <2> QED
    BY <2>1, <2>2
<1>5. f = [k \in 0 .. n |-> IF k = 0 THEN none ELSE LookAt(f[k - 1], mv[k])]
  BY <1>3, <1>4
<1> DEFINE p == CleanedUp(b)
<1>6. p = [k \in 0 .. n |-> IF k = 0 THEN none ELSE LookAt(p[k - 1], mv[k])]
  BY <1>5 DEF CleanedUp, n, none, mv
<1> HIDE DEF p
<1>7. p[0] = none /\ \A k \in 1 .. n : p[k] = LookAt(p[k - 1], mv[k])
  <2>1. \A k \in 0 .. n : p[k] = IF k = 0 THEN none ELSE LookAt(p[k - 1], mv[k])
    BY <1>6, Zenon
  <2>2. 0 \in 0 .. n /\ \A k \in 1 .. n : k \in 0 .. n /\ k # 0
    BY <1>0
  <2> QED
    BY <2>1, <2>2, Zenon
<1>8. \A k \in 0 .. n : p[k] \in Builders
  <2> DEFINE T == {k \in Nat : p[k] \in Builders}
  <2>1. 0 \in T
    BY <1>2, <1>7 DEF V
  <2>2. ASSUME NEW k \in 0 .. n - 1, k \in T
        PROVE  k + 1 \in T
    <3>1. k + 1 \in 1 .. n /\ (k + 1) - 1 = k /\ k + 1 \in Nat
      BY <1>0
    <3>3. p[k + 1] = LookAt(p[k], mv[k + 1])
      BY <1>7, <3>1
    <3>4. mv[k + 1] \in Moves /\ p[k] \in Builders
      BY <1>0, <2>2, <3>1
    <3>5. p[k + 1] \in Builders
      BY <3>3, <3>4, LookIs
    <3> QED
      BY ONLY <3>1, <3>5
  <2> HIDE DEF T
  <2>3. 0 .. n \subseteq T
    BY <1>0, <2>1, <2>2, UpTo
  <2> QED
    BY <2>3 DEF T
<1> QED
  BY <1>7, <1>8, <1>c DEF p, n, none, mv

\* After k moves were looked at: those kept are among them, and the others'
\* rows are still deleted and inserted.
CleanAt(mv, k, acc, old, new) ==
    /\ Places(Del(acc), Ins(acc), old, new)
    /\ Known(acc.moves, Del(acc), Ins(acc), old, new)
    /\ \A a \in 1 .. Len(acc.moves) : \E j \in 1 .. k : acc.moves[a] = mv[j]
    /\ \A j \in k + 1 .. Len(mv) : mv[j].from \in Del(acc) /\ mv[j].to \in Ins(acc)

\* One move looked at.
LEMMA CleanStep ==
    ASSUME NEW old \in Seq(Nat), NEW new \in Seq(Nat), NEW mv \in Seq(Moves), Apart(mv),
           \A j \in 1 .. Len(mv) : old[mv[j].from + 1] = new[mv[j].to + 1],
           NEW k \in 0 .. Len(mv) - 1, NEW p, p = k + 1, NEW acc \in Builders,
           CleanAt(mv, k, acc, old, new)
    PROVE  CleanAt(mv, p, LookAt(acc, mv[p]), old, new)
<1> DEFINE n == Len(mv)
           m == mv[p]
           c == LookAt(acc, m)
           D == Del(acc)
           I == Ins(acc)
           am == acc.moves
           stale == Rank(D, m.from) = Rank(I, m.to)
<1>0. n \in Nat /\ \A j \in 1 .. n : mv[j] \in Moves
  OBVIOUS
<1>k. k \in Nat /\ k < n /\ p \in 1 .. n /\ p \in Nat /\ p = k + 1 /\ p \in k + 1 .. n
  <2>1. k \in 0 .. n - 1
    OBVIOUS
  <2> HIDE DEF n
  <2> QED
    BY ONLY <1>0, <2>1, p = k + 1
<1>a. \A i, j \in 1 .. n : i # j => mv[i].from # mv[j].from /\ mv[i].to # mv[j].to
  BY DEF Apart
<1>1. /\ Places(D, I, old, new)
      /\ \A a \in 1 .. Len(am) : am[a].from \in D /\ am[a].to \in I /\ old[am[a].from + 1] = new[am[a].to + 1]
      /\ \A a \in 1 .. Len(am) : \E j \in 1 .. k : am[a] = mv[j]
      /\ \A j \in k + 1 .. n : mv[j].from \in D /\ mv[j].to \in I
  BY DEF CleanAt, Known
<1>2. am \in Seq(Moves)
  BY BuilderIs
<1>o. old[m.from + 1] = new[m.to + 1]
  BY <1>k
<1> HIDE DEF n
<1>m. m \in Moves /\ m.from \in D /\ m.to \in I
  BY <1>0, <1>1, <1>k
<1>3. /\ stale => /\ Del(c) = D \ {m.from} /\ Ins(c) = I \ {m.to} /\ c.moves = am
      /\ ~stale => Del(c) = D /\ Ins(c) = I /\ c.moves = Append(am, m)
  <2>1. acc \in Builders /\ m \in Moves
    BY <1>m
  <2> HIDE DEF m
  <2> QED
    BY ONLY <2>1, LookIs, Zenon
<1>4. ASSUME NEW i \in 1 .. n, i # p
      PROVE  mv[i].from # m.from /\ mv[i].to # m.to
  BY <1>4, <1>a, <1>k
<1>5. 1 .. k \subseteq 1 .. p /\ p + 1 .. n \subseteq k + 1 .. n /\ 1 .. k \subseteq 1 .. n
      /\ p + 1 .. n \subseteq 1 .. n /\ p \notin 1 .. k /\ p \notin p + 1 .. n /\ p \in 1 .. p
  BY ONLY <1>0, <1>k
<1> HIDE DEF c, m, D, I, am
<1>6. CASE stale
  <2> HIDE DEF stale
  <2>1. Del(c) = D \ {m.from} /\ Ins(c) = I \ {m.to} /\ c.moves = am
    BY <1>3, <1>6
  <2>2. Places(Del(c), Ins(c), old, new)
    <3>1. Rank(D, m.from) = Rank(I, m.to)
      BY <1>6 DEF stale
    <3> DEFINE x == m.from
               y == m.to
    <3>2. Places(D, I, old, new) /\ x \in D /\ y \in I /\ Rank(D, x) = Rank(I, y) /\ old[x + 1] = new[y + 1]
      BY <1>1, <1>m, <1>o, <3>1
    <3> HIDE DEF x, y
    <3>3. Places(D \ {x}, I \ {y}, old, new)
      BY <3>2, PlacesWithout
    <3> QED
      BY <2>1, <3>3 DEF x, y
  <2>3. Known(c.moves, Del(c), Ins(c), old, new)
    <3> SUFFICES ASSUME NEW a \in 1 .. Len(am)
                 PROVE  am[a].from \in D \ {m.from} /\ am[a].to \in I \ {m.to}
                        /\ old[am[a].from + 1] = new[am[a].to + 1]
      BY <2>1 DEF Known
    <3>1. PICK j \in 1 .. k : am[a] = mv[j]
      BY <1>1
    <3>2. j \in 1 .. n /\ j # p
      BY <1>5
    <3>3. mv[j].from # m.from /\ mv[j].to # m.to
      BY <1>4, <3>2
    <3> QED
      BY <1>1, <3>1, <3>3
  <2>4. \A a \in 1 .. Len(c.moves) : \E j \in 1 .. p : c.moves[a] = mv[j]
    BY <1>1, <1>5, <2>1
  <2>5. \A j \in p + 1 .. n : mv[j].from \in Del(c) /\ mv[j].to \in Ins(c)
    <3> TAKE j \in p + 1 .. n
    <3>1. j \in k + 1 .. n /\ j \in 1 .. n /\ j # p
      BY <1>5
    <3>2. mv[j].from # m.from /\ mv[j].to # m.to
      BY <1>4, <3>1
    <3> QED
      BY <1>1, <2>1, <3>1, <3>2
  <2>6. CleanAt(mv, p, c, old, new)
    BY ONLY <2>2, <2>3, <2>4, <2>5, Zenon DEF CleanAt, n
  <2> QED
    BY <2>6 DEF c, m
<1>7. CASE ~stale
  <2> HIDE DEF stale
  <2> DEFINE w == Append(am, m)
             L == Len(am)
  <2>1. Del(c) = D /\ Ins(c) = I /\ c.moves = w
    BY <1>3, <1>7
  <2>2. L \in Nat /\ Len(w) = L + 1 /\ w[L + 1] = m /\ \A a \in 1 .. L : w[a] = am[a]
    BY <1>2, <1>m
  <2> HIDE DEF w, L
  <2>3. \A a \in 1 .. L + 1 : a \in 1 .. L \/ a = L + 1
    BY <2>2
  <2>4. Known(w, D, I, old, new)
    <3> SUFFICES ASSUME NEW a \in 1 .. L + 1
                 PROVE  w[a].from \in D /\ w[a].to \in I /\ old[w[a].from + 1] = new[w[a].to + 1]
      BY <2>2 DEF Known
    <3>1. CASE a \in 1 .. L
      <4>1. w[a] = am[a] /\ a \in 1 .. Len(am)
        BY <2>2, <3>1 DEF L
      <4> QED
        BY ONLY <1>1, <4>1
    <3>2. CASE a = L + 1
      BY <1>m, <1>o, <2>2, <3>2
    <3> QED
      BY <2>3, <3>1, <3>2
  <2>5. \A a \in 1 .. Len(w) : \E j \in 1 .. p : w[a] = mv[j]
    <3> SUFFICES ASSUME NEW a \in 1 .. L + 1
                 PROVE  \E j \in 1 .. p : w[a] = mv[j]
      BY <2>2
    <3>1. CASE a \in 1 .. L
      BY <1>1, <1>5, <2>2, <3>1 DEF L
    <3>2. CASE a = L + 1
      BY <1>5, <2>2, <3>2 DEF m
    <3> QED
      BY <2>3, <3>1, <3>2
  <2>6. \A j \in p + 1 .. n : mv[j].from \in D /\ mv[j].to \in I
    BY <1>1, <1>5
  <2>7. CleanAt(mv, p, c, old, new)
    <3>1. /\ Places(Del(c), Ins(c), old, new) /\ Known(c.moves, Del(c), Ins(c), old, new)
          /\ \A a \in 1 .. Len(c.moves) : \E j \in 1 .. p : c.moves[a] = mv[j]
          /\ \A j \in p + 1 .. n : mv[j].from \in Del(c) /\ mv[j].to \in Ins(c)
      BY ONLY <1>1, <2>1, <2>4, <2>5, <2>6
    <3> QED
      BY ONLY <3>1, Zenon DEF CleanAt, n
  <2> QED
    BY <2>7 DEF c, m
<1> QED
  BY <1>6, <1>7

\* clean_up_stale_moves keeps what is known.
LEMMA CleanedIs ==
    ASSUME NEW b \in Builders, NEW old \in Seq(Nat), NEW new \in Seq(Nat),
           Places(Del(b), Ins(b), old, new), Known(b.moves, Del(b), Ins(b), old, new), Apart(b.moves)
    PROVE  LET c == CleanUpStaleMoves(b)
           IN  /\ c \in Builders /\ c.modifications = b.modifications
               /\ Places(Del(c), Ins(c), old, new) /\ Known(c.moves, Del(c), Ins(c), old, new)
<1> DEFINE mv == b.moves
           n == Len(mv)
           f == CleanedUp(b)
           T == {k \in Nat : k <= n => CleanAt(mv, k, f[k], old, new) /\ f[k].modifications = b.modifications}
<1>0. n \in Nat /\ mv \in Seq(Moves) /\ Apart(mv)
  BY BuilderIs
<1>f. /\ CleanUpStaleMoves(b) = f[n] /\ f[0] = [b EXCEPT !.moves = << >>]
      /\ \A k \in 1 .. n : f[k] = LookAt(f[k - 1], mv[k])
      /\ \A k \in 0 .. n : f[k] \in Builders
  BY CleanedRuns
<1>k. \A j \in 1 .. n : mv[j].from \in Del(b) /\ mv[j].to \in Ins(b) /\ old[mv[j].from + 1] = new[mv[j].to + 1]
  BY DEF Known
<1> HIDE DEF f
<1>1. 0 \in T
  <2> DEFINE c == f[0]
  <2>1. /\ c.deletions = b.deletions /\ c.insertions = b.insertions /\ c.moves = << >>
        /\ c.modifications = b.modifications
    BY <1>f DEF Builders
  <2> HIDE DEF c
  <2>2. Del(c) = Del(b) /\ Ins(c) = Ins(b)
    BY ONLY <2>1 DEF Del, Ins
  <2>3. Len(c.moves) = 0
    BY <2>1
  <2>4. 1 .. Len(c.moves) = {}
    BY <2>3
  <2>5. \A j \in 0 + 1 .. n : mv[j].from \in Del(c) /\ mv[j].to \in Ins(c)
    BY <1>k, <2>2
  <2>6. CleanAt(mv, 0, c, old, new)
    BY <2>2, <2>4, <2>5 DEF CleanAt, Known
  <2> QED
    BY <2>1, <2>6 DEF c
<1>2. ASSUME NEW k \in 0 .. n - 1, k \in T
      PROVE  k + 1 \in T
  <2> DEFINE p == k + 1
             acc == f[k]
             c == f[p]
  <2>1. k \in Nat /\ k <= n /\ p \in 1 .. n /\ p - 1 = k /\ p \in Nat /\ k \in 0 .. n
    BY <1>0
  <2>2. CleanAt(mv, k, acc, old, new) /\ acc.modifications = b.modifications /\ acc \in Builders
    BY <1>2, <1>f, <2>1
  <2>3. c = LookAt(acc, mv[p]) /\ mv[p] \in Moves
    BY <1>0, <1>f, <2>1
  <2>4. p = k + 1
    OBVIOUS
  <2> HIDE DEF p, acc, c
  <2>5. CleanAt(mv, p, c, old, new)
    <3>1. CleanAt(mv, p, LookAt(acc, mv[p]), old, new)
      BY <1>0, <1>k, <1>2, <2>2, <2>4, CleanStep
    <3> QED
      BY <2>3, <3>1
  <2>6. c.modifications = b.modifications
    BY <2>2, <2>3, LookIs
  <2> QED
    BY <2>1, <2>5, <2>6 DEF p, c
<1> HIDE DEF T
<1>3. 0 .. n \subseteq T
  BY ONLY <1>0, <1>1, <1>2, UpTo, Zenon
<1>4. CleanAt(mv, n, f[n], old, new) /\ f[n].modifications = b.modifications /\ f[n] \in Builders
  <2>1. n \in 0 .. n /\ n <= n
    BY <1>0
  <2>2. n \in T
    BY ONLY <1>3, <2>1
  <2>3. f[n] \in Builders
    BY ONLY <1>f, <2>1
  <2> QED
    BY ONLY <2>1, <2>2, <2>3 DEF T
<1> QED
  BY <1>4, <1>f DEF CleanAt

-----------------------------------------------------------------------------
(* parse_complete.                                                         *)

(* The ranges without those of another set.                                *)
LessThose(s, v) ==
    CHOOSE f : f = [k \in 0 .. Len(v) |-> IF k = 0 THEN s ELSE RemoveRange(f[k - 1], v[k][1], v[k][2])]

\* remove of a whole set.
LEMMA RemoveIndexesIs ==
    ASSUME NEW s \in Ranges, NEW v \in Ranges
    PROVE  RemoveIndexes(s, v) \in Ranges /\ Members(RemoveIndexes(s, v)) = Members(s) \ Members(v)
<1> DEFINE n == Len(v)
           step == [k \in 1 .. n |-> [u \in Ranges |-> RemoveRange(u, v[k][1], v[k][2])]]
<1>0. n \in Nat /\ \A k \in 1 .. n : v[k][1] \in Nat /\ v[k][2] \in Nat /\ v[k][1] < v[k][2]
  BY RangesAre
<1>1. step \in Steps(n, Ranges)
  <2>1. ASSUME NEW k \in 1 .. n, NEW u \in Ranges
        PROVE  RemoveRange(u, v[k][1], v[k][2]) \in Ranges
    BY <1>0, RemoveRangeIs
  <2> HIDE DEF n
  <2> QED
    BY <2>1 DEF Steps
<1>c. RemoveIndexes(s, v) = LessThose(s, v)[n]
  BY DEF RemoveIndexes, LessThose
<1>d. /\ Prefix(v, 0) = {} /\ Prefix(v, n) = Members(v)
      /\ \A k \in 1 .. n : Prefix(v, k) = Prefix(v, k - 1) \cup Held(v, k)
  BY PrefixIs
<1>h. \A k \in 1 .. n : \A z \in Nat : z \in Held(v, k) <=> v[k][1] <= z /\ z < v[k][2]
  BY <1>0 DEF Held
<1> HIDE DEF n, step
<1>l. PICK f : IsLoop(f, n, Ranges, s, step)
  BY <1>0, <1>1, LoopRuns
<1>3. f \in [0 .. n -> Ranges] /\ f[0] = s /\ \A k \in 1 .. n : f[k] = step[k][f[k - 1]]
  BY <1>l DEF IsLoop
<1>4. ASSUME NEW k \in 0 .. n
      PROVE  f[k] = IF k = 0 THEN s ELSE RemoveRange(f[k - 1], v[k][1], v[k][2])
  <2>1. CASE k = 0
    BY <1>3, <2>1
  <2>2. CASE k # 0
    <3>1. k \in 1 .. n /\ k - 1 \in 0 .. n
      BY <1>0, <2>2
    <3>2. f[k] = step[k][f[k - 1]] /\ f[k - 1] \in Ranges
      BY <1>3, <3>1
    <3>3. f[k] = RemoveRange(f[k - 1], v[k][1], v[k][2])
      BY <3>1, <3>2 DEF step
    <3> QED
      BY <2>2, <3>3
  <2> QED
    BY <2>1, <2>2
<1>5. f = [k \in 0 .. n |-> IF k = 0 THEN s ELSE RemoveRange(f[k - 1], v[k][1], v[k][2])]
  BY <1>3, <1>4
<1> DEFINE p == LessThose(s, v)
<1>6. p = [k \in 0 .. n |-> IF k = 0 THEN s ELSE RemoveRange(p[k - 1], v[k][1], v[k][2])]
  BY <1>5 DEF LessThose, n
<1> HIDE DEF p
<1>7. p[0] = s /\ \A k \in 1 .. n : p[k] = RemoveRange(p[k - 1], v[k][1], v[k][2])
  <2>1. \A k \in 0 .. n : p[k] = IF k = 0 THEN s ELSE RemoveRange(p[k - 1], v[k][1], v[k][2])
    BY <1>6, Zenon
  <2>2. 0 \in 0 .. n /\ \A k \in 1 .. n : k \in 0 .. n /\ k # 0
    BY <1>0
  <2> QED
    BY <2>1, <2>2, Zenon
<1> DEFINE Done(k) == p[k] \in Ranges /\ \A z \in Nat : z \in Members(p[k]) <=> z \in Members(s) /\ z \notin Prefix(v, k)
           T == {k \in Nat : Done(k)}
<1>8. 0 .. n \subseteq T
  <2>1. 0 \in T
    BY <1>7, <1>d
  <2>2. ASSUME NEW k \in 0 .. n - 1, k \in T
        PROVE  k + 1 \in T
    <3> DEFINE q == k + 1
               a == v[q][1]
               b == v[q][2]
    <3>1. q \in 1 .. n /\ q - 1 = k /\ q \in Nat
      BY <1>0
    <3>2. Done(k)
      BY <2>2
    <3>3. a \in Nat /\ b \in Nat /\ a < b /\ p[q] = RemoveRange(p[k], a, b)
          /\ Prefix(v, q) = Prefix(v, k) \cup Held(v, q)
          /\ \A z \in Nat : z \in Held(v, q) <=> a <= z /\ z < b
      BY <1>0, <1>7, <1>d, <1>h, <3>1
    <3> HIDE DEF q, a, b
    <3>4. p[k] \in Ranges
      BY <3>2
    <3>5. /\ p[q] \in Ranges
          /\ \A z \in Nat : z \in Members(p[q]) <=> z \in Members(p[k]) /\ ~(a <= z /\ z < b)
      BY ONLY <3>3, <3>4, RemoveRangeIs
    <3>6. Done(q)
      BY <3>2, <3>3, <3>5
    <3> QED
      BY <3>1, <3>6 DEF q
  <2> HIDE DEF T
  <2> QED
    BY ONLY <1>0, <2>1, <2>2, UpTo, Zenon
<1>9. Done(n)
  BY <1>0, <1>8
<1>10. Members(p[n]) \subseteq Nat /\ Members(s) \subseteq Nat
  BY <1>9, InMembers
<1>11. Members(p[n]) = Members(s) \ Members(v)
  BY <1>9, <1>10, <1>d
<1> QED
  BY <1>9, <1>11, <1>c DEF p

\* How many members of S are less.
Fewer(S, o) == Cardinality({x \in S : x < o})

\* The elements of a finite set of numbers have a first, a second and so on.
LEMMA NthOf ==
    ASSUME NEW n \in Nat, NEW S \in SUBSET (0 .. n)
    PROVE  /\ IsFiniteSet(S) /\ Cardinality(S) \in Nat
           /\ \A o \in S : Fewer(S, o) \in Nat /\ Fewer(S, o) < Cardinality(S)
           /\ \A o, u \in S : Fewer(S, o) = Fewer(S, u) => o = u
           /\ \A i \in Nat : i < Cardinality(S) => \E o \in S : Fewer(S, o) = i
<1> DEFINE T == (0 .. n) \ S
           N == Cardinality(S)
<1>0. IsFiniteSet(S) /\ N \in Nat
  <2>1. IsFiniteSet(0 .. n)
    BY FS_Interval
  <2> QED
    BY <2>1, FS_Subset, FS_CardinalityType
<1>1. ASSUME NEW o \in 0 .. n + 1
      PROVE  Rank(T, o) = Fewer(S, o)
  <2>2. o \in Nat /\ o <= n + 1 /\ \A x \in S : x \in Nat /\ x <= n
    OBVIOUS
  <2>3. \A y \in 0 .. o - 1 : y \in 0 .. n /\ y < o
    BY ONLY n \in Nat, <2>2
  <2>4. \A x \in S : x < o => x \in 0 .. o - 1
    BY ONLY <2>2
  <2>5. \A x \in S : x \in 0 .. n
    OBVIOUS
  <2>1. {y \in 0 .. o - 1 : y \notin T} = {x \in S : x < o}
    BY ONLY <2>3, <2>4, <2>5 DEF T
  <2> QED
    BY <2>1 DEF Rank, Fewer
<1>2. Rank(T, n + 1) = N
  <2>2. \A x \in S : x < n + 1
    OBVIOUS
  <2>1. {x \in S : x < n + 1} = S
    BY ONLY <2>2
  <2> QED
    BY <1>1, <2>1 DEF Fewer
<1>3. T \subseteq 0 .. n /\ \A o \in S : o \in Nat /\ o \in 0 .. n + 1 /\ o < n + 1 /\ o \notin T
  OBVIOUS
<1>7. \A z \in Nat : z \in 0 .. n => z \in S \/ z \in T
  OBVIOUS
<1> HIDE DEF T, N
<1>4. ASSUME NEW o \in S
      PROVE  Fewer(S, o) \in Nat /\ Fewer(S, o) < N
  <2>1. Rank(T, o) \in Nat /\ Rank(T, o) < Rank(T, n + 1)
    <3>1. o \in Nat /\ n + 1 \in Nat /\ o <= n + 1 /\ o < n + 1 /\ o \notin T
      BY <1>3
    <3> QED
      BY ONLY <3>1, RankGrows
  <2> QED
    BY <1>1, <1>2, <1>3, <2>1
<1>5. ASSUME NEW o \in S, NEW u \in S, Fewer(S, o) = Fewer(S, u)
      PROVE  o = u
  <2>1. Rank(T, o) = Rank(T, u)
    BY <1>1, <1>3, <1>5
  <2> QED
    BY <1>3, <2>1, OneOfRank
<1>6. ASSUME NEW i \in Nat, i < N
      PROVE  \E o \in S : Fewer(S, o) = i
  <2> DEFINE r == FromIndexes(T)
             z == ShiftIndex(r, i)
  <2>1. r \in Ranges /\ Members(r) = T
    BY <1>3, FromIndexesIs
  <2>2. z \in Nat /\ z \notin T /\ Rank(T, z) = i
    BY <2>1, ShiftIs
  <2> HIDE DEF r, z
  <2>3. ~(n + 1 <= z)
    <3>1. SUFFICES ASSUME n + 1 <= z PROVE FALSE
      OBVIOUS
    <3>2. n + 1 \in Nat
      OBVIOUS
    <3>3. Rank(T, n + 1) <= Rank(T, z)
      BY ONLY <2>2, <3>1, <3>2, RankGrows
    <3> QED
      BY ONLY <1>0, <1>2, <1>6, <2>2, <3>3, i \in Nat
  <2>4. z \in 0 .. n /\ z \in 0 .. n + 1
    BY <2>2, <2>3
  <2>5. z \in S
    BY <1>7, <2>2, <2>4
  <2>6. Fewer(S, z) = i
    BY <1>1, <2>2, <2>4
  <2> QED
    BY <2>5, <2>6
<1> QED
  BY <1>0, <1>4, <1>5, <1>6 DEF N

\* The rows of the mapping that are back under their old number.
Staying(b) == {x \in DOMAIN b.mapping : b.mapping[x] = x}

\* parse_complete: a move for every row under another number, and no
\* deletion or insertion of the others.
LEMMA ParsedIs ==
    ASSUME NEW b \in Builders, NEW n \in Nat,
           \A x \in DOMAIN b.mapping : x \in 0 .. n /\ b.mapping[x] \in 0 .. n,
           \A x, y \in DOMAIN b.mapping : b.mapping[x] = b.mapping[y] => x = y
    PROVE  LET c == ParseComplete(b)
           IN  /\ c.modifications = b.modifications
               /\ c.deletions \in Ranges /\ c.insertions \in Ranges
               /\ Del(c) = Del(b) \ Staying(b) /\ Ins(c) = Ins(b) \ Staying(b)
               /\ Len(c.moves) \in Nat /\ DOMAIN c.moves = 1 .. Len(c.moves)
               /\ \A k \in DOMAIN c.moves : /\ c.moves[k].to \in DOMAIN b.mapping \ Staying(b)
                                            /\ c.moves[k].from = b.mapping[c.moves[k].to]
               /\ \A x \in DOMAIN b.mapping \ Staying(b) :
                    \E k \in DOMAIN c.moves : c.moves[k].from = b.mapping[x]
<1> DEFINE f == b.mapping
           Stay == Staying(b)
           origins == {f[x] : x \in DOMAIN f \ Stay}
           N == Cardinality(origins)
           Origin(i) == CHOOSE o \in origins : Cardinality({p \in origins : p < o}) = i - 1
           To(o) == CHOOSE x \in DOMAIN f : f[x] = o
           mv == [i \in 1 .. N |-> [from |-> Origin(i), to |-> To(Origin(i))]]
           gone == FromIndexes(Stay)
           del == RemoveIndexes(b.deletions, gone)
           ins == RemoveIndexes(b.insertions, gone)
           c == ParseComplete(b)
<1>0. b.deletions \in Ranges /\ b.insertions \in Ranges
  BY BuilderIs
<1>1. c = [b EXCEPT !.deletions = RemoveIndexes(@, gone), !.insertions = RemoveIndexes(@, gone),
                    !.moves = mv, !.mapping = << >>]
  BY DEF ParseComplete, Staying
<1>2. gone \in Ranges /\ Members(gone) = Stay
  <2>1. Stay \in SUBSET (0 .. n)
    BY DEF Staying
  <2> HIDE DEF Stay
  <2> QED
    BY <2>1, FromIndexesIs
<1> HIDE DEF gone
<1>3. /\ del \in Ranges /\ Members(del) = Del(b) \ Stay
      /\ ins \in Ranges /\ Members(ins) = Ins(b) \ Stay
  BY <1>0, <1>2, RemoveIndexesIs DEF Del, Ins
<1>4. /\ IsFiniteSet(origins) /\ N \in Nat
      /\ \A o \in origins : Fewer(origins, o) \in Nat /\ Fewer(origins, o) < N
      /\ \A o, u \in origins : Fewer(origins, o) = Fewer(origins, u) => o = u
      /\ \A i \in Nat : i < N => \E o \in origins : Fewer(origins, o) = i
  <2>1. origins \in SUBSET (0 .. n)
    OBVIOUS
  <2> HIDE DEF origins
  <2> QED
    BY <2>1, NthOf
<1>5. \A o \in origins : \E x \in DOMAIN f \ Stay : f[x] = o
  OBVIOUS
<1>6. \A x \in DOMAIN f \ Stay : f[x] \in origins
  OBVIOUS
<1>i. \A x, y \in DOMAIN f : f[x] = f[y] => x = y
  OBVIOUS
<1>c. /\ c.modifications = b.modifications /\ c.deletions = del /\ c.insertions = ins /\ c.moves = mv
  <2>1. /\ c.modifications = b.modifications /\ c.moves = mv
        /\ c.deletions = RemoveIndexes(b.deletions, gone) /\ c.insertions = RemoveIndexes(b.insertions, gone)
    <3> HIDE DEF c, mv
    <3> QED
      BY <1>1 DEF Builders
  <2> QED
    BY <2>1
<1> HIDE DEF origins, N, Stay, f, del, ins, c
<1>7. ASSUME NEW o \in origins
      PROVE  To(o) \in DOMAIN f \ Stay /\ f[To(o)] = o
  <2>1. PICK x \in DOMAIN f \ Stay : f[x] = o
    BY <1>5
  <2>2. To(o) \in DOMAIN f /\ f[To(o)] = o
    BY <2>1
  <2>3. To(o) = x
    BY <1>i, <2>1, <2>2
  <2> QED
    BY <2>1, <2>2, <2>3
<1>8. ASSUME NEW i \in 1 .. N
      PROVE  Origin(i) \in origins /\ Fewer(origins, Origin(i)) = i - 1
  <2>1. i - 1 \in Nat /\ i - 1 < N
    BY <1>4
  <2>2. PICK o \in origins : Fewer(origins, o) = i - 1
    BY <1>4, <2>1
  <2> QED
    BY <2>2 DEF Fewer
<1>9. ASSUME NEW o \in origins
      PROVE  \E i \in 1 .. N : Origin(i) = o
  <2> DEFINE q == Fewer(origins, o)
             i == q + 1
  <2>0. q \in Nat /\ q < N
    BY <1>4
  <2> HIDE DEF q
  <2>1. i \in 1 .. N /\ i - 1 = q
    BY ONLY <1>4, <2>0
  <2> HIDE DEF i
  <2>2. Origin(i) \in origins /\ Fewer(origins, Origin(i)) = i - 1
    BY <1>8, <2>1
  <2>3. Origin(i) = o
    BY <1>4, <2>1, <2>2 DEF q
  <2> QED
    BY <2>1, <2>3
<1> HIDE DEF Origin, To
<1>10. /\ DOMAIN mv = 1 .. N /\ Len(mv) = N
       /\ \A k \in 1 .. N : mv[k].from = Origin(k) /\ mv[k].to = To(Origin(k))
  <2> DEFINE e(k) == [from |-> Origin(k), to |-> To(Origin(k))]
  <2>1. mv = [k \in 1 .. N |-> e(k)]
    OBVIOUS
  <2>2. \A k \in 1 .. N : e(k).from = Origin(k) /\ e(k).to = To(Origin(k))
    OBVIOUS
  <2> HIDE DEF e, mv
  <2>3. DOMAIN mv = 1 .. N /\ \A k \in 1 .. N : mv[k] = e(k)
    BY <2>1
  <2>4. Len(mv) = N
    <3> DEFINE S == {e(k) : k \in 1 .. N}
    <3>1. mv \in Seq(S)
      <4>1. \A k \in 1 .. N : e(k) \in S
        OBVIOUS
      <4> HIDE DEF S
      <4> QED
        BY <1>4, <2>1, <4>1
    <3> HIDE DEF S
    <3> QED
      BY <1>4, <2>3, <3>1
  <2> QED
    BY <2>2, <2>3, <2>4
<1> HIDE DEF mv
<1>11. /\ Len(c.moves) \in Nat /\ DOMAIN c.moves = 1 .. Len(c.moves)
  BY ONLY <1>4, <1>10, <1>c
<1>12. ASSUME NEW k \in DOMAIN c.moves
       PROVE  /\ c.moves[k].to \in DOMAIN f \ Stay /\ c.moves[k].from = f[c.moves[k].to]
  <2>1. k \in 1 .. N /\ c.moves = mv
    BY <1>10, <1>c
  <2>2. mv[k].from = Origin(k) /\ mv[k].to = To(Origin(k)) /\ Origin(k) \in origins
    BY <1>8, <1>10, <2>1
  <2>3. To(Origin(k)) \in DOMAIN f \ Stay /\ f[To(Origin(k))] = Origin(k)
    BY <1>7, <2>2
  <2> QED
    BY <2>1, <2>2, <2>3
<1>13. ASSUME NEW x \in DOMAIN f \ Stay
       PROVE  \E k \in DOMAIN c.moves : c.moves[k].from = f[x]
  <2>1. PICK k \in 1 .. N : Origin(k) = f[x]
    BY <1>6, <1>9
  <2>2. k \in DOMAIN c.moves /\ c.moves[k].from = Origin(k)
    BY <1>10, <1>c
  <2> QED
    BY <2>1, <2>2
<1>14. Del(c) = Del(b) \ Stay /\ Ins(c) = Ins(b) \ Stay
  BY <1>3, <1>c DEF Del, Ins
<1> QED
  BY <1>3, <1>11, <1>12, <1>13, <1>14, <1>c DEF f, Stay, c

-----------------------------------------------------------------------------
(* The changes of a table at the end of its log.                           *)

NoRepeats(s) == \A i, j \in 1 .. Len(s) : s[i] = s[j] => i = j

\* The position of a row that occurs once.
LEMMA PosInIs ==
    ASSUME NEW s \in Seq(Nat), NoRepeats(s), NEW p \in 1 .. Len(s), NEW row, row = s[p]
    PROVE  PosIn(s, row) = p - 1 /\ row \in ToSet(s)
<1> DEFINE q == CHOOSE i \in DOMAIN s : s[i] = row
<1>1. DOMAIN s = 1 .. Len(s)
  OBVIOUS
<1>2. q \in DOMAIN s /\ s[q] = row
  BY <1>1
<1>3. q = p
  BY <1>1, <1>2 DEF NoRepeats
<1> QED
  BY <1>1, <1>3 DEF PosIn, ToSet

\* The rows of a sequence.
LEMMA ToSetIs ==
    ASSUME NEW s \in Seq(Nat)
    PROVE  \A row : row \in ToSet(s) <=> \E p \in 1 .. Len(s) : s[p] = row
  BY DEF ToSet

\* Positions that are all in the set do not count.
LEMMA RankFull ==
    ASSUME NEW S, NEW x \in Nat, NEW y \in Nat, x <= y, \A z \in x .. y - 1 : z \in S
    PROVE  Rank(S, y) = Rank(S, x)
<1>1. {z \in 0 .. y - 1 : z \notin S} = {z \in 0 .. x - 1 : z \notin S}
  OBVIOUS
<1> QED
  BY <1>1 DEF Rank


(***************************************************************************)
(* Two changes merged: the mate of a position, what add_shifted_by and     *)
(* insert_at hold in terms of mates, and that positions correspond through *)
(* both changes when they do through each (PlacesMerged).                  *)
(***************************************************************************)

\* The members of a set of ranges have a bound.
LEMMA BoundIs ==
    ASSUME NEW s \in Ranges
    PROVE  \E n \in Nat : Members(s) \subseteq 0 .. n
<1>1. CASE Len(s) = 0
  <2>1. Members(s) = {}
    BY <1>1, RangesAre, InMembers
  <2> QED
    BY <2>1
<1>2. CASE Len(s) # 0
  <2> DEFINE n == s[Len(s)][2]
  <2>1. Len(s) \in 1 .. Len(s) /\ n \in Nat
    BY <1>2, RangesAre
  <2>2. ASSUME NEW y \in Members(s) PROVE y \in 0 .. n
    <3>1. y \in Nat /\ \E i \in 1 .. Len(s) : s[i][1] <= y /\ y < s[i][2]
      BY InMembers
    <3>2. PICK i \in 1 .. Len(s) : s[i][1] <= y /\ y < s[i][2]
      BY <3>1
    <3>3. i = Len(s) \/ i < Len(s)
      BY RangesAre
    <3>4. i < Len(s) => s[i][2] < s[Len(s)][1] /\ s[Len(s)][1] < s[Len(s)][2]
      BY <2>1, RangesAre
    <3>5. s[i][2] \in Nat /\ s[Len(s)][1] \in Nat
      BY <2>1, RangesAre
    <3> QED
      BY <3>1, <3>2, <3>3, <3>4, <3>5, <2>1
  <2> QED
    BY <2>1, <2>2
<1> QED
  BY <1>1, <1>2

\* The ranges of a set of numbers that has a bound.
Bounded(S) == \E n \in Nat : S \subseteq 0 .. n

\* The ranges made of a bounded set hold that set.
LEMMA BoundedIs ==
    ASSUME NEW S, Bounded(S)
    PROVE  FromIndexes(S) \in Ranges /\ Members(FromIndexes(S)) = S
<1>1. PICK n \in Nat : S \subseteq 0 .. n
  BY DEF Bounded
<1> QED
  BY <1>1, FromIndexesIs

\* Two bounded sets are bounded together.
LEMMA BoundedTogether ==
    ASSUME NEW S, NEW T, Bounded(S), Bounded(T)
    PROVE  Bounded(S \cup T)
<1>1. PICK n \in Nat : S \subseteq 0 .. n
  BY DEF Bounded
<1>2. PICK m \in Nat : T \subseteq 0 .. m
  BY DEF Bounded
<1>3. S \cup T \subseteq 0 .. n + m
  BY <1>1, <1>2
<1> QED
  BY <1>3 DEF Bounded

\* Counted without the set, no number grows ...
LEMMA BoundedUnshifted ==
    ASSUME NEW v \in Ranges, NEW S \in SUBSET Nat, Bounded(S)
    PROVE  Bounded({UnshiftIndex(v, x) : x \in S})
<1>1. PICK n \in Nat : S \subseteq 0 .. n
  BY DEF Bounded
<1>2. ASSUME NEW x \in S PROVE UnshiftIndex(v, x) \in 0 .. n
  <2>1. x \in Nat /\ x <= n
    BY <1>1
  <2>2. UnshiftIndex(v, x) = Rank(Members(v), x) /\ UnshiftIndex(v, x) \in Nat
    BY <2>1, UnshiftIs
  <2>3. Rank(Members(v), 0) = 0 /\ Rank(Members(v), x) - Rank(Members(v), 0) <= x - 0
    BY <2>1, RankSteps, RankGrows
  <2> QED
    BY <2>1, <2>2, <2>3
<1> QED
  BY <1>2 DEF Bounded

\* ... and counted with it, none exceeds its number by more than the set's
\* bound.
LEMMA BoundedShifted ==
    ASSUME NEW v \in Ranges, NEW S \in SUBSET Nat, Bounded(S)
    PROVE  Bounded({ShiftIndex(v, x) : x \in S})
<1>1. PICK n \in Nat : S \subseteq 0 .. n
  BY DEF Bounded
<1>2. PICK m \in Nat : Members(v) \subseteq 0 .. m
  BY BoundIs
<1> DEFINE k == n + m
<1>3. ASSUME NEW x \in S PROVE ShiftIndex(v, x) \in 0 .. 2 * k + 4
  <2>1. x \in 0 .. k + 2 /\ x \in Nat
    BY <1>1, <1>2
  <2>2. Members(v) \in SUBSET (0 .. k + 1)
    BY <1>2, <1>1
  <2>3. IsFree(Members(v), ShiftIndex(v, x), x)
    BY <2>1, ShiftIndexIs
  <2>4. k \in Nat
    BY <1>1, <1>2
  <2> HIDE DEF k
  <2> QED
    BY <2>1, <2>2, <2>3, <2>4, FreeBound
<1>4. 2 * k + 4 \in Nat
  BY <1>1, <1>2
<1> QED
  BY <1>3, <1>4 DEF Bounded

\* What ranges hold is bounded.
LEMMA MembersBounded ==
    ASSUME NEW s \in Ranges
    PROVE  Members(s) \in SUBSET Nat /\ Bounded(Members(s))
  BY BoundIs, InMembers DEF Bounded

\* A part of a bounded set is bounded.
LEMMA BoundedPart ==
    ASSUME NEW S, NEW T, Bounded(S), T \subseteq S
    PROVE  Bounded(T)
  BY DEF Bounded

\* Two numbers outside of two sets correspond if as many before the one as
\* before the other are outside.
Mates(A, B, x, y) == x \in Nat /\ y \in Nat /\ x \notin A /\ y \notin B /\ Rank(A, x) = Rank(B, y)

\* unshift by one set, then shift by another: the mate of a position.
LEMMA MateShifted ==
    ASSUME NEW a \in Ranges, NEW b \in Ranges, NEW x \in Nat, x \notin Members(a), NEW y
    PROVE  y = ShiftIndex(b, UnshiftIndex(a, x)) <=> Mates(Members(a), Members(b), x, y)
<1> DEFINE z == ShiftIndex(b, UnshiftIndex(a, x))
<1>1. UnshiftIndex(a, x) = Rank(Members(a), x) /\ UnshiftIndex(a, x) \in Nat
  BY UnshiftIs
<1>2. z \in Nat /\ z \notin Members(b) /\ Rank(Members(b), z) = Rank(Members(a), x)
  BY <1>1, ShiftIs
<1>3. ASSUME y = z PROVE Mates(Members(a), Members(b), x, y)
  BY <1>2, <1>3 DEF Mates
<1>4. ASSUME Mates(Members(a), Members(b), x, y) PROVE y = z
  <2>1. y \in Nat /\ y \notin Members(b) /\ Rank(Members(b), y) = Rank(Members(b), z)
    BY <1>2, <1>4 DEF Mates
  <2> QED
    BY <2>1, <1>2, OneOfRank
<1> QED
  BY <1>3, <1>4

\* add of a whole set is the union.
LEMMA AddIndexesIs ==
    ASSUME NEW s \in Ranges, NEW t \in Ranges
    PROVE  AddIndexes(s, t) \in Ranges /\ Members(AddIndexes(s, t)) = Members(s) \cup Members(t)
  BY MembersBounded, BoundedTogether, BoundedIs DEF AddIndexes

\* What merge does to the deletions: those of the second change set that
\* were there before the first are added.
LEMMA AddShiftedByIs ==
    ASSUME NEW s \in Ranges, NEW i \in Ranges, NEW v \in Ranges
    PROVE  LET d == AddShiftedBy(s, i, v)
           IN  /\ d \in Ranges
               /\ \A x : x \in Members(d) <=>
                    x \in Members(s) \/ \E y \in Members(v) : Mates(Members(i), Members(s), y, x)
<1> DEFINE T == Members(v) \ Members(i)
           U == {UnshiftIndex(i, y) : y \in T}
           W == {ShiftIndex(s, u) : u \in U}
<1>1. T \in SUBSET Nat /\ Bounded(T)
  BY MembersBounded, BoundedPart
<1>2. Bounded(U) /\ U \in SUBSET Nat
  <2>1. \A y \in T : UnshiftIndex(i, y) \in Nat
    BY <1>1, UnshiftIs
  <2> QED
    BY <1>1, <2>1, BoundedUnshifted
<1>3. Bounded(W)
  BY <1>2, BoundedShifted
<1>4. W = {ShiftIndex(s, UnshiftIndex(i, y)) : y \in T}
  OBVIOUS
<1>5. AddShiftedBy(s, i, v) = FromIndexes(Members(s) \cup W)
  BY <1>4 DEF AddShiftedBy
<1>6. AddShiftedBy(s, i, v) \in Ranges /\ Members(AddShiftedBy(s, i, v)) = Members(s) \cup W
  BY <1>3, <1>5, MembersBounded, BoundedTogether, BoundedIs
<1>7. ASSUME NEW x PROVE x \in W <=> \E y \in Members(v) : Mates(Members(i), Members(s), y, x)
  <2>1. ASSUME NEW y \in T PROVE x = ShiftIndex(s, UnshiftIndex(i, y)) <=> Mates(Members(i), Members(s), y, x)
    BY <1>1, MateShifted
  <2>2. ASSUME NEW y \in Members(v), Mates(Members(i), Members(s), y, x) PROVE y \in T
    BY <2>2 DEF Mates
  <2> QED
    BY <1>4, <2>1, <2>2
<1> HIDE DEF W
<1> QED
  BY <1>6, <1>7

\* What is left of the insertions: those that are deleted go, the others
\* have the number that the deletions and the new insertions give them.
LEMMA InsertIndexesIs ==
    ASSUME NEW s \in Ranges, NEW d \in Ranges, NEW i \in Ranges
    PROVE  LET t == InsertIndexes(EraseIndexes(s, d), i)
               k == ShiftForInserts(EraseIndexes(s, d), i)
           IN  /\ t \in Ranges /\ k \in Ranges
               /\ \A y : y \in Members(t) <=>
                    y \in Members(i) \/ \E x \in Members(s) : Mates(Members(d), Members(i), x, y)
               /\ \A y : y \in Members(k) <=> \E x \in Members(s) : Mates(Members(d), Members(i), x, y)
<1> DEFINE T == Members(s) \ Members(d)
           U == {UnshiftIndex(d, y) : y \in T}
           W == {ShiftIndex(i, u) : u \in U}
<1>1. T \in SUBSET Nat /\ Bounded(T)
  BY MembersBounded, BoundedPart
<1>2. Bounded(U) /\ U \in SUBSET Nat
  <2>1. \A y \in T : UnshiftIndex(d, y) \in Nat
    BY <1>1, UnshiftIs
  <2> QED
    BY <1>1, <2>1, BoundedUnshifted
<1>3. Bounded(W)
  BY <1>2, BoundedShifted
<1>4. W = {ShiftIndex(i, UnshiftIndex(d, y)) : y \in T}
  OBVIOUS
<1>5. EraseIndexes(s, d) = FromIndexes(U)
  BY DEF EraseIndexes
<1>6. Members(EraseIndexes(s, d)) = U
  BY <1>2, <1>5, BoundedIs
<1>7. /\ InsertIndexes(EraseIndexes(s, d), i) = FromIndexes(Members(i) \cup W)
      /\ ShiftForInserts(EraseIndexes(s, d), i) = FromIndexes(W)
  BY <1>6 DEF InsertIndexes, ShiftForInserts
<1>8. /\ InsertIndexes(EraseIndexes(s, d), i) \in Ranges
      /\ Members(InsertIndexes(EraseIndexes(s, d), i)) = Members(i) \cup W
  BY <1>3, <1>7, MembersBounded, BoundedTogether, BoundedIs
<1>9. /\ ShiftForInserts(EraseIndexes(s, d), i) \in Ranges
      /\ Members(ShiftForInserts(EraseIndexes(s, d), i)) = W
  BY <1>3, <1>7, BoundedIs
<1>10. ASSUME NEW y PROVE y \in W <=> \E x \in Members(s) : Mates(Members(d), Members(i), x, y)
  <2>1. ASSUME NEW x \in T PROVE y = ShiftIndex(i, UnshiftIndex(d, x)) <=> Mates(Members(d), Members(i), x, y)
    BY <1>1, MateShifted
  <2>2. ASSUME NEW x \in Members(s), Mates(Members(d), Members(i), x, y) PROVE x \in T
    BY <2>2 DEF Mates
  <2> QED
    BY <1>4, <2>1, <2>2
<1> HIDE DEF W
<1> QED
  BY <1>8, <1>9, <1>10

\* As many positions are outside two sets before positions that correspond,
\* also when positions that correspond are taken out of both.
Pulled(A, B, C, E) == \A x : x \in E <=> x \in A \/ \E v \in C : Mates(A, B, x, v)
\* Positions of the same number in the first change have the same number after both.
MateRanks(A, B, C, E, x, v) == Rank(A, x) = Rank(B, v) => Rank(E, x) = Rank(B \cup C, v)
\* ... for all positions whose sum is at most n.
RanksUpTo(A, B, C, E, n) == \A x, v \in Nat : x + v <= n => MateRanks(A, B, C, E, x, v)

\* A position has at most one mate, and mates are mates both ways.
LEMMA MatesOne ==
    ASSUME NEW A, NEW B, NEW x, NEW y, NEW z
    PROVE  /\ Mates(A, B, x, y) /\ Mates(A, B, x, z) => y = z
           /\ Mates(A, B, y, x) /\ Mates(A, B, z, x) => y = z
           /\ Mates(A, B, x, y) <=> Mates(B, A, y, x)
<1>1. ASSUME Mates(A, B, x, y), Mates(A, B, x, z) PROVE y = z
  <2>1. y \in Nat /\ z \in Nat /\ y \notin B /\ z \notin B /\ Rank(B, y) = Rank(B, z)
    BY <1>1 DEF Mates
  <2> QED
    BY <2>1, OneOfRank
<1>2. ASSUME Mates(A, B, y, x), Mates(A, B, z, x) PROVE y = z
  <2>1. y \in Nat /\ z \in Nat /\ y \notin A /\ z \notin A /\ Rank(A, y) = Rank(A, z)
    BY <1>2 DEF Mates
  <2> QED
    BY <2>1, OneOfRank
<1>3. Mates(A, B, x, y) <=> Mates(B, A, y, x)
  BY DEF Mates
<1> QED
  BY <1>1, <1>2, <1>3

\* What Rank counts, from one position to the next.
Counts(S) ==
    /\ Rank(S, 0) = 0
    /\ \A y \in Nat : Rank(S, y) \in Nat
    /\ \A y \in Nat : Rank(S, y + 1) = IF y \in S THEN Rank(S, y) ELSE Rank(S, y) + 1

\* Rank counts the positions that are not in a set.
LEMMA CountsAll ==
    ASSUME NEW S PROVE Counts(S)
  BY RankSteps DEF Counts

\* One step further: each of the two positions is a mate or is counted by neither.
LEMMA MateRankStep ==
    ASSUME NEW A, NEW B, NEW C \in SUBSET Nat, NEW E, Pulled(A, B, C, E),
           NEW n \in Nat, RanksUpTo(A, B, C, E, n),
           NEW m, m = n + 1
    PROVE  RanksUpTo(A, B, C, E, m)
<1> SUFFICES ASSUME NEW x \in Nat, NEW v \in Nat, x + v <= n + 1, Rank(A, x) = Rank(B, v)
             PROVE  Rank(E, x) = Rank(B \cup C, v)
  BY DEF RanksUpTo, MateRanks
<1>6. CASE x + v <= n
  BY <1>6 DEF RanksUpTo, MateRanks
<1>7. CASE ~(x + v <= n)
  <2> DEFINE D == B \cup C
  <2>0. Counts(A) /\ Counts(B) /\ Counts(E) /\ Counts(D)
    BY CountsAll
  <2> HIDE DEF D
  <2>1. CASE x > 0 /\ x - 1 \in A
    <3>1. PICK p \in Nat : x = p + 1 /\ p \in A
      <4>1. x - 1 \in Nat /\ x = (x - 1) + 1
        BY <2>1
      <4> QED
        BY <2>1, <4>1
    <3>2. p + v <= n /\ p \in E
      BY <3>1 DEF Pulled
    <3>3. Rank(A, p) = Rank(B, v) /\ Rank(E, x) = Rank(E, p)
      BY <2>0, <3>1, <3>2 DEF Counts
    <3>4. Rank(E, p) = Rank(B \cup C, v)
      BY <3>2, <3>3 DEF MateRanks, RanksUpTo
    <3> QED
      BY <3>3, <3>4
  <2>2. CASE v > 0 /\ v - 1 \in B
    <3>1. PICK w \in Nat : v = w + 1 /\ w \in B
      <4>1. v - 1 \in Nat /\ v = (v - 1) + 1
        BY <2>2
      <4> QED
        BY <2>2, <4>1
    <3>2. x + w <= n /\ w \in D
      BY <3>1 DEF D
    <3>3. Rank(A, x) = Rank(B, w) /\ Rank(D, v) = Rank(D, w)
      BY <2>0, <3>1, <3>2 DEF Counts
    <3>4. Rank(E, x) = Rank(B \cup C, w)
      BY <3>2, <3>3 DEF MateRanks, RanksUpTo
    <3> QED
      BY <3>3, <3>4 DEF D
  <2>3. CASE x > 0 /\ x - 1 \notin A /\ v > 0 /\ v - 1 \notin B
    <3>1. PICK p \in Nat, w \in Nat : x = p + 1 /\ p \notin A /\ v = w + 1 /\ w \notin B
      <4>1. x - 1 \in Nat /\ x = (x - 1) + 1 /\ v - 1 \in Nat /\ v = (v - 1) + 1
        BY <2>3
      <4> QED
        BY <2>3, <4>1
    <3>2. p + w <= n
      BY <3>1
    <3>3. Rank(A, p) = Rank(B, w)
      <4>1. Rank(A, x) = Rank(A, p) + 1 /\ Rank(B, v) = Rank(B, w) + 1
        BY <2>0, <3>1 DEF Counts
      <4>2. Rank(A, p) \in Nat /\ Rank(B, w) \in Nat
        BY <2>0 DEF Counts
      <4> QED
        BY ONLY <4>1, <4>2, Rank(A, x) = Rank(B, v)
    <3>4. Rank(E, p) = Rank(D, w)
      BY <3>2, <3>3 DEF MateRanks, RanksUpTo, D
    <3>5. Mates(A, B, p, w)
      BY <3>1, <3>3 DEF Mates
    <3>6. p \in E <=> w \in C
      <4>1. ASSUME NEW u \in C, Mates(A, B, p, u) PROVE w \in C
        BY <3>5, <4>1, MatesOne
      <4> QED
        BY <3>1, <3>5, <4>1 DEF Pulled
    <3>7. p \in E <=> w \in D
      BY <3>1, <3>6 DEF D
    <3>8. Rank(E, x) = Rank(D, v)
      <4>1. Rank(E, x) = IF p \in E THEN Rank(E, p) ELSE Rank(E, p) + 1
        BY <2>0, <3>1 DEF Counts
      <4>2. Rank(D, v) = IF w \in D THEN Rank(D, w) ELSE Rank(D, w) + 1
        BY <2>0, <3>1 DEF Counts
      <4> QED
        BY ONLY <3>4, <3>7, <4>1, <4>2
    <3> QED
      BY <3>8 DEF D
  <2>4. CASE x = 0 /\ ~(v > 0 /\ v - 1 \in B)
    <3>1. v - 1 \in Nat /\ v = (v - 1) + 1 /\ v - 1 \notin B
      BY <1>7, <2>4
    <3>2. Rank(B, v) = Rank(B, v - 1) + 1 /\ Rank(B, v - 1) \in Nat
      BY <2>0, <3>1 DEF Counts
    <3> QED
      BY <2>0, <2>4, <3>2 DEF Counts
  <2>5. CASE v = 0 /\ ~(x > 0 /\ x - 1 \in A)
    <3>1. x - 1 \in Nat /\ x = (x - 1) + 1 /\ x - 1 \notin A
      BY <1>7, <2>5
    <3>2. Rank(A, x) = Rank(A, x - 1) + 1 /\ Rank(A, x - 1) \in Nat
      BY <2>0, <3>1 DEF Counts
    <3> QED
      BY <2>0, <2>5, <3>2 DEF Counts
  <2> QED
    BY <2>1, <2>2, <2>3, <2>4, <2>5
<1> QED
  BY <1>6, <1>7

\* ... for all positions.
RanksMate(A, B, C, E) == \A x, v \in Nat : Rank(A, x) = Rank(B, v) => Rank(E, x) = Rank(B \cup C, v)

\* The pulled-back deletions count what both changes delete.
LEMMA MateRank ==
    ASSUME NEW A, NEW B, NEW C \in SUBSET Nat, NEW E, Pulled(A, B, C, E)
    PROVE  RanksMate(A, B, C, E)
<1> SUFFICES ASSUME NEW x \in Nat, NEW v \in Nat, Rank(A, x) = Rank(B, v)
             PROVE  Rank(E, x) = Rank(B \cup C, v)
  BY DEF RanksMate
<1> DEFINE T == {n \in Nat : RanksUpTo(A, B, C, E, n)}
<1>1. 0 \in T
  <2>1. ASSUME NEW p \in Nat, NEW w \in Nat, p + w <= 0 PROVE MateRanks(A, B, C, E, p, w)
    <3>1. p = 0 /\ w = 0
      BY <2>1
    <3>2. Rank(E, 0) = 0 /\ Rank(B \cup C, 0) = 0
      BY RankSteps
    <3> QED
      BY <3>1, <3>2 DEF MateRanks
  <2> QED
    BY <2>1 DEF RanksUpTo
<1>2. ASSUME NEW k \in 0 .. (x + v) - 1, k \in T PROVE k + 1 \in T
  <2>0. k \in Nat /\ k + 1 \in Nat
    OBVIOUS
  <2>1. RanksUpTo(A, B, C, E, k + 1)
    BY <1>2, <2>0, MateRankStep
  <2> QED
    BY <2>0, <2>1
<1>3. x + v \in T
  <2> HIDE DEF T
  <2>1. 0 .. x + v \subseteq T
    BY <1>1, <1>2, UpTo
  <2> QED
    BY <2>1
<1> QED
  BY <1>3 DEF MateRanks, RanksUpTo

\* For every count there is a position outside the set with so many before.
LEMMA RankHits ==
    ASSUME NEW S, NEW n \in Nat, NEW r \in Nat, r < Rank(S, n)
    PROVE  \E y \in 0 .. n - 1 : y \notin S /\ Rank(S, y) = r
<1> DEFINE T == {m \in Nat : Rank(S, m) <= r \/ \E y \in 0 .. m - 1 : y \notin S /\ Rank(S, y) = r}
<1>0. /\ Rank(S, 0) = 0
      /\ \A x \in Nat : Rank(S, x) \in Nat
      /\ \A x \in Nat : Rank(S, x + 1) = IF x \in S THEN Rank(S, x) ELSE Rank(S, x) + 1
  BY RankSteps
<1>1. 0 \in T
  BY <1>0
<1>2. ASSUME NEW k \in 0 .. n - 1, k \in T PROVE k + 1 \in T
  <2>1. CASE Rank(S, k) <= r
    <3>1. Rank(S, k) = r \/ Rank(S, k) + 1 <= r
      BY <1>0, <2>1
    <3> QED
      BY <1>0, <2>1, <3>1
  <2>2. CASE \E y \in 0 .. k - 1 : y \notin S /\ Rank(S, y) = r
    BY <2>2
  <2> QED
    BY <1>2, <2>1, <2>2
<1>3. n \in T
  <2> HIDE DEF T
  <2>1. 0 .. n \subseteq T
    BY <1>1, <1>2, UpTo
  <2> QED
    BY <2>1
<1> QED
  BY <1>0, <1>3

\* The positions that stay correspond, and hold the same row.
Mated(D, I, old, new) ==
    /\ \A x \in 0 .. Len(old) - 1 : x \notin D => \E y \in 0 .. Len(new) - 1 : Mates(D, I, x, y)
    /\ \A y \in 0 .. Len(new) - 1 : y \notin I => \E x \in 0 .. Len(old) - 1 : Mates(D, I, x, y)
    /\ \A x, y : Mates(D, I, x, y) =>
         /\ x < Len(old) <=> y < Len(new)
         /\ x < Len(old) => x \in 0 .. Len(old) - 1 /\ y \in 0 .. Len(new) - 1 /\ old[x + 1] = new[y + 1]

\* Positions correspond exactly when they are mates.
LEMMA PlacesMates ==
    ASSUME NEW D, NEW I, NEW old \in Seq(Nat), NEW new \in Seq(Nat), Places(D, I, old, new)
    PROVE  Mated(D, I, old, new)
<1>1. Len(old) \in Nat /\ Len(new) \in Nat /\ Rank(D, Len(old)) = Rank(I, Len(new))
  BY DEF Places
<1>2. ASSUME NEW x \in 0 .. Len(old) - 1, x \notin D
      PROVE  \E y \in 0 .. Len(new) - 1 : Mates(D, I, x, y)
  <2>1. Rank(D, x) \in Nat /\ Rank(D, x) < Rank(I, Len(new))
    BY <1>1, <1>2, RankGrows
  <2> QED
    BY <1>1, <1>2, <2>1, RankHits DEF Mates
<1>3. ASSUME NEW y \in 0 .. Len(new) - 1, y \notin I
      PROVE  \E x \in 0 .. Len(old) - 1 : Mates(D, I, x, y)
  <2>1. Rank(I, y) \in Nat /\ Rank(I, y) < Rank(D, Len(old))
    BY <1>1, <1>3, RankGrows
  <2> QED
    BY <1>1, <1>3, <2>1, RankHits DEF Mates
<1>4. ASSUME NEW x, NEW y, Mates(D, I, x, y)
      PROVE  x < Len(old) <=> y < Len(new)
  <2>1. x \in Nat /\ y \in Nat
    BY <1>4 DEF Mates
  <2>2. ASSUME x < Len(old) PROVE y < Len(new)
    <3>1. PICK z \in 0 .. Len(new) - 1 : Mates(D, I, x, z)
      <4>1. x \in 0 .. Len(old) - 1 /\ x \notin D
        BY <1>1, <1>4, <2>1, <2>2 DEF Mates
      <4> QED
        BY <1>2, <4>1
    <3> QED
      BY <1>1, <1>4, <3>1, MatesOne
  <2>3. ASSUME y < Len(new) PROVE x < Len(old)
    <3>1. PICK z \in 0 .. Len(old) - 1 : Mates(D, I, z, y)
      <4>1. y \in 0 .. Len(new) - 1 /\ y \notin I
        BY <1>1, <1>4, <2>1, <2>3 DEF Mates
      <4> QED
        BY <1>3, <4>1
    <3>2. z = x
      BY <1>4, <3>1, MatesOne
    <3> QED
      BY <1>1, <3>1, <3>2
  <2> QED
    BY <2>2, <2>3
<1>5. ASSUME NEW x, NEW y, Mates(D, I, x, y), x < Len(old)
      PROVE  x \in 0 .. Len(old) - 1 /\ y \in 0 .. Len(new) - 1 /\ old[x + 1] = new[y + 1]
  <2>1. x \in 0 .. Len(old) - 1 /\ y \in 0 .. Len(new) - 1
    <3>1. x \in Nat /\ y \in Nat
      BY <1>5 DEF Mates
    <3>2. y < Len(new)
      BY <1>4, <1>5, Zenon
    <3>3. Len(old) \in Nat /\ Len(new) \in Nat
      BY <1>1
    <3> QED
      BY ONLY <1>5, <3>1, <3>2, <3>3
  <2>2. x \notin D /\ y \notin I /\ Rank(D, x) = Rank(I, y)
    BY <1>5 DEF Mates
  <2>3. \A a \in 0 .. Len(old) - 1, b \in 0 .. Len(new) - 1 :
          a \notin D /\ b \notin I /\ Rank(D, a) = Rank(I, b) => old[a + 1] = new[b + 1]
    BY DEF Places
  <2>4. old[x + 1] = new[y + 1]
    BY ONLY <2>1, <2>2, <2>3, Zenon
  <2> QED
    BY <2>1, <2>4
<1>6. ASSUME NEW x, NEW y, Mates(D, I, x, y)
      PROVE  /\ x < Len(old) <=> y < Len(new)
             /\ x < Len(old) => x \in 0 .. Len(old) - 1 /\ y \in 0 .. Len(new) - 1 /\ old[x + 1] = new[y + 1]
  BY <1>4, <1>5, <1>6
<1> QED
  BY ONLY <1>2, <1>3, <1>6, Zenon DEF Mated

\* What two change sets that are right do one after the other.
LEMMA PlacesMerged ==
    ASSUME NEW old \in Seq(Nat), NEW mid \in Seq(Nat), NEW new \in Seq(Nat),
           NEW D1 \in SUBSET Nat, NEW I1 \in SUBSET Nat, NEW D2 \in SUBSET Nat, NEW I2 \in SUBSET Nat,
           Places(D1, I1, old, mid), Places(D2, I2, mid, new),
           NEW D, Pulled(D1, I1, D2, D), NEW I, Pulled(I2, D2, I1, I)
    PROVE  Places(D, I, old, new)
<1> DEFINE M == I1 \cup D2
<1>0. Len(old) \in Nat /\ Len(mid) \in Nat /\ Len(new) \in Nat
  OBVIOUS
<1>m. Mated(D1, I1, old, mid) /\ Mated(D2, I2, mid, new)
  BY PlacesMates
<1>r. RanksMate(D1, I1, D2, D) /\ RanksMate(I2, D2, I1, I)
  BY MateRank
<1>1. ASSUME NEW x \in Nat, NEW v \in Nat, Rank(D1, x) = Rank(I1, v) PROVE Rank(D, x) = Rank(M, v)
  BY <1>1, <1>r DEF RanksMate
<1>2. ASSUME NEW v \in Nat, NEW y \in Nat, Rank(D2, v) = Rank(I2, y) PROVE Rank(I, y) = Rank(M, v)
  <2>1. Rank(I, y) = Rank(D2 \cup I1, v)
    BY <1>2, <1>r DEF RanksMate
  <2>2. D2 \cup I1 = M
    OBVIOUS
  <2> QED
    BY <2>1, <2>2
<1>3. Rank(D, Len(old)) = Rank(I, Len(new))
  <2>1. Rank(D1, Len(old)) = Rank(I1, Len(mid)) /\ Rank(D2, Len(mid)) = Rank(I2, Len(new))
    BY DEF Places
  <2>2. Rank(D, Len(old)) = Rank(M, Len(mid))
    BY <1>0, <1>1, <2>1
  <2>3. Rank(I, Len(new)) = Rank(M, Len(mid))
    BY <1>0, <1>2, <2>1
  <2> QED
    BY <2>2, <2>3
<1>4. D \subseteq 0 .. Len(old) - 1
  <2>1. ASSUME NEW x \in D PROVE x \in 0 .. Len(old) - 1
    <3>1. CASE x \in D1
      BY <3>1 DEF Places
    <3>2. CASE x \notin D1
      <4>1. PICK v \in D2 : Mates(D1, I1, x, v)
        BY <2>1, <3>2 DEF Pulled
      <4>2. v < Len(mid)
        BY <1>0 DEF Places
      <4> QED
        BY <4>1, <4>2, <1>m DEF Mated
    <3> QED
      BY <3>1, <3>2
  <2> QED
    BY <2>1
<1>5. I \subseteq 0 .. Len(new) - 1
  <2>1. ASSUME NEW y \in I PROVE y \in 0 .. Len(new) - 1
    <3>1. CASE y \in I2
      BY <3>1 DEF Places
    <3>2. CASE y \notin I2
      <4>1. PICK v \in I1 : Mates(I2, D2, y, v)
        BY <2>1, <3>2 DEF Pulled
      <4>2. v < Len(mid)
        BY <1>0 DEF Places
      <4>3. Mates(D2, I2, v, y)
        BY <4>1, MatesOne
      <4> QED
        BY <4>2, <4>3, <1>m DEF Mated
    <3> QED
      BY <3>1, <3>2
  <2> QED
    BY <2>1
<1>6. ASSUME NEW x \in 0 .. Len(old) - 1, NEW y \in 0 .. Len(new) - 1,
             x \notin D, y \notin I, Rank(D, x) = Rank(I, y)
      PROVE  old[x + 1] = new[y + 1]
  <2>1. x \notin D1
    BY <1>6 DEF Pulled
  <2>2. PICK v \in 0 .. Len(mid) - 1 : Mates(D1, I1, x, v)
    BY <2>1, <1>m DEF Mated
  <2>3. v \notin D2
    BY <1>6, <2>2 DEF Pulled
  <2>4. PICK z \in 0 .. Len(new) - 1 : Mates(D2, I2, v, z)
    BY <2>3, <1>m DEF Mated
  <2>5. v \in Nat /\ z \in Nat /\ x \in Nat /\ y \in Nat
    BY <1>0
  <2>6. z \notin I
    <3>1. ASSUME NEW u \in I1, Mates(I2, D2, z, u) PROVE FALSE
      <4>1. Mates(I2, D2, z, v)
        BY <2>4, MatesOne
      <4>2. u = v
        BY <3>1, <4>1, MatesOne
      <4> QED
        BY <2>2, <4>2 DEF Mates
    <3> QED
      BY <2>4, <3>1 DEF Pulled, Mates
  <2>7. Rank(D, x) = Rank(M, v) /\ Rank(I, z) = Rank(M, v)
    BY <1>1, <1>2, <2>2, <2>4, <2>5 DEF Mates
  <2>8. y = z
    BY <1>6, <2>5, <2>6, <2>7, OneOfRank
  <2>9. old[x + 1] = mid[v + 1]
    <3>1. x < Len(old)
      BY <1>0
    <3> QED
      BY <3>1, <2>2, <1>m DEF Mated
  <2>10. mid[v + 1] = new[z + 1]
    <3>1. v < Len(mid)
      BY <1>0
    <3> QED
      BY <3>1, <2>4, <1>m DEF Mated
  <2> QED
    BY <2>8, <2>9, <2>10
<1> QED
  BY <1>3, <1>4, <1>5, <1>6 DEF Places

(***************************************************************************)
(* The moves of merged changes are moves of one row followed through both: *)
(* Merge, step by step.                                                    *)
(***************************************************************************)

-----------------------------------------------------------------------------
(* The moves of merge.                                                     *)

\* The moves of a change set: each of a row deleted and inserted, no two of
\* the same row.
MovesIn(b) ==
    /\ Apart(b.moves)
    /\ \A k \in 1 .. Len(b.moves) : b.moves[k].from \in Del(b) /\ b.moves[k].to \in Ins(b)

\* Where a row goes in a change set: by a move, or because it stays.
Tracked(c, x, y) ==
    \/ \E j \in 1 .. Len(c.moves) : c.moves[j].from = x /\ c.moves[j].to = y
    \/ Mates(Del(c), Ins(c), x, y)

\* The move m is of the row that was at x after the changes b and before c.
Follows(b, c, x, m) ==
    /\ Tracked(c, x, m.to)
    /\ \/ \E i \in 1 .. Len(b.moves) : b.moves[i].to = x /\ b.moves[i].from = m.from
       \/ x \notin Ins(b) /\ x \in Del(c) /\ Mates(Del(b), Ins(b), m.from, x)

\* A change brings a row to one place, and one row to a place.
LEMMA TrackedOne ==
    ASSUME NEW c, MovesIn(c), NEW x, NEW y, NEW z, NEW w, Tracked(c, x, y), Tracked(c, z, w)
    PROVE  x = z <=> y = w
<1>1. CASE Mates(Del(c), Ins(c), x, y) /\ Mates(Del(c), Ins(c), z, w)
  BY <1>1, MatesOne
<1>2. CASE /\ Mates(Del(c), Ins(c), x, y)
           /\ \E j \in 1 .. Len(c.moves) : c.moves[j].from = z /\ c.moves[j].to = w
  BY <1>2 DEF MovesIn, Mates
<1>3. CASE /\ Mates(Del(c), Ins(c), z, w)
           /\ \E j \in 1 .. Len(c.moves) : c.moves[j].from = x /\ c.moves[j].to = y
  BY <1>3 DEF MovesIn, Mates
<1>4. CASE /\ \E j \in 1 .. Len(c.moves) : c.moves[j].from = x /\ c.moves[j].to = y
           /\ \E j \in 1 .. Len(c.moves) : c.moves[j].from = z /\ c.moves[j].to = w
  <2>1. PICK i \in 1 .. Len(c.moves) : c.moves[i].from = x /\ c.moves[i].to = y
    BY <1>4
  <2>2. PICK j \in 1 .. Len(c.moves) : c.moves[j].from = z /\ c.moves[j].to = w
    BY <1>4
  <2>3. i # j => c.moves[i].from # c.moves[j].from /\ c.moves[i].to # c.moves[j].to
    BY DEF MovesIn, Apart
  <2> QED
    BY <2>1, <2>2, <2>3
<1> QED
  BY <1>1, <1>2, <1>3, <1>4 DEF Tracked

\* Moves made of different rows between the changes differ at both ends.
LEMMA FollowsOne ==
    ASSUME NEW b, NEW c, MovesIn(b), MovesIn(c), NEW x, NEW z, NEW m, NEW n,
           Follows(b, c, x, m), Follows(b, c, z, n), x # z
    PROVE  m.from # n.from /\ m.to # n.to
<1>1. m.to # n.to
  BY TrackedOne DEF Follows
<1>2. CASE /\ \E i \in 1 .. Len(b.moves) : b.moves[i].to = x /\ b.moves[i].from = m.from
           /\ \E i \in 1 .. Len(b.moves) : b.moves[i].to = z /\ b.moves[i].from = n.from
  <2>1. PICK i \in 1 .. Len(b.moves) : b.moves[i].to = x /\ b.moves[i].from = m.from
    BY <1>2
  <2>2. PICK j \in 1 .. Len(b.moves) : b.moves[j].to = z /\ b.moves[j].from = n.from
    BY <1>2
  <2>3. i # j => b.moves[i].from # b.moves[j].from
    BY DEF MovesIn, Apart
  <2> QED
    BY <1>1, <2>1, <2>2, <2>3
<1>3. CASE /\ \E i \in 1 .. Len(b.moves) : b.moves[i].to = x /\ b.moves[i].from = m.from
           /\ Mates(Del(b), Ins(b), n.from, z)
  BY <1>1, <1>3 DEF MovesIn, Mates
<1>4. CASE /\ \E i \in 1 .. Len(b.moves) : b.moves[i].to = z /\ b.moves[i].from = n.from
           /\ Mates(Del(b), Ins(b), m.from, x)
  BY <1>1, <1>4 DEF MovesIn, Mates
<1>5. CASE Mates(Del(b), Ins(b), m.from, x) /\ Mates(Del(b), Ins(b), n.from, z)
  BY <1>1, <1>5, MatesOne
<1> QED
  BY <1>2, <1>3, <1>4, <1>5 DEF Follows

\* A row that was modified before c stays modified where c inserts it.
Marked(b, c, mods, x, y) == x \in Mod(b) /\ y \in Ins(c) => y \in Members(mods)

\* Every move is of one of the rows that were at the positions U between the
\* two change sets.
Followed(b, c, mods, U, mv) ==
    /\ mv \in Seq(Moves) /\ Apart(mv)
    /\ \A a \in 1 .. Len(mv) : \E x \in U : Follows(b, c, x, mv[a]) /\ Marked(b, c, mods, x, mv[a].to)

\* The modifications of c, and those of rows that were modified before.
ModsKept(b, c, mods) ==
    /\ mods \in Ranges /\ Mod(c) \subseteq Members(mods)
    /\ \A y \in Members(mods) : y \in Mod(c) \/ \E x \in Mod(b) : Tracked(c, x, y)

\* A move of one more row is appended to the moves made so far.
LEMMA FollowedMore ==
    ASSUME NEW b, NEW c, MovesIn(b), MovesIn(c), NEW mods, NEW U, NEW mv, Followed(b, c, mods, U, mv),
           NEW x, x \notin U, NEW m \in Moves, Follows(b, c, x, m),
           NEW more, Members(mods) \subseteq Members(more), Marked(b, c, more, x, m.to),
           NEW W, U \cup {x} \subseteq W
    PROVE  Followed(b, c, more, W, Append(mv, m))
<1> DEFINE w == Append(mv, m)
           L == Len(mv)
<1>1. mv \in Seq(Moves) /\ Apart(mv)
  BY DEF Followed
<1>2. w \in Seq(Moves) /\ L \in Nat /\ Len(w) = L + 1 /\ w[L + 1] = m /\ \A a \in 1 .. L : w[a] = mv[a]
  BY <1>1
<1>3. ASSUME NEW a \in 1 .. L
      PROVE  \E z \in U : Follows(b, c, z, mv[a]) /\ Marked(b, c, mods, z, mv[a].to)
  BY DEF Followed
<1>4. ASSUME NEW a \in 1 .. L PROVE mv[a].from # m.from /\ mv[a].to # m.to
  <2>1. PICK z \in U : Follows(b, c, z, mv[a])
    BY <1>3
  <2>2. z # x
    OBVIOUS
  <2> HIDE DEF L
  <2> QED
    BY <2>1, <2>2, FollowsOne
<1> HIDE DEF w, L
<1>5. \A a \in 1 .. L + 1 : a \in 1 .. L \/ a = L + 1
  BY <1>2
<1>6. Apart(w)
  <2> SUFFICES ASSUME NEW j \in 1 .. L + 1, NEW k \in 1 .. L + 1, j # k
               PROVE  w[j].from # w[k].from /\ w[j].to # w[k].to
    BY <1>2 DEF Apart
  <2>1. CASE j \in 1 .. L /\ k \in 1 .. L
    BY <1>1, <1>2, <2>1 DEF Apart, L
  <2>2. CASE j \in 1 .. L /\ k = L + 1
    BY <1>2, <1>4, <2>2
  <2>3. CASE j = L + 1 /\ k \in 1 .. L
    BY <1>2, <1>4, <2>3
  <2> QED
    BY <1>5, <2>1, <2>2, <2>3
<1>7. ASSUME NEW a \in 1 .. L + 1
      PROVE  \E z \in W : Follows(b, c, z, w[a]) /\ Marked(b, c, more, z, w[a].to)
  <2>1. CASE a \in 1 .. L
    <3>1. PICK z \in U : Follows(b, c, z, mv[a]) /\ Marked(b, c, mods, z, mv[a].to)
      BY <1>3, <2>1
    <3>2. Marked(b, c, more, z, mv[a].to)
      BY <3>1 DEF Marked
    <3>3. z \in W
      OBVIOUS
    <3> QED
      BY <1>2, <2>1, <3>1, <3>2, <3>3
  <2>2. CASE a = L + 1
    <3>1. x \in W
      OBVIOUS
    <3> QED
      BY <1>2, <2>2, <3>1
  <2> QED
    BY <1>5, <2>1, <2>2
<1> QED
  BY <1>2, <1>6, <1>7 DEF Followed, w

\* The moves made so far are moves of more rows.
LEMMA FollowedStill ==
    ASSUME NEW b, NEW c, NEW mods, NEW U, NEW mv, Followed(b, c, mods, U, mv),
           NEW W, U \subseteq W
    PROVE  Followed(b, c, mods, W, mv)
  BY DEF Followed

\* An element taken out by putting the last one in its place.
LEMMA DropIs ==
    ASSUME NEW S, NEW s \in Seq(S), NEW k \in 1 .. Len(s)
    PROVE  LET w == Front([s EXCEPT ![k] = Last(s)])
           IN  /\ w \in Seq(S) /\ Len(w) = Len(s) - 1
               /\ \A a \in 1 .. Len(s) - 1 : w[a] = IF a = k THEN s[Len(s)] ELSE s[a]
<1> DEFINE n == Len(s)
           u == [s EXCEPT ![k] = Last(s)]
           w == Front(u)
<1>1. n \in Nat /\ n > 0 /\ s \in [1 .. n -> S] /\ DOMAIN s = 1 .. n /\ n - 1 \in Nat
  OBVIOUS
<1>2. Last(s) = s[n] /\ s[n] \in S
  BY <1>1 DEF Last
<1>3. u \in [1 .. n -> S] /\ \A a \in 1 .. n : u[a] = IF a = k THEN s[n] ELSE s[a]
  BY <1>1, <1>2
<1>4. u \in Seq(S) /\ Len(u) = n
  BY <1>1, <1>3
<1> HIDE DEF n, u
<1>5. w = SubSeq(u, 1, n - 1)
  BY <1>4 DEF Front
<1>6. w = [a \in 1 .. n - 1 |-> u[a]]
  BY <1>1, <1>4, <1>5
<1>7. w \in Seq(S) /\ Len(w) = n - 1
  <2>1. \A a \in 1 .. n - 1 : u[a] \in S
    BY <1>1, <1>3
  <2>2. w \in [1 .. n - 1 -> S]
    BY <1>6, <2>1
  <2> QED
    BY <1>1, <2>2, <1>6
<1>8. \A a \in 1 .. n - 1 : w[a] = IF a = k THEN s[n] ELSE s[a]
  BY <1>1, <1>3, <1>6
<1> QED
  BY <1>7, <1>8 DEF n, u

\* One old move seen from the new version.
LaterThan(new, m) == {k \in DOMAIN new : new[k].from = m.to}
\* One move of the older change, as update of the newer does it.
UpdateAt(b, c, acc, m) ==
    LET k == Min(LaterThan(acc.new, m))
        to == acc.new[k].to
    IN  CASE LaterThan(acc.new, m) # {} ->
               [old |-> Append(acc.old, [m EXCEPT !.to = to]),
                new |-> Front([acc.new EXCEPT ![k] = Last(acc.new)]),
                modifications |-> IF InSet(b.modifications, m.to)
                                  THEN AddIndex(acc.modifications, to)
                                  ELSE acc.modifications]
          [] LaterThan(acc.new, m) = {} /\ InSet(c.deletions, m.to) -> acc
          [] OTHER -> [acc EXCEPT !.old = Append(@, [m EXCEPT !.to =
                         ShiftIndex(c.insertions, UnshiftIndex(c.deletions, @))])]
\* The moves after the first k older ones, for every k.
UpdatedOf(b, c) ==
    CHOOSE f : f = [k \in 0 .. Len(b.moves) |->
                      IF k = 0 THEN [old |-> << >>, new |-> c.moves, modifications |-> c.modifications]
                      ELSE UpdateAt(b, c, f[k - 1], b.moves[k])]
\* What is carried from one older move to the next.
Updates == [old : Seq(Moves), new : Seq(Moves), modifications : Ranges]

\* The new moves left, once the old ones up to k were looked at: none of
\* those that move a row again.
LeftNew(b, c, k, new) ==
    /\ new \in Seq(Moves) /\ Apart(new)
    /\ \A a \in 1 .. Len(new) : \E j \in 1 .. Len(c.moves) : new[a] = c.moves[j]
    /\ \A a \in 1 .. Len(new) : \A i \in 1 .. k : new[a].from # b.moves[i].to

\* Where the first k moves end.
Targets(mv, k) == {mv[i].to : i \in 1 .. k}

\* What is right after the first k older moves.
UpdatedAt(b, c, k, acc) ==
    /\ LeftNew(b, c, k, acc.new)
    /\ Followed(b, c, acc.modifications, Targets(b.moves, k), acc.old)
    /\ ModsKept(b, c, acc.modifications)

\* The newer move that continues the older one is taken out ...
LEMMA LeftLess ==
    ASSUME NEW b, NEW c, NEW k \in Nat, NEW new, LeftNew(b, c, k, new), NEW i \in 1 .. Len(new),
           NEW p, p = k + 1, new[i].from = b.moves[p].to
    PROVE  LeftNew(b, c, p, Front([new EXCEPT ![i] = Last(new)]))
<1> DEFINE w == Front([new EXCEPT ![i] = Last(new)])
           n == Len(new)
<1>1. new \in Seq(Moves) /\ Apart(new) /\ n \in Nat
  BY DEF LeftNew
<1>2. /\ w \in Seq(Moves) /\ Len(w) = n - 1
      /\ \A a \in 1 .. n - 1 : w[a] = IF a = i THEN new[n] ELSE new[a]
  BY <1>1, DropIs
<1> HIDE DEF w, n
<1>n. i \in 1 .. n
  BY DEF n
<1> DEFINE At(a) == IF a = i THEN n ELSE a
<1>3. ASSUME NEW a \in 1 .. n - 1
      PROVE  At(a) \in 1 .. n /\ At(a) # i /\ w[a] = new[At(a)]
  BY <1>1, <1>2, <1>n
<1>4. ASSUME NEW a \in 1 .. n - 1, NEW e \in 1 .. n - 1, a # e PROVE At(a) # At(e)
  BY <1>1, <1>n, <1>4
<1>5. \A a, e \in 1 .. n : a # e => new[a].from # new[e].from /\ new[a].to # new[e].to
  BY <1>1 DEF Apart, n
<1> HIDE DEF At
<1>6. Apart(w)
  <2> SUFFICES ASSUME NEW a \in 1 .. n - 1, NEW e \in 1 .. n - 1, a # e
               PROVE  w[a].from # w[e].from /\ w[a].to # w[e].to
    BY <1>2 DEF Apart
  <2> QED
    BY <1>3, <1>4, <1>5
<1>7. ASSUME NEW a \in 1 .. n - 1
      PROVE  /\ \E j \in 1 .. Len(c.moves) : w[a] = c.moves[j]
             /\ \A e \in 1 .. p : w[a].from # b.moves[e].to
  <2>1. At(a) \in 1 .. n /\ w[a] = new[At(a)]
    BY <1>3
  <2>2. \E j \in 1 .. Len(c.moves) : w[a] = c.moves[j]
    BY <2>1 DEF LeftNew, n
  <2>3. ASSUME NEW e \in 1 .. p PROVE w[a].from # b.moves[e].to
    <3>1. CASE e \in 1 .. k
      BY <2>1, <3>1 DEF LeftNew, n
    <3>2. CASE e = p
      BY <1>3, <1>5, <1>n, <3>2
    <3> QED
      BY <3>1, <3>2
  <2> QED
    BY <2>2, <2>3
<1> QED
  BY <1>2, <1>6, <1>7 DEF LeftNew, w

\* ... and none is when none continues it.
LEMMA LeftAll ==
    ASSUME NEW b, NEW c, NEW k \in Nat, NEW new, LeftNew(b, c, k, new),
           NEW p, p = k + 1, LaterThan(new, b.moves[p]) = {}
    PROVE  LeftNew(b, c, p, new)
<1>1. new \in Seq(Moves) /\ DOMAIN new = 1 .. Len(new)
  BY DEF LeftNew
<1>2. ASSUME NEW a \in 1 .. Len(new), NEW i \in 1 .. p PROVE new[a].from # b.moves[i].to
  <2>1. CASE i \in 1 .. k
    BY <2>1 DEF LeftNew
  <2>2. CASE i = p
    BY <1>1, <2>2 DEF LaterThan
  <2> QED
    BY <2>1, <2>2
<1> QED
  BY <1>1, <1>2 DEF LeftNew

\* A modified row that is followed may be marked where it ends.
LEMMA KeptMore ==
    ASSUME NEW b, NEW c, NEW mods, ModsKept(b, c, mods), NEW x \in Mod(b), NEW y \in Nat, Tracked(c, x, y)
    PROVE  ModsKept(b, c, AddIndex(mods, y)) /\ Members(mods) \subseteq Members(AddIndex(mods, y))
           /\ y \in Members(AddIndex(mods, y))
<1>1. AddIndex(mods, y) \in Ranges /\ Members(AddIndex(mods, y)) = Members(mods) \cup {y}
  BY AddIndexIs DEF ModsKept
<1> QED
  BY <1>1 DEF ModsKept

\* The old move is of a row that moves again ...
LEMMA UpdateAgain ==
    ASSUME NEW b \in Builders, NEW c \in Builders, MovesIn(b), MovesIn(c),
           NEW k \in Nat, NEW p, p = k + 1, p \in 1 .. Len(b.moves),
           NEW acc \in Updates, UpdatedAt(b, c, k, acc), LaterThan(acc.new, b.moves[p]) # {}
    PROVE  UpdatedAt(b, c, p, UpdateAt(b, c, acc, b.moves[p]))
<1> DEFINE m == b.moves[p]
           i == Min(LaterThan(acc.new, m))
           to == acc.new[i].to
           e == [m EXCEPT !.to = to]
           mods == IF InSet(b.modifications, m.to) THEN AddIndex(acc.modifications, to)
                   ELSE acc.modifications
           w == Front([acc.new EXCEPT ![i] = Last(acc.new)])
           a == UpdateAt(b, c, acc, m)
<1>0. /\ b.moves \in Seq(Moves) /\ c.moves \in Seq(Moves) /\ m \in Moves
      /\ acc.new \in Seq(Moves) /\ acc.old \in Seq(Moves) /\ acc.modifications \in Ranges
      /\ b.modifications \in Ranges
  BY BuilderIs DEF Updates
<1>1. i \in 1 .. Len(acc.new) /\ acc.new[i].from = m.to
  <2> DEFINE L == LaterThan(acc.new, m)
  <2>1. L \in SUBSET Nat /\ L # {}
    BY <1>0 DEF LaterThan
  <2> HIDE DEF L
  <2>2. Min(L) \in L
    BY <2>1, MinIs
  <2> QED
    BY <1>0, <2>2 DEF LaterThan, L
<1>2. to \in Nat /\ m.to \in Nat /\ m.from \in Nat
  <2> HIDE DEF i, m
  <2>1. acc.new[i] \in Moves
    BY <1>0, <1>1
  <2> QED
    BY <1>0, <2>1 DEF Moves
<1>3. e \in Moves /\ e.from = m.from /\ e.to = to
  BY <1>0, <1>2 DEF Moves
<1>4. PICK j \in 1 .. Len(c.moves) : acc.new[i] = c.moves[j]
  BY <1>1 DEF UpdatedAt, LeftNew
<1>5. Tracked(c, m.to, to)
  BY <1>1, <1>4 DEF Tracked
<1>6. Follows(b, c, m.to, e)
  BY <1>3, <1>5 DEF Follows
<1>7. a = [old |-> Append(acc.old, e), new |-> w, modifications |-> mods]
  BY DEF UpdateAt
<1>8. /\ ModsKept(b, c, mods) /\ Members(acc.modifications) \subseteq Members(mods)
      /\ Marked(b, c, mods, m.to, to)
  <2>1. ModsKept(b, c, acc.modifications)
    BY DEF UpdatedAt
  <2>2. InSet(b.modifications, m.to) <=> m.to \in Mod(b)
    BY <1>0, <1>2, InSetMeans DEF Mod
  <2>3. CASE m.to \in Mod(b)
    <3>1. mods = AddIndex(acc.modifications, to)
      BY <2>2, <2>3
    <3> HIDE DEF mods, to, m
    <3> QED
      BY <1>2, <1>5, <2>1, <2>3, <3>1, KeptMore DEF Marked
  <2>4. CASE m.to \notin Mod(b)
    BY <2>1, <2>2, <2>4 DEF Marked
  <2> QED
    BY <2>3, <2>4
<1>9. m.to \notin Targets(b.moves, k) /\ Targets(b.moves, k) \cup {m.to} \subseteq Targets(b.moves, p)
  <2>1. ASSUME NEW h \in 1 .. k PROVE b.moves[h].to # m.to
    <3>1. h \in 1 .. Len(b.moves) /\ h # p
      BY <1>0
    <3> QED
      BY <3>1 DEF MovesIn, Apart
  <2> QED
    BY <2>1 DEF Targets
<1>10. LeftNew(b, c, p, w)
  <2>1. LeftNew(b, c, k, acc.new)
    BY DEF UpdatedAt
  <2> HIDE DEF i
  <2> QED
    BY <1>1, <2>1, LeftLess
<1>11. Followed(b, c, acc.modifications, Targets(b.moves, k), acc.old)
  BY DEF UpdatedAt
<1>12. Followed(b, c, mods, Targets(b.moves, p), Append(acc.old, e))
  <2> DEFINE x == m.to
             U == Targets(b.moves, k)
             W == Targets(b.moves, p)
             mv == acc.old
             am == acc.modifications
  <2>1. /\ Followed(b, c, am, U, mv) /\ x \notin U /\ U \cup {x} \subseteq W /\ e \in Moves
        /\ Follows(b, c, x, e) /\ Members(am) \subseteq Members(mods) /\ Marked(b, c, mods, x, e.to)
    BY <1>3, <1>6, <1>8, <1>9, <1>11
  <2> HIDE DEF x, U, W, mv, am, e, mods
  <2>2. Followed(b, c, mods, W, Append(mv, e))
    BY <2>1, FollowedMore
  <2> QED
    BY <2>2 DEF W, mv
<1> HIDE DEF a, w, mods, e, m
<1> QED
  BY <1>7, <1>8, <1>10, <1>12 DEF UpdatedAt, m, a

\* ... or one that is deleted ...
LEMMA UpdateGone ==
    ASSUME NEW b \in Builders, NEW c \in Builders,
           NEW k \in Nat, NEW p, p = k + 1,
           NEW acc \in Updates, UpdatedAt(b, c, k, acc), LaterThan(acc.new, b.moves[p]) = {},
           InSet(c.deletions, b.moves[p].to)
    PROVE  UpdatedAt(b, c, p, UpdateAt(b, c, acc, b.moves[p]))
<1>1. UpdateAt(b, c, acc, b.moves[p]) = acc
  BY DEF UpdateAt
<1>2. LeftNew(b, c, p, acc.new)
  BY LeftAll DEF UpdatedAt
<1>3. Targets(b.moves, k) \subseteq Targets(b.moves, p)
  BY DEF Targets
<1>4. Followed(b, c, acc.modifications, Targets(b.moves, p), acc.old)
  BY <1>3, FollowedStill DEF UpdatedAt
<1> QED
  BY <1>1, <1>2, <1>4 DEF UpdatedAt

\* ... or one that stays.
LEMMA UpdateStays ==
    ASSUME NEW b \in Builders, NEW c \in Builders, MovesIn(b), MovesIn(c),
           NEW k \in Nat, NEW p, p = k + 1, p \in 1 .. Len(b.moves),
           NEW acc \in Updates, UpdatedAt(b, c, k, acc), LaterThan(acc.new, b.moves[p]) = {},
           ~InSet(c.deletions, b.moves[p].to)
    PROVE  UpdatedAt(b, c, p, UpdateAt(b, c, acc, b.moves[p]))
<1> DEFINE m == b.moves[p]
           to == ShiftIndex(c.insertions, UnshiftIndex(c.deletions, m.to))
           e == [m EXCEPT !.to = to]
           mods == acc.modifications
           a == UpdateAt(b, c, acc, m)
<1>0. /\ b.moves \in Seq(Moves) /\ c.moves \in Seq(Moves) /\ m \in Moves
      /\ acc.new \in Seq(Moves) /\ acc.old \in Seq(Moves) /\ mods \in Ranges
      /\ c.deletions \in Ranges /\ c.insertions \in Ranges
  BY BuilderIs DEF Updates
<1>1. m.to \in Nat /\ m.from \in Nat
  BY <1>0 DEF Moves
<1>2. m.to \notin Members(c.deletions)
  BY <1>0, <1>1, InSetMeans
<1>3. Mates(Del(c), Ins(c), m.to, to)
  <2> DEFINE x == m.to
  <2> HIDE DEF m
  <2>1. Mates(Members(c.deletions), Members(c.insertions), m.to, to)
    BY <1>0, <1>1, <1>2, MateShifted
  <2> QED
    BY <2>1 DEF Del, Ins
<1>4. to \in Nat /\ to \notin Ins(c)
  BY <1>3 DEF Mates
<1>5. e \in Moves /\ e.from = m.from /\ e.to = to
  BY <1>0, <1>4 DEF Moves
<1>6. Follows(b, c, m.to, e)
  BY <1>3, <1>5 DEF Follows, Tracked
<1>7. a = [acc EXCEPT !.old = Append(acc.old, e)]
  BY DEF UpdateAt
<1>8. Marked(b, c, mods, m.to, to)
  BY <1>4 DEF Marked
<1>9. m.to \notin Targets(b.moves, k) /\ Targets(b.moves, k) \cup {m.to} \subseteq Targets(b.moves, p)
  <2>1. ASSUME NEW h \in 1 .. k PROVE b.moves[h].to # m.to
    <3>1. h \in 1 .. Len(b.moves) /\ h # p
      BY <1>0
    <3> QED
      BY <3>1 DEF MovesIn, Apart
  <2> QED
    BY <2>1 DEF Targets
<1>10. LeftNew(b, c, p, acc.new)
  BY LeftAll DEF UpdatedAt
<1>11. Followed(b, c, mods, Targets(b.moves, k), acc.old) /\ ModsKept(b, c, mods)
  BY DEF UpdatedAt
<1>12. Followed(b, c, mods, Targets(b.moves, p), Append(acc.old, e))
  <2> DEFINE x == m.to
             U == Targets(b.moves, k)
             W == Targets(b.moves, p)
             mv == acc.old
  <2>1. /\ Followed(b, c, mods, U, mv) /\ x \notin U /\ U \cup {x} \subseteq W /\ e \in Moves
        /\ Follows(b, c, x, e) /\ Marked(b, c, mods, x, e.to)
    BY <1>5, <1>6, <1>8, <1>9, <1>11
  <2> HIDE DEF x, U, W, mv, e, mods
  <2>2. Followed(b, c, mods, W, Append(mv, e))
    BY <2>1, FollowedMore
  <2> QED
    BY <2>2 DEF W, mv
<1> HIDE DEF e
<1>13. a.old = Append(acc.old, e) /\ a.new = acc.new /\ a.modifications = mods
  BY <1>7 DEF Updates
<1> HIDE DEF a, mods, m
<1> QED
  BY <1>10, <1>11, <1>12, <1>13 DEF UpdatedAt, m, a

\* UpdateAt gives moves and ranges.
LEMMA UpdateType ==
    ASSUME NEW b \in Builders, NEW c \in Builders, NEW acc \in Updates, NEW m \in Moves
    PROVE  UpdateAt(b, c, acc, m) \in Updates
<1> DEFINE L == LaterThan(acc.new, m)
           i == Min(L)
           to == acc.new[i].to
           other == ShiftIndex(c.insertions, UnshiftIndex(c.deletions, m.to))
<1>0. /\ acc.new \in Seq(Moves) /\ acc.old \in Seq(Moves) /\ acc.modifications \in Ranges
      /\ c.deletions \in Ranges /\ c.insertions \in Ranges /\ m.to \in Nat /\ m.from \in Nat
  BY BuilderIs DEF Updates, Moves
<1>1. CASE L # {}
  <2> DEFINE e == [m EXCEPT !.to = to]
             w == Front([acc.new EXCEPT ![i] = Last(acc.new)])
             mods == IF InSet(b.modifications, m.to) THEN AddIndex(acc.modifications, to)
                     ELSE acc.modifications
  <2>0. L \in SUBSET Nat
    BY <1>0 DEF LaterThan
  <2>1. i \in 1 .. Len(acc.new)
    <3> DEFINE K == L
    <3>1. K \in SUBSET Nat /\ K # {} /\ K \subseteq 1 .. Len(acc.new)
      BY <1>0, <1>1, <2>0 DEF LaterThan
    <3> HIDE DEF K
    <3>2. Min(K) \in 1 .. Len(acc.new)
      BY <3>1, MinIs
    <3> QED
      BY <3>2 DEF K
  <2>2. UpdateAt(b, c, acc, m) = [old |-> Append(acc.old, e), new |-> w, modifications |-> mods]
    BY <1>1 DEF UpdateAt
  <2> HIDE DEF L, i
  <2>3. to \in Nat
    <3>1. acc.new[i] \in Moves
      BY <1>0, <2>1
    <3> QED
      BY <3>1 DEF Moves
  <2>4. e \in Moves
    BY <1>0, <2>3 DEF Moves
  <2>5. w \in Seq(Moves)
    BY <1>0, <2>1, DropIs
  <2>6. mods \in Ranges
    BY <1>0, <2>3, AddIndexIs
  <2>7. Append(acc.old, e) \in Seq(Moves)
    BY <1>0, <2>4
  <2> HIDE DEF e, w, mods
  <2> QED
    BY <2>2, <2>5, <2>6, <2>7 DEF Updates
<1>2. CASE L = {} /\ InSet(c.deletions, m.to)
  BY <1>2 DEF UpdateAt
<1>3. CASE L = {} /\ ~InSet(c.deletions, m.to)
  <2> DEFINE e == [m EXCEPT !.to = other]
  <2>1. UpdateAt(b, c, acc, m) = [acc EXCEPT !.old = Append(acc.old, e)]
    BY <1>3 DEF UpdateAt
  <2>2. other \in Nat
    <3>1. UnshiftIndex(c.deletions, m.to) \in Nat
      BY <1>0, UnshiftIs
    <3> QED
      BY <1>0, <3>1, ShiftIs
  <2>3. e \in Moves
    BY <1>0, <2>2 DEF Moves
  <2>4. Append(acc.old, e) \in Seq(Moves)
    BY <1>0, <2>3
  <2> HIDE DEF e
  <2> QED
    BY <2>1, <2>4 DEF Updates
<1> QED
  BY <1>1, <1>2, <1>3

\* UpdateOldMoves is the last of the steps of UpdatedOf.
LEMMA UpdatedRuns ==
    ASSUME NEW b \in Builders, NEW c \in Builders
    PROVE  /\ UpdateOldMoves(b, c) = UpdatedOf(b, c)[Len(b.moves)]
           /\ UpdatedOf(b, c)[0] = [old |-> << >>, new |-> c.moves, modifications |-> c.modifications]
           /\ \A k \in 1 .. Len(b.moves) :
                UpdatedOf(b, c)[k] = UpdateAt(b, c, UpdatedOf(b, c)[k - 1], b.moves[k])
           /\ \A k \in 0 .. Len(b.moves) : UpdatedOf(b, c)[k] \in Updates
<1> DEFINE mv == b.moves
           n == Len(mv)
           V == Updates
           none == [old |-> << >>, new |-> c.moves, modifications |-> c.modifications]
           step == [k \in 1 .. n |-> [u \in V |-> UpdateAt(b, c, u, mv[k])]]
<1>0. n \in Nat /\ \A k \in 1 .. n : mv[k] \in Moves
  BY BuilderIs
<1>1. step \in Steps(n, V)
  <2>1. ASSUME NEW k \in 1 .. n, NEW u \in V
        PROVE  UpdateAt(b, c, u, mv[k]) \in V
    <3>1. mv[k] \in Moves
      BY <1>0
    <3> HIDE DEF mv
    <3> QED
      BY <3>1, UpdateType
  <2> HIDE DEF V, n, mv
  <2> QED
    BY <2>1 DEF Steps
<1>2. none \in V
  <2>1. << >> \in Seq(Moves) /\ c.moves \in Seq(Moves) /\ c.modifications \in Ranges
    BY BuilderIs
  <2> QED
    BY <2>1 DEF Updates
<1>c. UpdateOldMoves(b, c) = UpdatedOf(b, c)[n]
  BY DEF UpdateOldMoves, UpdatedOf, UpdateAt, LaterThan
<1> HIDE DEF n, V, step, none, mv
<1>l. PICK f : IsLoop(f, n, V, none, step)
  BY <1>0, <1>1, <1>2, LoopRuns
<1>3. f \in [0 .. n -> V] /\ f[0] = none /\ \A k \in 1 .. n : f[k] = step[k][f[k - 1]]
  BY <1>l DEF IsLoop
<1>4. ASSUME NEW k \in 0 .. n
      PROVE  f[k] = IF k = 0 THEN none ELSE UpdateAt(b, c, f[k - 1], mv[k])
  <2>1. CASE k = 0
    BY <1>3, <2>1
  <2>2. CASE k # 0
    <3>1. k \in 1 .. n /\ k - 1 \in 0 .. n
      BY <1>0, <2>2
    <3>2. f[k] = step[k][f[k - 1]] /\ f[k - 1] \in V
      BY <1>3, <3>1
    <3>3. f[k] = UpdateAt(b, c, f[k - 1], mv[k])
      BY <3>1, <3>2 DEF step
    <3> QED
      BY <2>2, <3>3
  <2> QED
    BY <2>1, <2>2
<1>5. f = [k \in 0 .. n |-> IF k = 0 THEN none ELSE UpdateAt(b, c, f[k - 1], mv[k])]
  BY <1>3, <1>4
<1> DEFINE p == UpdatedOf(b, c)
<1>6. p = [k \in 0 .. n |-> IF k = 0 THEN none ELSE UpdateAt(b, c, p[k - 1], mv[k])]
  BY <1>5 DEF UpdatedOf, n, none, mv
<1> HIDE DEF p
<1>7. p[0] = none /\ \A k \in 1 .. n : p[k] = UpdateAt(b, c, p[k - 1], mv[k])
  <2>1. \A k \in 0 .. n : p[k] = IF k = 0 THEN none ELSE UpdateAt(b, c, p[k - 1], mv[k])
    BY <1>6, Zenon
  <2>2. 0 \in 0 .. n /\ \A k \in 1 .. n : k \in 0 .. n /\ k # 0
    BY <1>0
  <2> QED
    BY <2>1, <2>2, Zenon
<1>8. \A k \in 0 .. n : p[k] \in Updates
  <2> DEFINE T == {k \in Nat : p[k] \in Updates}
  <2>1. 0 \in T
    BY <1>2, <1>7 DEF V
  <2>2. ASSUME NEW k \in 0 .. n - 1, k \in T
        PROVE  k + 1 \in T
    <3>1. k + 1 \in 1 .. n /\ (k + 1) - 1 = k /\ k + 1 \in Nat
      BY <1>0
    <3>3. p[k + 1] = UpdateAt(b, c, p[k], mv[k + 1])
      BY <1>7, <3>1
    <3>4. mv[k + 1] \in Moves /\ p[k] \in Updates
      BY <1>0, <2>2, <3>1
    <3>5. p[k + 1] \in Updates
      BY <3>3, <3>4, UpdateType
    <3> QED
      BY ONLY <3>1, <3>5
  <2> HIDE DEF T
  <2>3. 0 .. n \subseteq T
    BY <1>0, <2>1, <2>2, UpTo
  <2> QED
    BY <2>3 DEF T
<1> QED
  BY <1>7, <1>8, <1>c DEF p, n, none, mv

\* The older moves after the newer change are moves of rows between the two.
LEMMA UpdatedIs ==
    ASSUME NEW b \in Builders, NEW c \in Builders, MovesIn(b), MovesIn(c)
    PROVE  UpdateOldMoves(b, c) \in Updates /\ UpdatedAt(b, c, Len(b.moves), UpdateOldMoves(b, c))
<1> DEFINE mv == b.moves
           n == Len(mv)
           f == UpdatedOf(b, c)
           T == {k \in Nat : k <= n => UpdatedAt(b, c, k, f[k])}
<1>0. n \in Nat /\ mv \in Seq(Moves)
  BY BuilderIs
<1>f. /\ UpdateOldMoves(b, c) = f[n]
      /\ f[0] = [old |-> << >>, new |-> c.moves, modifications |-> c.modifications]
      /\ \A k \in 1 .. n : f[k] = UpdateAt(b, c, f[k - 1], mv[k])
      /\ \A k \in 0 .. n : f[k] \in Updates
  BY UpdatedRuns
<1> HIDE DEF f
<1>1. 0 \in T
  <2> DEFINE a == f[0]
  <2>1. a.old = << >> /\ a.new = c.moves /\ a.modifications = c.modifications
    BY <1>f
  <2> HIDE DEF a
  <2>2. c.moves \in Seq(Moves) /\ c.modifications \in Ranges
    BY BuilderIs
  <2>3. LeftNew(b, c, 0, a.new)
    <3>1. 1 .. 0 = {}
      OBVIOUS
    <3> QED
      BY <2>1, <2>2, <3>1 DEF LeftNew, MovesIn
  <2>4. Followed(b, c, a.modifications, Targets(mv, 0), a.old)
    <3>1. Len(a.old) = 0 /\ a.old \in Seq(Moves) /\ 1 .. 0 = {}
      BY <2>1
    <3> QED
      BY <3>1 DEF Followed, Apart
  <2>5. ModsKept(b, c, a.modifications)
    BY <2>1, <2>2 DEF ModsKept, Mod
  <2> QED
    BY <2>3, <2>4, <2>5 DEF UpdatedAt, a
<1>2. ASSUME NEW k \in 0 .. n - 1, k \in T
      PROVE  k + 1 \in T
  <2> DEFINE p == k + 1
             acc == f[k]
             a == f[p]
  <2>1. k \in Nat /\ k <= n /\ p \in 1 .. n /\ p - 1 = k /\ p \in Nat /\ k \in 0 .. n
    BY <1>0
  <2>2. UpdatedAt(b, c, k, acc) /\ acc \in Updates
    BY <1>2, <1>f, <2>1
  <2>3. a = UpdateAt(b, c, acc, mv[p])
    BY <1>f, <2>1
  <2>4. p = k + 1 /\ p \in 1 .. Len(b.moves)
    BY <2>1
  <2> HIDE DEF p, acc, a
  <2>5. UpdatedAt(b, c, p, UpdateAt(b, c, acc, b.moves[p]))
    <3>1. CASE LaterThan(acc.new, b.moves[p]) # {}
      BY <2>1, <2>2, <2>4, <3>1, UpdateAgain
    <3>2. CASE LaterThan(acc.new, b.moves[p]) = {} /\ InSet(c.deletions, b.moves[p].to)
      BY <2>1, <2>2, <2>4, <3>2, UpdateGone
    <3>3. CASE LaterThan(acc.new, b.moves[p]) = {} /\ ~InSet(c.deletions, b.moves[p].to)
      BY <2>1, <2>2, <2>4, <3>3, UpdateStays
    <3> QED
      BY <3>1, <3>2, <3>3
  <2> QED
    BY <2>1, <2>3, <2>5 DEF p, a
<1> HIDE DEF T
<1>3. 0 .. n \subseteq T
  BY ONLY <1>0, <1>1, <1>2, UpTo, Zenon
<1>4. UpdatedAt(b, c, n, f[n]) /\ f[n] \in Updates
  <2>1. n \in 0 .. n /\ n <= n
    BY <1>0
  <2>2. n \in T
    BY ONLY <1>3, <2>1
  <2>3. f[n] \in Updates
    BY ONLY <1>f, <2>1
  <2> QED
    BY ONLY <2>1, <2>2, <2>3 DEF T
<1> QED
  BY <1>4, <1>f

\* One new move that is left: the row's place before both change sets.
TakeAt(b, acc, m) ==
    IF InSet(b.insertions, m.from) THEN acc
    ELSE [moves |-> Append(acc.moves, [from |-> Was(b, m.from), to |-> m.to]),
          modifications |-> IF InSet(b.modifications, m.from)
                            THEN AddIndex(acc.modifications, m.to)
                            ELSE acc.modifications]
\* The moves after the first k newer ones, for every k.
TakenOf(b, u) ==
    CHOOSE f : f = [k \in 0 .. Len(u.new) |->
                      IF k = 0 THEN [moves |-> u.old, modifications |-> u.modifications]
                      ELSE TakeAt(b, f[k - 1], u.new[k])]
\* What is carried from one newer move to the next.
Taken == [moves : Seq(Moves), modifications : Ranges]

\* TakeAt gives moves and ranges.
LEMMA TakeType ==
    ASSUME NEW b \in Builders, NEW acc \in Taken, NEW m \in Moves
    PROVE  TakeAt(b, acc, m) \in Taken
<1> DEFINE e == [from |-> Was(b, m.from), to |-> m.to]
           mods == IF InSet(b.modifications, m.from) THEN AddIndex(acc.modifications, m.to)
                   ELSE acc.modifications
<1>0. acc.moves \in Seq(Moves) /\ acc.modifications \in Ranges /\ m.from \in Nat /\ m.to \in Nat
  BY DEF Taken, Moves
<1>1. Was(b, m.from) \in Nat
  BY <1>0, WasIs
<1>2. e \in Moves
  BY <1>0, <1>1 DEF Moves
<1>3. mods \in Ranges
  BY <1>0, AddIndexIs
<1>4. Append(acc.moves, e) \in Seq(Moves)
  BY <1>0, <1>2
<1>5. TakeAt(b, acc, m) = IF InSet(b.insertions, m.from) THEN acc
                          ELSE [moves |-> Append(acc.moves, e), modifications |-> mods]
  BY DEF TakeAt
<1> HIDE DEF e, mods
<1> QED
  BY <1>3, <1>4, <1>5 DEF Taken

\* TakenOf takes the steps of TakeAt.
LEMMA TakenRuns ==
    ASSUME NEW b \in Builders, NEW u \in Updates
    PROVE  /\ TakenOf(b, u)[0] = [moves |-> u.old, modifications |-> u.modifications]
           /\ \A k \in 1 .. Len(u.new) : TakenOf(b, u)[k] = TakeAt(b, TakenOf(b, u)[k - 1], u.new[k])
           /\ \A k \in 0 .. Len(u.new) : TakenOf(b, u)[k] \in Taken
<1> DEFINE mv == u.new
           n == Len(mv)
           V == Taken
           none == [moves |-> u.old, modifications |-> u.modifications]
           step == [k \in 1 .. n |-> [a \in V |-> TakeAt(b, a, mv[k])]]
<1>0. n \in Nat /\ \A k \in 1 .. n : mv[k] \in Moves
  BY DEF Updates
<1>1. step \in Steps(n, V)
  <2>1. ASSUME NEW k \in 1 .. n, NEW a \in V
        PROVE  TakeAt(b, a, mv[k]) \in V
    <3>1. mv[k] \in Moves
      BY <1>0
    <3> HIDE DEF mv
    <3> QED
      BY <3>1, TakeType
  <2> HIDE DEF V, n, mv
  <2> QED
    BY <2>1 DEF Steps
<1>2. none \in V
  BY DEF Updates, Taken
<1> HIDE DEF n, V, step, none, mv
<1>l. PICK f : IsLoop(f, n, V, none, step)
  BY <1>0, <1>1, <1>2, LoopRuns
<1>3. f \in [0 .. n -> V] /\ f[0] = none /\ \A k \in 1 .. n : f[k] = step[k][f[k - 1]]
  BY <1>l DEF IsLoop
<1>4. ASSUME NEW k \in 0 .. n
      PROVE  f[k] = IF k = 0 THEN none ELSE TakeAt(b, f[k - 1], mv[k])
  <2>1. CASE k = 0
    BY <1>3, <2>1
  <2>2. CASE k # 0
    <3>1. k \in 1 .. n /\ k - 1 \in 0 .. n
      BY <1>0, <2>2
    <3>2. f[k] = step[k][f[k - 1]] /\ f[k - 1] \in V
      BY <1>3, <3>1
    <3>3. f[k] = TakeAt(b, f[k - 1], mv[k])
      BY <3>1, <3>2 DEF step
    <3> QED
      BY <2>2, <3>3
  <2> QED
    BY <2>1, <2>2
<1>5. f = [k \in 0 .. n |-> IF k = 0 THEN none ELSE TakeAt(b, f[k - 1], mv[k])]
  BY <1>3, <1>4
<1> DEFINE p == TakenOf(b, u)
<1>6. p = [k \in 0 .. n |-> IF k = 0 THEN none ELSE TakeAt(b, p[k - 1], mv[k])]
  BY <1>5 DEF TakenOf, n, none, mv
<1> HIDE DEF p
<1>7. p[0] = none /\ \A k \in 1 .. n : p[k] = TakeAt(b, p[k - 1], mv[k])
  <2>1. \A k \in 0 .. n : p[k] = IF k = 0 THEN none ELSE TakeAt(b, p[k - 1], mv[k])
    BY <1>6, Zenon
  <2>2. 0 \in 0 .. n /\ \A k \in 1 .. n : k \in 0 .. n /\ k # 0
    BY <1>0
  <2> QED
    BY <2>1, <2>2, Zenon
<1>8. \A k \in 0 .. n : p[k] \in Taken
  <2> DEFINE T == {k \in Nat : p[k] \in Taken}
  <2>1. 0 \in T
    BY <1>2, <1>7 DEF V
  <2>2. ASSUME NEW k \in 0 .. n - 1, k \in T
        PROVE  k + 1 \in T
    <3>1. k + 1 \in 1 .. n /\ (k + 1) - 1 = k /\ k + 1 \in Nat
      BY <1>0
    <3>3. p[k + 1] = TakeAt(b, p[k], mv[k + 1])
      BY <1>7, <3>1
    <3>4. mv[k + 1] \in Moves /\ p[k] \in Taken
      BY <1>0, <2>2, <3>1
    <3>5. p[k + 1] \in Taken
      BY <3>3, <3>4, TakeType
    <3> QED
      BY ONLY <3>1, <3>5
  <2> HIDE DEF T
  <2>3. 0 .. n \subseteq T
    BY <1>0, <2>1, <2>2, UpTo
  <2> QED
    BY <2>3 DEF T
<1> QED
  BY <1>7, <1>8 DEF p, n, none, mv

\* Where the first k moves begin.
Froms(mv, k) == {mv[i].from : i \in 1 .. k}
\* The positions between the changes of the rows whose moves are made so far.
Between(b, u, k) == Targets(b.moves, Len(b.moves)) \cup Froms(u.new, k)

\* One newer move, dropped or appended.
LEMMA TakeStep ==
    ASSUME NEW b \in Builders, NEW c \in Builders, MovesIn(b), MovesIn(c),
           NEW u \in Updates, LeftNew(b, c, Len(b.moves), u.new),
           NEW k \in Nat, NEW p, p = k + 1, p \in 1 .. Len(u.new), NEW acc \in Taken,
           Followed(b, c, acc.modifications, Between(b, u, k), acc.moves), ModsKept(b, c, acc.modifications)
    PROVE  LET a == TakeAt(b, acc, u.new[p])
           IN  /\ Followed(b, c, a.modifications, Between(b, u, p), a.moves)
               /\ ModsKept(b, c, a.modifications)
<1> DEFINE m == u.new[p]
           x == m.from
           e == [from |-> Was(b, x), to |-> m.to]
           mods == IF InSet(b.modifications, x) THEN AddIndex(acc.modifications, m.to)
                   ELSE acc.modifications
           a == TakeAt(b, acc, m)
           U == Between(b, u, k)
           W == Between(b, u, p)
<1>0. /\ m \in Moves /\ x \in Nat /\ m.to \in Nat /\ b.insertions \in Ranges /\ b.modifications \in Ranges
      /\ u.new \in Seq(Moves) /\ Len(u.new) \in Nat
  <2>1. u.new \in Seq(Moves)
    BY DEF Updates
  <2>2. m \in Moves /\ Len(u.new) \in Nat
    BY <2>1
  <2> HIDE DEF m
  <2>3. m.from \in Nat /\ m.to \in Nat
    BY <2>2 DEF Moves
  <2> QED
    BY <2>1, <2>2, <2>3, BuilderIs
<1>i. InSet(b.insertions, x) <=> x \in Ins(b)
  <2> HIDE DEF x
  <2> QED
    BY <1>0, InSetMeans DEF Ins
<1>1. U \cup {x} \subseteq W
  BY DEF Between, Froms
<1>2. CASE x \in Ins(b)
  <2>1. a = acc
    BY <1>i, <1>2 DEF TakeAt
  <2> HIDE DEF a, U, W, m
  <2>2. Followed(b, c, acc.modifications, W, acc.moves)
    BY <1>1, FollowedStill DEF U
  <2> QED
    BY <2>1, <2>2 DEF a, W, m
<1>3. CASE x \notin Ins(b)
  <2>1. a = [moves |-> Append(acc.moves, e), modifications |-> mods]
    BY <1>i, <1>3 DEF TakeAt
  <2>2. Was(b, x) \in Nat /\ Mates(Del(b), Ins(b), Was(b, x), x)
    <3> HIDE DEF x
    <3> QED
      BY <1>0, <1>3, WasIs DEF Mates
  <2>3. e \in Moves /\ e.from = Was(b, x) /\ e.to = m.to
    BY <1>0, <2>2 DEF Moves
  <2>4. PICK j \in 1 .. Len(c.moves) : m = c.moves[j]
    BY DEF LeftNew
  <2>5. Tracked(c, x, m.to) /\ x \in Del(c)
    BY <2>4 DEF Tracked, MovesIn
  <2>6. Follows(b, c, x, e)
    BY <1>3, <2>2, <2>3, <2>5 DEF Follows
  <2>7. x \notin U
    <3>1. x \notin Targets(b.moves, Len(b.moves))
      BY <1>3 DEF Targets, MovesIn
    <3>2. ASSUME NEW i \in 1 .. k PROVE u.new[i].from # x
      <4>1. i \in 1 .. Len(u.new) /\ i # p
        BY <1>0
      <4> QED
        BY <4>1 DEF LeftNew, Apart
    <3> QED
      BY <3>1, <3>2 DEF Between, Froms
  <2>8. /\ ModsKept(b, c, mods) /\ Members(acc.modifications) \subseteq Members(mods)
        /\ Marked(b, c, mods, x, m.to)
    <3>1. InSet(b.modifications, x) <=> x \in Mod(b)
      BY <1>0, InSetMeans DEF Mod
    <3> DEFINE y == m.to
    <3>y. y \in Nat /\ Tracked(c, x, y)
      BY <1>0, <2>5
    <3>2. CASE x \in Mod(b)
      <4>1. mods = AddIndex(acc.modifications, y)
        BY <3>1, <3>2
      <4> HIDE DEF mods, y, x
      <4>2. ModsKept(b, c, mods) /\ Members(acc.modifications) \subseteq Members(mods) /\ y \in Members(mods)
        BY <3>y, <3>2, <4>1, KeptMore
      <4> QED
        BY <4>2 DEF Marked, y
    <3>3. CASE x \notin Mod(b)
      BY <3>1, <3>3 DEF Marked
    <3> QED
      BY <3>2, <3>3
  <2>9. Followed(b, c, mods, W, Append(acc.moves, e))
    <3> DEFINE mv == acc.moves
               am == acc.modifications
    <3>1. /\ Followed(b, c, am, U, mv) /\ x \notin U /\ U \cup {x} \subseteq W /\ e \in Moves
          /\ Follows(b, c, x, e) /\ Members(am) \subseteq Members(mods) /\ Marked(b, c, mods, x, e.to)
      BY <1>1, <2>3, <2>6, <2>7, <2>8
    <3> HIDE DEF x, U, W, mv, am, e, mods
    <3>2. Followed(b, c, mods, W, Append(mv, e))
      BY <3>1, FollowedMore
    <3> QED
      BY <3>2 DEF mv
  <2> HIDE DEF e, mods, W
  <2>10. a.moves = Append(acc.moves, e) /\ a.modifications = mods
    BY <2>1
  <2> HIDE DEF a
  <2> QED
    BY <2>8, <2>9, <2>10 DEF a, W
<1> QED
  BY <1>2, <1>3

\* All moves made are moves of rows between the changes, the marks those of both.
LEMMA TakenIs ==
    ASSUME NEW b \in Builders, NEW c \in Builders, MovesIn(b), MovesIn(c),
           NEW u, u = UpdateOldMoves(b, c)
    PROVE  LET a == TakenOf(b, u)[Len(u.new)]
           IN  /\ a \in Taken /\ ModsKept(b, c, a.modifications)
               /\ \E U : Followed(b, c, a.modifications, U, a.moves)
<1> DEFINE n == Len(u.new)
           f == TakenOf(b, u)
           T == {k \in Nat : k <= n => /\ Followed(b, c, f[k].modifications, Between(b, u, k), f[k].moves)
                                       /\ ModsKept(b, c, f[k].modifications)}
<1>0. u \in Updates /\ UpdatedAt(b, c, Len(b.moves), u)
  BY UpdatedIs
<1>n. n \in Nat /\ LeftNew(b, c, Len(b.moves), u.new)
  BY <1>0 DEF Updates, UpdatedAt
<1>f. /\ f[0] = [moves |-> u.old, modifications |-> u.modifications]
      /\ \A k \in 1 .. n : f[k] = TakeAt(b, f[k - 1], u.new[k])
      /\ \A k \in 0 .. n : f[k] \in Taken
  BY <1>0, TakenRuns
<1> HIDE DEF f
<1>1. 0 \in T
  <2>1. f[0].moves = u.old /\ f[0].modifications = u.modifications
    BY <1>f
  <2>2. Followed(b, c, u.modifications, Targets(b.moves, Len(b.moves)), u.old) /\ ModsKept(b, c, u.modifications)
    BY <1>0 DEF UpdatedAt
  <2>3. Targets(b.moves, Len(b.moves)) \subseteq Between(b, u, 0)
    BY DEF Between
  <2>4. Followed(b, c, u.modifications, Between(b, u, 0), u.old)
    BY <2>2, <2>3, FollowedStill
  <2> QED
    BY <2>1, <2>2, <2>4
<1>2. ASSUME NEW k \in 0 .. n - 1, k \in T
      PROVE  k + 1 \in T
  <2> DEFINE p == k + 1
             acc == f[k]
             a == f[p]
  <2>1. k \in Nat /\ k <= n /\ p \in 1 .. n /\ p - 1 = k /\ p \in Nat /\ k \in 0 .. n
    BY <1>n
  <2>2. /\ Followed(b, c, acc.modifications, Between(b, u, k), acc.moves)
        /\ ModsKept(b, c, acc.modifications) /\ acc \in Taken
    BY <1>2, <1>f, <2>1
  <2>3. a = TakeAt(b, acc, u.new[p])
    BY <1>f, <2>1
  <2>4. p = k + 1 /\ p \in 1 .. Len(u.new)
    BY <2>1
  <2> HIDE DEF p, acc, a
  <2>5. Followed(b, c, a.modifications, Between(b, u, p), a.moves) /\ ModsKept(b, c, a.modifications)
    BY <1>0, <1>n, <2>1, <2>2, <2>3, <2>4, TakeStep
  <2> QED
    BY <2>1, <2>5 DEF p, a
<1> HIDE DEF T
<1>3. 0 .. n \subseteq T
  BY ONLY <1>n, <1>1, <1>2, UpTo, Zenon
<1>4. n \in 0 .. n /\ n <= n
  BY <1>n
<1>5. n \in T
  BY ONLY <1>3, <1>4
<1>6. f[n] \in Taken
  BY ONLY <1>f, <1>4
<1>7. Followed(b, c, f[n].modifications, Between(b, u, n), f[n].moves) /\ ModsKept(b, c, f[n].modifications)
  BY ONLY <1>4, <1>5 DEF T
<1> HIDE DEF n
<1>8. /\ f[n] \in Taken /\ ModsKept(b, c, f[n].modifications)
      /\ \E U : Followed(b, c, f[n].modifications, U, f[n].moves)
  BY <1>6, <1>7
<1> QED
  BY <1>8 DEF n, f

\* What merge makes of two change sets that both have changes.
MergeOf(b, c, mv) ==
    [NoChange EXCEPT
       !.moves = mv,
       !.deletions = AddShiftedBy(b.deletions, b.insertions, c.deletions),
       !.insertions = InsertIndexes(EraseIndexes(b.insertions, c.deletions), c.insertions)]
\* The modifications of merged changes.
MergeMods(b, c, mods) ==
    AddIndexes(ShiftForInserts(EraseIndexes(b.modifications, c.deletions), c.insertions), mods)

\* Merge in these parts, when neither change is empty.
LEMMA MergeRuns ==
    ASSUME NEW b, NEW c, ~IsEmpty(b), ~IsEmpty(c), NEW u, u = UpdateOldMoves(b, c),
           NEW a, a = TakenOf(b, u)[Len(u.new)]
    PROVE  Merge(b, c) = [CleanUpStaleMoves(MergeOf(b, c, a.moves)) EXCEPT
                            !.modifications = MergeMods(b, c, a.modifications)]
  BY DEF Merge, MergeOf, MergeMods, TakenOf, TakeAt, Was

\* What the merged deletions, insertions and modifications hold.
LEMMA MergeOfIs ==
    ASSUME NEW b \in Builders, NEW c \in Builders, NEW mv \in Seq(Moves), NEW mods \in Ranges
    PROVE  LET d == MergeOf(b, c, mv)
           IN  /\ d \in Builders /\ d.moves = mv /\ d.mapping = << >>
               /\ Pulled(Del(b), Ins(b), Del(c), Del(d))
               /\ Pulled(Ins(c), Del(c), Ins(b), Ins(d))
               /\ MergeMods(b, c, mods) \in Ranges
               /\ \A y : y \in Members(MergeMods(b, c, mods)) <=>
                    y \in Members(mods) \/ \E x \in Mod(b) : Mates(Del(c), Ins(c), x, y)
<1> DEFINE del == AddShiftedBy(b.deletions, b.insertions, c.deletions)
           ins == InsertIndexes(EraseIndexes(b.insertions, c.deletions), c.insertions)
           kept == ShiftForInserts(EraseIndexes(b.modifications, c.deletions), c.insertions)
           d == MergeOf(b, c, mv)
<1>0. /\ b.deletions \in Ranges /\ b.insertions \in Ranges /\ b.modifications \in Ranges
      /\ c.deletions \in Ranges /\ c.insertions \in Ranges
  BY BuilderIs
<1>1. /\ del \in Ranges
      /\ \A x : x \in Members(del) <=>
           x \in Del(b) \/ \E y \in Del(c) : Mates(Ins(b), Del(b), y, x)
  BY <1>0, AddShiftedByIs DEF Del, Ins
<1>2. /\ ins \in Ranges
      /\ \A y : y \in Members(ins) <=> y \in Ins(c) \/ \E x \in Ins(b) : Mates(Del(c), Ins(c), x, y)
  BY <1>0, InsertIndexesIs DEF Del, Ins
<1>3. /\ kept \in Ranges
      /\ \A y : y \in Members(kept) <=> \E x \in Mod(b) : Mates(Del(c), Ins(c), x, y)
  BY <1>0, InsertIndexesIs DEF Del, Ins, Mod
<1>4. d = [NoChange EXCEPT !.moves = mv, !.deletions = del, !.insertions = ins]
  BY DEF MergeOf
<1>5. NoChange \in Builders /\ NoChange.mapping = << >>
  BY NoChangeIs DEF NoChange
<1> HIDE DEF del, ins, kept, d
<1>6. d \in Builders /\ d.moves = mv /\ d.deletions = del /\ d.insertions = ins /\ d.mapping = << >>
  BY <1>1, <1>2, <1>4, <1>5 DEF Builders
<1>7. Pulled(Del(b), Ins(b), Del(c), Del(d))
  <2>1. Del(d) = Members(del)
    BY <1>6 DEF Del
  <2>2. \A x, y : Mates(Ins(b), Del(b), y, x) <=> Mates(Del(b), Ins(b), x, y)
    BY MatesOne
  <2> QED
    BY <1>1, <2>1, <2>2 DEF Pulled
<1>8. Pulled(Ins(c), Del(c), Ins(b), Ins(d))
  <2>1. Ins(d) = Members(ins)
    BY <1>6 DEF Ins
  <2>2. \A x, y : Mates(Del(c), Ins(c), x, y) <=> Mates(Ins(c), Del(c), y, x)
    BY MatesOne
  <2> QED
    BY <1>2, <2>1, <2>2 DEF Pulled
<1>9. MergeMods(b, c, mods) = AddIndexes(kept, mods)
  BY DEF MergeMods, kept
<1>10. MergeMods(b, c, mods) \in Ranges /\ Members(MergeMods(b, c, mods)) = Members(kept) \cup Members(mods)
  BY <1>3, <1>9, AddIndexesIs
<1> QED
  BY <1>3, <1>6, <1>7, <1>8, <1>10 DEF d

(***************************************************************************)
(* Merged right changes are right, and so are their modifications          *)
(* (MergeKeepsRight, MergeModsIn, MergeModsFound).                         *)
(***************************************************************************)

\* What is true of the changes of a list while its log is read.
ListRight(b, old, new) ==
    /\ Places(Del(b), Ins(b), old, new)
    /\ Known(b.moves, Del(b), Ins(b), old, new)
    /\ Apart(b.moves)

\* A move that differs from all others at both ends keeps moves apart.
LEMMA ApartMore ==
    ASSUME NEW mv \in Seq(Moves), Apart(mv), NEW m \in Moves,
           \A a \in 1 .. Len(mv) : mv[a].from # m.from /\ mv[a].to # m.to
    PROVE  Apart(Append(mv, m))
<1> DEFINE w == Append(mv, m)
           L == Len(mv)
<1>1. L \in Nat /\ Len(w) = L + 1 /\ w[L + 1] = m /\ \A a \in 1 .. L : w[a] = mv[a]
  OBVIOUS
<1>2. \A j, k \in 1 .. L : j # k => mv[j].from # mv[k].from /\ mv[j].to # mv[k].to
  BY DEF Apart
<1>3. \A a \in 1 .. L : mv[a].from # m.from /\ mv[a].to # m.to
  OBVIOUS
<1> HIDE DEF w, L
<1>4. \A a \in 1 .. L + 1 : a \in 1 .. L \/ a = L + 1
  BY <1>1
<1>5. ASSUME NEW j \in 1 .. L + 1, NEW k \in 1 .. L + 1, j # k
      PROVE  w[j].from # w[k].from /\ w[j].to # w[k].to
  <2>1. CASE j \in 1 .. L /\ k \in 1 .. L
    BY <1>1, <1>2, <1>5, <2>1
  <2>2. CASE j \in 1 .. L /\ k = L + 1
    BY <1>1, <1>3, <2>2
  <2>3. CASE j = L + 1 /\ k \in 1 .. L
    BY <1>1, <1>3, <2>3
  <2> QED
    BY <1>4, <1>5, <2>1, <2>2, <2>3
<1> QED
  BY <1>1, <1>5 DEF Apart, w

\* The moves that clean_up_stale_moves keeps are some of those there were,
\* and the insertions it removes are theirs.
CleanedFrom(b, k, acc) ==
    /\ Apart(acc.moves)
    /\ \A a \in 1 .. Len(acc.moves) : \E j \in 1 .. k : acc.moves[a] = b.moves[j]
    /\ \A y \in Ins(b) : y \in Ins(acc) \/ \E j \in 1 .. k : b.moves[j].to = y

\* One look of clean_up_stale_moves at a move: it stays, or leaves insertions alone.
LEMMA CleanedFromStep ==
    ASSUME NEW b \in Builders, Apart(b.moves), NEW k \in Nat, NEW p, p = k + 1, p \in 1 .. Len(b.moves),
           NEW acc \in Builders, CleanedFrom(b, k, acc)
    PROVE  CleanedFrom(b, p, LookAt(acc, b.moves[p]))
<1> DEFINE m == b.moves[p]
           c == LookAt(acc, m)
           am == acc.moves
           stale == Rank(Del(acc), m.from) = Rank(Ins(acc), m.to)
<1>0. b.moves \in Seq(Moves) /\ m \in Moves /\ am \in Seq(Moves)
  BY BuilderIs
<1>1. /\ stale => /\ Del(c) = Del(acc) \ {m.from} /\ Ins(c) = Ins(acc) \ {m.to} /\ c.moves = am
      /\ ~stale => Del(c) = Del(acc) /\ Ins(c) = Ins(acc) /\ c.moves = Append(am, m)
  <2> HIDE DEF m
  <2> QED
    BY <1>0, LookIs
<1>2. /\ Apart(am) /\ \A a \in 1 .. Len(am) : \E j \in 1 .. k : am[a] = b.moves[j]
      /\ \A y \in Ins(b) : y \in Ins(acc) \/ \E j \in 1 .. k : b.moves[j].to = y
  BY DEF CleanedFrom
<1>3. \A j \in 1 .. k : j \in 1 .. p
  OBVIOUS
<1>p. p \in 1 .. p
  OBVIOUS
<1>4. \A y \in Ins(b) : y \in Ins(c) \/ \E j \in 1 .. p : b.moves[j].to = y
  BY <1>1, <1>2, <1>3, <1>p
<1> HIDE DEF c
<1>5. CASE stale
  BY <1>1, <1>2, <1>3, <1>4, <1>5 DEF CleanedFrom, c
<1>6. CASE ~stale
  <2>1. ASSUME NEW a \in 1 .. Len(am) PROVE am[a].from # m.from /\ am[a].to # m.to
    <3>1. PICK j \in 1 .. k : am[a] = b.moves[j]
      BY <1>2
    <3>2. j \in 1 .. Len(b.moves) /\ j # p
      BY <1>0
    <3> QED
      BY <3>1, <3>2 DEF Apart
  <2> HIDE DEF m
  <2>2. Apart(c.moves)
    BY <1>0, <1>1, <1>2, <1>6, <2>1, ApartMore
  <2> DEFINE w == Append(am, m)
             L == Len(am)
  <2>3. L \in Nat /\ Len(w) = L + 1 /\ w[L + 1] = m /\ \A a \in 1 .. L : w[a] = am[a]
    BY <1>0
  <2>4. c.moves = w /\ \A a \in 1 .. L : \E j \in 1 .. k : am[a] = b.moves[j]
    BY <1>1, <1>2, <1>6
  <2> HIDE DEF w, L
  <2>5. \A a \in 1 .. L + 1 : a \in 1 .. L \/ a = L + 1
    BY <2>3
  <2>6. \A a \in 1 .. Len(c.moves) : \E j \in 1 .. p : c.moves[a] = b.moves[j]
    <3> SUFFICES ASSUME NEW a \in 1 .. L + 1
                 PROVE  \E j \in 1 .. p : w[a] = b.moves[j]
      BY <2>3, <2>4
    <3>1. CASE a \in 1 .. L
      BY <1>3, <2>3, <2>4, <3>1
    <3>2. CASE a = L + 1
      BY <1>p, <2>3, <3>2 DEF m
    <3> QED
      BY <2>5, <3>1, <3>2
  <2> QED
    BY <1>4, <2>2, <2>6 DEF CleanedFrom, c, m
<1> QED
  BY <1>5, <1>6

\* ... for all moves.
LEMMA CleanedFromIs ==
    ASSUME NEW b \in Builders, Apart(b.moves)
    PROVE  CleanedFrom(b, Len(b.moves), CleanUpStaleMoves(b))
<1> DEFINE n == Len(b.moves)
           f == CleanedUp(b)
           T == {k \in Nat : k <= n => CleanedFrom(b, k, f[k])}
<1>0. n \in Nat /\ b.moves \in Seq(Moves)
  BY BuilderIs
<1>f. /\ CleanUpStaleMoves(b) = f[n] /\ f[0] = [b EXCEPT !.moves = << >>]
      /\ \A k \in 1 .. n : f[k] = LookAt(f[k - 1], b.moves[k])
      /\ \A k \in 0 .. n : f[k] \in Builders
  BY CleanedRuns
<1> HIDE DEF f
<1>1. 0 \in T
  <2> DEFINE c == f[0]
  <2>1. c.insertions = b.insertions /\ c.moves = << >>
    BY <1>f DEF Builders
  <2> HIDE DEF c
  <2>2. Ins(c) = Ins(b)
    BY ONLY <2>1 DEF Ins
  <2>3. 1 .. Len(c.moves) = {}
    BY <2>1
  <2>4. CleanedFrom(b, 0, c)
    BY <2>2, <2>3 DEF CleanedFrom, Apart
  <2> QED
    BY <2>4 DEF c
<1>2. ASSUME NEW k \in 0 .. n - 1, k \in T
      PROVE  k + 1 \in T
  <2> DEFINE p == k + 1
             acc == f[k]
             c == f[p]
  <2>1. k \in Nat /\ k <= n /\ p \in 1 .. n /\ p - 1 = k /\ p \in Nat /\ k \in 0 .. n
    BY <1>0
  <2>2. CleanedFrom(b, k, acc) /\ acc \in Builders
    BY <1>2, <1>f, <2>1
  <2>3. c = LookAt(acc, b.moves[p])
    BY <1>f, <2>1
  <2>4. p = k + 1 /\ p \in 1 .. Len(b.moves)
    BY <2>1
  <2> HIDE DEF p, acc, c
  <2>5. CleanedFrom(b, p, c)
    BY <2>1, <2>2, <2>3, <2>4, CleanedFromStep
  <2> QED
    BY <2>1, <2>5 DEF p, c
<1> HIDE DEF T
<1>3. 0 .. n \subseteq T
  BY ONLY <1>0, <1>1, <1>2, UpTo, Zenon
<1>4. n \in 0 .. n /\ n <= n
  BY <1>0
<1>5. n \in T
  BY ONLY <1>3, <1>4
<1> QED
  BY <1>4, <1>5, <1>f DEF T

\* The moves of a right change are in its deletions and insertions.
LEMMA RightMovesIn ==
    ASSUME NEW b, NEW old, NEW new, ListRight(b, old, new)
    PROVE  MovesIn(b)
  BY DEF ListRight, MovesIn, Known

\* A row tracked through changes that are right is the same row.
LEMMA TrackedRow ==
    ASSUME NEW c, NEW mid \in Seq(Nat), NEW new \in Seq(Nat), ListRight(c, mid, new),
           NEW x, NEW y, Tracked(c, x, y), x < Len(mid) \/ y < Len(new)
    PROVE  x \in 0 .. Len(mid) - 1 /\ y \in 0 .. Len(new) - 1 /\ mid[x + 1] = new[y + 1]
<1>1. Mated(Del(c), Ins(c), mid, new)
  BY PlacesMates DEF ListRight
<1>2. CASE \E j \in 1 .. Len(c.moves) : c.moves[j].from = x /\ c.moves[j].to = y
  <2>1. PICK j \in 1 .. Len(c.moves) : c.moves[j].from = x /\ c.moves[j].to = y
    BY <1>2
  <2>2. x \in Del(c) /\ y \in Ins(c) /\ mid[x + 1] = new[y + 1]
    BY <2>1 DEF ListRight, Known
  <2>3. Del(c) \subseteq 0 .. Len(mid) - 1 /\ Ins(c) \subseteq 0 .. Len(new) - 1
    BY DEF ListRight, Places
  <2> QED
    BY <2>2, <2>3
<1>3. CASE Mates(Del(c), Ins(c), x, y)
  BY <1>1, <1>3 DEF Mated
<1> QED
  BY <1>2, <1>3 DEF Tracked

\* A move that follows a row is of that row.
LEMMA FollowsRow ==
    ASSUME NEW b \in Builders, NEW c \in Builders,
           NEW old \in Seq(Nat), NEW mid \in Seq(Nat), NEW new \in Seq(Nat),
           ListRight(b, old, mid), ListRight(c, mid, new),
           NEW x, NEW m, Follows(b, c, x, m)
    PROVE  /\ x \in 0 .. Len(mid) - 1 /\ m.to \in 0 .. Len(new) - 1
           /\ old[m.from + 1] = mid[x + 1] /\ mid[x + 1] = new[m.to + 1]
           /\ x \notin Ins(b) \/ \E i \in 1 .. Len(b.moves) : b.moves[i].to = x
           /\ m.from \in Del(b) \/ \E v \in Del(c) : Mates(Del(b), Ins(b), m.from, v)
           /\ m.to \in Ins(c) \/ \E v \in Ins(b) : Mates(Del(c), Ins(c), v, m.to)
<1>1. Mated(Del(b), Ins(b), old, mid)
  BY PlacesMates DEF ListRight
<1>2. /\ Ins(b) \subseteq 0 .. Len(mid) - 1 /\ Del(c) \subseteq 0 .. Len(mid) - 1
      /\ Len(mid) \in Nat /\ Len(new) \in Nat
  BY DEF ListRight, Places
<1>3. Tracked(c, x, m.to)
  BY DEF Follows
<1>4. (\E j \in 1 .. Len(c.moves) : c.moves[j].from = x /\ c.moves[j].to = m.to) => m.to \in Ins(c)
  BY DEF ListRight, Known
<1>5. CASE \E i \in 1 .. Len(b.moves) : b.moves[i].to = x /\ b.moves[i].from = m.from
  <2>1. x \in Ins(b) /\ m.from \in Del(b) /\ old[m.from + 1] = mid[x + 1]
    BY <1>5 DEF ListRight, Known
  <2>2. x < Len(mid)
    BY <1>2, <2>1
  <2>3. m.to \in 0 .. Len(new) - 1 /\ mid[x + 1] = new[m.to + 1] /\ x \in 0 .. Len(mid) - 1
    BY <1>3, <2>2, TrackedRow
  <2>4. m.to \in Ins(c) \/ \E v \in Ins(b) : Mates(Del(c), Ins(c), v, m.to)
    BY <1>3, <1>4, <2>1 DEF Tracked
  <2> QED
    BY <1>5, <2>1, <2>3, <2>4
<1>6. CASE x \notin Ins(b) /\ x \in Del(c) /\ Mates(Del(b), Ins(b), m.from, x)
  <2>1. x < Len(mid)
    BY <1>2, <1>6
  <2>2. m.to \in 0 .. Len(new) - 1 /\ mid[x + 1] = new[m.to + 1] /\ x \in 0 .. Len(mid) - 1
    BY <1>3, <2>1, TrackedRow
  <2>3. m.from < Len(old)
    BY <1>1, <1>6, <2>1 DEF Mated
  <2>4. old[m.from + 1] = mid[x + 1]
    BY <1>1, <1>6, <2>3 DEF Mated
  <2>5. m.to \in Ins(c)
    BY <1>3, <1>4, <1>6 DEF Tracked, Mates
  <2> QED
    BY <1>6, <2>2, <2>4, <2>5
<1> QED
  BY <1>5, <1>6 DEF Follows

\* The merged changes before the stale moves go are right.
LEMMA MergedRight ==
    ASSUME NEW b \in Builders, NEW c \in Builders,
           NEW old \in Seq(Nat), NEW mid \in Seq(Nat), NEW new \in Seq(Nat),
           ListRight(b, old, mid), ListRight(c, mid, new),
           NEW mods, NEW U, NEW mv, Followed(b, c, mods, U, mv)
    PROVE  ListRight(MergeOf(b, c, mv), old, new)
<1> DEFINE d == MergeOf(b, c, mv)
<1>0. mv \in Seq(Moves) /\ Apart(mv)
  BY DEF Followed
<1>1. /\ d.moves = mv /\ d \in Builders
      /\ Pulled(Del(b), Ins(b), Del(c), Del(d)) /\ Pulled(Ins(c), Del(c), Ins(b), Ins(d))
  BY <1>0, EmptyRanges, MergeOfIs
<1> HIDE DEF d
<1>2. Places(Del(d), Ins(d), old, new)
  <2>1. /\ Del(b) \in SUBSET Nat /\ Ins(b) \in SUBSET Nat /\ Del(c) \in SUBSET Nat /\ Ins(c) \in SUBSET Nat
        /\ Places(Del(b), Ins(b), old, mid) /\ Places(Del(c), Ins(c), mid, new)
    BY BuilderIs DEF ListRight
  <2> QED
    BY <1>1, <2>1, PlacesMerged
<1>3. ASSUME NEW k \in 1 .. Len(mv)
      PROVE  mv[k].from \in Del(d) /\ mv[k].to \in Ins(d) /\ old[mv[k].from + 1] = new[mv[k].to + 1]
  <2> DEFINE m == mv[k]
  <2>1. PICK x \in U : Follows(b, c, x, m)
    BY DEF Followed
  <2> HIDE DEF m
  <2>2. /\ x \in 0 .. Len(mid) - 1 /\ m.to \in 0 .. Len(new) - 1
        /\ old[m.from + 1] = mid[x + 1] /\ mid[x + 1] = new[m.to + 1]
        /\ x \notin Ins(b) \/ \E i \in 1 .. Len(b.moves) : b.moves[i].to = x
        /\ m.from \in Del(b) \/ \E v \in Del(c) : Mates(Del(b), Ins(b), m.from, v)
        /\ m.to \in Ins(c) \/ \E v \in Ins(b) : Mates(Del(c), Ins(c), v, m.to)
    BY <2>1, FollowsRow
  <2>3. m.from \in Del(d)
    BY <1>1, <2>2 DEF Pulled
  <2>4. m.to \in Ins(d)
    <3>1. CASE m.to \in Ins(c)
      BY <1>1, <3>1 DEF Pulled
    <3>2. CASE \E v \in Ins(b) : Mates(Del(c), Ins(c), v, m.to)
      <4>1. PICK v \in Ins(b) : Mates(Del(c), Ins(c), v, m.to)
        BY <3>2
      <4>2. Mates(Ins(c), Del(c), m.to, v)
        BY <4>1, MatesOne
      <4> QED
        BY <1>1, <4>2 DEF Pulled
    <3> QED
      BY <2>2, <3>1, <3>2
  <2> QED
    BY <2>2, <2>3, <2>4 DEF m
<1> QED
  BY <1>0, <1>1, <1>2, <1>3 DEF ListRight, Known, d

\* The modifications are of rows in F ...
ModsIn(b, new, F) == Mod(b) \subseteq 0 .. Len(new) - 1 /\ \A y \in Mod(b) : new[y + 1] \in F
\* ... and of all of them, but for those that are only inserted.
Found(b, y) == y \notin Ins(b) \/ \E k \in 1 .. Len(b.moves) : b.moves[k].to = y
\* What is found and in F is marked.
ModsFound(b, new, F) ==
    \A y \in 0 .. Len(new) - 1 : new[y + 1] \in F /\ Found(b, y) => y \in Mod(b)

\* Changes that are right and change nothing.
LEMMA NothingChanged ==
    ASSUME NEW b \in Builders, IsEmpty(b), NEW old \in Seq(Nat), NEW new \in Seq(Nat), ListRight(b, old, new)
    PROVE  old = new /\ Mod(b) = {} /\ Ins(b) = {} /\ Len(b.moves) = 0
<1>1. Del(b) = {} /\ Ins(b) = {} /\ Mod(b) = {} /\ Len(b.moves) = 0
  BY EmptyRanges DEF IsEmpty, Del, Ins, Mod
<1>2. Mated({}, {}, old, new)
  BY <1>1, PlacesMates DEF ListRight
<1>3. \A x \in Nat : Rank({}, x) = x
  <2> DEFINE T == {x \in Nat : Rank({}, x) = x}
  <2>0. \A x \in Nat : Rank({}, x + 1) = Rank({}, x) + 1
    BY RankSteps
  <2>1. 0 \in T
    BY RankSteps
  <2> SUFFICES ASSUME NEW n \in Nat PROVE n \in T
    OBVIOUS
  <2>2. ASSUME NEW k \in 0 .. n - 1, k \in T PROVE k + 1 \in T
    BY <2>0, <2>2
  <2> HIDE DEF T
  <2>3. 0 .. n \subseteq T
    BY <2>1, <2>2, UpTo
  <2> QED
    BY <2>3
<1>4. \A x \in Nat : Mates({}, {}, x, x)
  BY DEF Mates
<1>5. Len(old) \in Nat /\ Len(new) \in Nat
  OBVIOUS
<1>6. Len(old) = Len(new)
  BY <1>1, <1>3, <1>5 DEF ListRight, Places
<1>7. ASSUME NEW x \in 0 .. Len(old) - 1 PROVE old[x + 1] = new[x + 1]
  <2>1. x \in Nat /\ x < Len(old)
    BY <1>5
  <2>2. Mates({}, {}, x, x)
    BY <1>4, <2>1
  <2> QED
    BY <1>2, <2>1, <2>2 DEF Mated
<1>8. \A k \in 1 .. Len(old) : old[k] = new[k]
  <2> TAKE k \in 1 .. Len(old)
  <2>1. k - 1 \in 0 .. Len(old) - 1 /\ (k - 1) + 1 = k
    BY <1>5
  <2> QED
    BY <1>7, <2>1
<1>9. old = new
  BY <1>6, <1>8
<1> QED
  BY <1>1, <1>9

\* A row tracked through c keeps its place, or is moved there.
LEMMA TrackedFound ==
    ASSUME NEW c, NEW x, NEW y, Tracked(c, x, y)
    PROVE  Found(c, y)
  BY DEF Tracked, Found, Mates

\* Where a position that is not only inserted comes from.
LEMMA FoundComes ==
    ASSUME NEW c \in Builders, NEW mid \in Seq(Nat), NEW new \in Seq(Nat), ListRight(c, mid, new),
           NEW y \in 0 .. Len(new) - 1, Found(c, y)
    PROVE  \E x \in 0 .. Len(mid) - 1 : Tracked(c, x, y) /\ mid[x + 1] = new[y + 1]
<1>1. Mated(Del(c), Ins(c), mid, new)
  BY PlacesMates DEF ListRight
<1>2. CASE y \notin Ins(c)
  <2>1. PICK x \in 0 .. Len(mid) - 1 : Mates(Del(c), Ins(c), x, y)
    BY <1>1, <1>2 DEF Mated
  <2>2. Tracked(c, x, y) /\ y < Len(new)
    BY <2>1 DEF Tracked
  <2>3. x \in 0 .. Len(mid) - 1 /\ y \in 0 .. Len(new) - 1 /\ mid[x + 1] = new[y + 1]
    BY <2>2, TrackedRow
  <2> QED
    BY <2>2, <2>3
<1>3. CASE \E k \in 1 .. Len(c.moves) : c.moves[k].to = y
  <2>1. PICK k \in 1 .. Len(c.moves) : c.moves[k].to = y
    BY <1>3
  <2> DEFINE x == c.moves[k].from
  <2>2. Tracked(c, x, y) /\ y < Len(new)
    BY <2>1 DEF Tracked
  <2> HIDE DEF x
  <2>3. x \in 0 .. Len(mid) - 1 /\ y \in 0 .. Len(new) - 1 /\ mid[x + 1] = new[y + 1]
    BY <2>2, TrackedRow
  <2> QED
    BY <2>2, <2>3
<1> QED
  BY <1>2, <1>3 DEF Found

\* Both change sets have changes.
Merging(b, c, d, e, g, mods) ==
    /\ d \in Builders /\ e \in Builders /\ g \in Builders
    /\ e = CleanUpStaleMoves(d) /\ CleanedFrom(d, Len(d.moves), e)
    /\ g.deletions = e.deletions /\ g.insertions = e.insertions /\ g.moves = e.moves
    /\ Del(g) = Del(e) /\ Ins(g) = Ins(e)
    /\ \E U : Followed(b, c, mods, U, d.moves)
    /\ ModsKept(b, c, mods)
    /\ Pulled(Ins(c), Del(c), Ins(b), Ins(d))
    /\ \A y : y \in Mod(g) <=> y \in Members(mods) \/ \E x \in Mod(b) : Mates(Del(c), Ins(c), x, y)

\* Merge, step by step.
LEMMA MergingIs ==
    ASSUME NEW b \in Builders, NEW c \in Builders, MovesIn(b), MovesIn(c), ~IsEmpty(b), ~IsEmpty(c)
    PROVE  \E d, e, mods : Merging(b, c, d, e, Merge(b, c), mods) /\ d = MergeOf(b, c, d.moves)
<1> DEFINE u == UpdateOldMoves(b, c)
           a == TakenOf(b, u)[Len(u.new)]
           mods == a.modifications
           d == MergeOf(b, c, a.moves)
           e == CleanUpStaleMoves(d)
           g == Merge(b, c)
<1>1. /\ a \in Taken /\ ModsKept(b, c, mods)
      /\ \E U : Followed(b, c, mods, U, a.moves)
  BY TakenIs
<1>2. g = [e EXCEPT !.modifications = MergeMods(b, c, mods)]
  BY MergeRuns
<1> HIDE DEF a, g
<1>3. a.moves \in Seq(Moves) /\ mods \in Ranges /\ Apart(a.moves)
  BY <1>1 DEF Taken, Followed
<1>4. /\ d \in Builders /\ d.moves = a.moves
      /\ Pulled(Ins(c), Del(c), Ins(b), Ins(d))
      /\ MergeMods(b, c, mods) \in Ranges
      /\ \A y : y \in Members(MergeMods(b, c, mods)) <=>
           y \in Members(mods) \/ \E x \in Mod(b) : Mates(Del(c), Ins(c), x, y)
  BY <1>3, MergeOfIs
<1>d. d = MergeOf(b, c, d.moves)
  BY <1>4
<1> HIDE DEF d, mods
<1>5. CleanedFrom(d, Len(d.moves), e)
  BY <1>3, <1>4, CleanedFromIs
<1>6. e \in Builders
  <2>1. e = CleanedUp(d)[Len(d.moves)] /\ \A k \in 0 .. Len(d.moves) : CleanedUp(d)[k] \in Builders
    BY <1>4, CleanedRuns
  <2>2. Len(d.moves) \in 0 .. Len(d.moves)
    BY <1>3, <1>4
  <2> QED
    BY <2>1, <2>2
<1>e. e = CleanUpStaleMoves(d)
  OBVIOUS
<1> HIDE DEF e
<1>7. /\ g \in Builders /\ g.deletions = e.deletions /\ g.insertions = e.insertions /\ g.moves = e.moves
      /\ g.modifications = MergeMods(b, c, mods)
  BY <1>2, <1>4, <1>6 DEF Builders
<1>8. Del(g) = Del(e) /\ Ins(g) = Ins(e)
  BY <1>7 DEF Del, Ins
<1>9. \A y : y \in Mod(g) <=> y \in Members(mods) \/ \E x \in Mod(b) : Mates(Del(c), Ins(c), x, y)
  BY <1>4, <1>7 DEF Mod
<1>10. Merging(b, c, d, e, g, mods)
  BY <1>1, <1>4, <1>5, <1>6, <1>7, <1>8, <1>9, <1>e DEF Merging
<1> QED
  BY <1>10, <1>d DEF g

\* merge keeps the changes right.
LEMMA MergeKeepsRight ==
    ASSUME NEW b \in Builders, NEW c \in Builders,
           NEW old \in Seq(Nat), NEW mid \in Seq(Nat), NEW new \in Seq(Nat),
           ListRight(b, old, mid), ListRight(c, mid, new)
    PROVE  Merge(b, c) \in Builders /\ ListRight(Merge(b, c), old, new)
<1>1. CASE IsEmpty(c)
  <2>1. Merge(b, c) = b
    BY <1>1 DEF Merge
  <2>2. mid = new
    BY <1>1, NothingChanged
  <2> QED
    BY <2>1, <2>2
<1>2. CASE IsEmpty(b) /\ ~IsEmpty(c)
  <2>1. Merge(b, c) = c
    BY <1>2 DEF Merge
  <2>2. old = mid
    BY <1>2, NothingChanged
  <2> QED
    BY <2>1, <2>2
<1>3. CASE ~IsEmpty(b) /\ ~IsEmpty(c)
  <2> DEFINE g == Merge(b, c)
  <2>0. MovesIn(b) /\ MovesIn(c)
    BY RightMovesIn
  <2>1. PICK d, e, mods : Merging(b, c, d, e, g, mods) /\ d = MergeOf(b, c, d.moves)
    BY <1>3, <2>0, MergingIs
  <2> HIDE DEF g
  <2>2. /\ d \in Builders /\ e = CleanUpStaleMoves(d) /\ g \in Builders /\ g.moves = e.moves
        /\ Del(g) = Del(e) /\ Ins(g) = Ins(e) /\ Apart(e.moves)
    BY <2>1 DEF Merging, CleanedFrom
  <2>3. PICK U : Followed(b, c, mods, U, d.moves)
    BY <2>1 DEF Merging
  <2>4. ListRight(d, old, new)
    <3> DEFINE mv == d.moves
    <3> HIDE DEF mv
    <3>1. ListRight(MergeOf(b, c, mv), old, new)
      BY <2>3, MergedRight DEF mv
    <3> QED
      BY <2>1, <3>1 DEF mv
  <2>5. Places(Del(e), Ins(e), old, new) /\ Known(e.moves, Del(e), Ins(e), old, new)
    <3>1. Places(Del(d), Ins(d), old, new) /\ Known(d.moves, Del(d), Ins(d), old, new) /\ Apart(d.moves)
      BY <2>4 DEF ListRight
    <3> QED
      BY <2>2, <3>1, CleanedIs
  <2> QED
    BY <2>2, <2>5 DEF ListRight, g
<1> QED
  BY <1>1, <1>2, <1>3

\* The modifications it keeps are of rows modified before or after.
LEMMA MergeModsIn ==
    ASSUME NEW b \in Builders, NEW c \in Builders,
           NEW old \in Seq(Nat), NEW mid \in Seq(Nat), NEW new \in Seq(Nat),
           ListRight(b, old, mid), ListRight(c, mid, new),
           NEW F, NEW G, NEW H, ModsIn(b, mid, F), ModsIn(c, new, G),
           \A y \in 0 .. Len(new) - 1 : new[y + 1] \in F \cup G => new[y + 1] \in H
    PROVE  ModsIn(Merge(b, c), new, H)
<1>1. CASE IsEmpty(c)
  <2>1. Merge(b, c) = b
    BY <1>1 DEF Merge
  <2>2. mid = new
    BY <1>1, NothingChanged
  <2> QED
    BY <2>1, <2>2 DEF ModsIn
<1>2. CASE IsEmpty(b) /\ ~IsEmpty(c)
  <2>1. Merge(b, c) = c
    BY <1>2 DEF Merge
  <2> QED
    BY <2>1 DEF ModsIn
<1>3. CASE ~IsEmpty(b) /\ ~IsEmpty(c)
  <2> DEFINE g == Merge(b, c)
  <2>0. MovesIn(b) /\ MovesIn(c)
    BY RightMovesIn
  <2>1. PICK d, e, mods : Merging(b, c, d, e, g, mods) /\ d = MergeOf(b, c, d.moves)
    BY <1>3, <2>0, MergingIs
  <2> HIDE DEF g
  <2>2. \A y : y \in Mod(g) <=> y \in Members(mods) \/ \E x \in Mod(b) : Mates(Del(c), Ins(c), x, y)
    BY <2>1 DEF Merging
  <2>3. \A y \in Members(mods) : y \in Mod(c) \/ \E x \in Mod(b) : Tracked(c, x, y)
    BY <2>1 DEF Merging, ModsKept
  <2>4. ASSUME NEW y \in Mod(g) PROVE y \in 0 .. Len(new) - 1 /\ new[y + 1] \in F \cup G
    <3>1. CASE y \in Mod(c)
      BY <3>1 DEF ModsIn
    <3>2. CASE \E x \in Mod(b) : Tracked(c, x, y)
      <4>1. PICK x \in Mod(b) : Tracked(c, x, y)
        BY <3>2
      <4>2. x \in 0 .. Len(mid) - 1 /\ mid[x + 1] \in F
        BY DEF ModsIn
      <4>3. x < Len(mid)
        BY <4>2
      <4>4. y \in 0 .. Len(new) - 1 /\ mid[x + 1] = new[y + 1]
        BY <4>1, <4>3, TrackedRow
      <4> QED
        BY <4>2, <4>4
    <3>3. (\E x \in Mod(b) : Mates(Del(c), Ins(c), x, y)) => \E x \in Mod(b) : Tracked(c, x, y)
      BY DEF Tracked
    <3> QED
      BY <2>2, <2>3, <3>1, <3>2, <3>3
  <2> QED
    BY <2>4 DEF ModsIn, g
<1> QED
  BY <1>1, <1>2, <1>3

\* What the stale moves leave known was known before.
LEMMA FoundBefore ==
    ASSUME NEW d \in Builders, NEW e \in Builders, CleanedFrom(d, Len(d.moves), e), NEW y, Found(e, y)
    PROVE  Found(d, y)
<1>1. CASE y \notin Ins(e)
  BY <1>1 DEF CleanedFrom, Found
<1>2. CASE \E k \in 1 .. Len(e.moves) : e.moves[k].to = y
  <2>1. PICK k \in 1 .. Len(e.moves) : e.moves[k].to = y
    BY <1>2
  <2>2. \E j \in 1 .. Len(d.moves) : e.moves[k] = d.moves[j]
    BY DEF CleanedFrom
  <2> QED
    BY <2>1, <2>2 DEF Found
<1> QED
  BY <1>1, <1>2 DEF Found

\* No modification is lost.
LEMMA MergeModsFound ==
    ASSUME NEW b \in Builders, NEW c \in Builders,
           NEW old \in Seq(Nat), NEW mid \in Seq(Nat), NEW new \in Seq(Nat),
           ListRight(b, old, mid), ListRight(c, mid, new),
           NEW F, NEW G, NEW H, ModsFound(b, mid, F), ModsFound(c, new, G), H \subseteq F \cup G
    PROVE  ModsFound(Merge(b, c), new, H)
<1>b. ASSUME NEW x \in 0 .. Len(mid) - 1, mid[x + 1] \in F, Found(b, x) PROVE x \in Mod(b)
  BY <1>b DEF ModsFound
<1>c. ASSUME NEW y \in 0 .. Len(new) - 1, new[y + 1] \in G, Found(c, y) PROVE y \in Mod(c)
  BY <1>c DEF ModsFound
<1>1. CASE IsEmpty(c)
  <2>1. Merge(b, c) = b
    BY <1>1 DEF Merge
  <2>2. mid = new /\ Mod(c) = {} /\ Ins(c) = {}
    BY <1>1, NothingChanged
  <2>3. ASSUME NEW y \in 0 .. Len(new) - 1, new[y + 1] \in H, Found(b, y) PROVE y \in Mod(b)
    <3>1. Found(c, y)
      BY <2>2 DEF Found
    <3>2. new[y + 1] \notin G
      BY <1>c, <2>2, <3>1
    <3> QED
      BY <1>b, <2>2, <2>3, <3>2
  <2> QED
    BY <2>1, <2>3 DEF ModsFound
<1>2. CASE IsEmpty(b) /\ ~IsEmpty(c)
  <2>1. Merge(b, c) = c
    BY <1>2 DEF Merge
  <2>2. old = mid /\ Mod(b) = {} /\ Ins(b) = {}
    BY <1>2, NothingChanged
  <2>3. ASSUME NEW y \in 0 .. Len(new) - 1, new[y + 1] \in H, Found(c, y) PROVE y \in Mod(c)
    <3>1. PICK x \in 0 .. Len(mid) - 1 : Tracked(c, x, y) /\ mid[x + 1] = new[y + 1]
      BY <2>3, FoundComes
    <3>2. Found(b, x)
      BY <2>2 DEF Found
    <3>3. new[y + 1] \notin F
      BY <1>b, <2>2, <3>1, <3>2
    <3> QED
      BY <1>c, <2>3, <3>3
  <2> QED
    BY <2>1, <2>3 DEF ModsFound
<1>3. CASE ~IsEmpty(b) /\ ~IsEmpty(c)
  <2> DEFINE g == Merge(b, c)
  <2>0. MovesIn(b) /\ MovesIn(c)
    BY RightMovesIn
  <2>1. PICK d, e, mods : Merging(b, c, d, e, g, mods) /\ d = MergeOf(b, c, d.moves)
    BY <1>3, <2>0, MergingIs
  <2> HIDE DEF g
  <2>2. \A y : y \in Mod(g) <=> y \in Members(mods) \/ \E x \in Mod(b) : Mates(Del(c), Ins(c), x, y)
    BY <2>1 DEF Merging
  <2>3. /\ d \in Builders /\ e \in Builders /\ CleanedFrom(d, Len(d.moves), e)
        /\ Ins(g) = Ins(e) /\ g.moves = e.moves /\ Pulled(Ins(c), Del(c), Ins(b), Ins(d))
        /\ Mod(c) \subseteq Members(mods)
    BY <2>1 DEF Merging, ModsKept
  <2>4. PICK U : Followed(b, c, mods, U, d.moves)
    BY <2>1 DEF Merging
  <2>5. ASSUME NEW y \in 0 .. Len(new) - 1, new[y + 1] \in H, Found(g, y) PROVE y \in Mod(g)
    <3>1. Found(d, y)
      <4>1. Found(e, y)
        BY <2>3, <2>5 DEF Found
      <4> QED
        BY <2>3, <4>1, FoundBefore
    <3>2. PICK x \in 0 .. Len(mid) - 1 :
            Tracked(c, x, y) /\ mid[x + 1] = new[y + 1] /\ Found(b, x) /\ Marked(b, c, mods, x, y)
      <4>1. CASE y \notin Ins(d)
        <5>1. y \notin Ins(c)
          BY <2>3, <4>1 DEF Pulled
        <5>2. PICK x \in 0 .. Len(mid) - 1 : Tracked(c, x, y) /\ mid[x + 1] = new[y + 1]
          BY <5>1, FoundComes DEF Found
        <5>3. Mates(Del(c), Ins(c), x, y)
          <6>1. (\E j \in 1 .. Len(c.moves) : c.moves[j].from = x /\ c.moves[j].to = y) => y \in Ins(c)
            BY <2>0 DEF MovesIn
          <6> QED
            BY <5>1, <5>2, <6>1 DEF Tracked
        <5>4. x \notin Ins(b)
          <6>1. Mates(Ins(c), Del(c), y, x)
            BY <5>3, MatesOne
          <6> QED
            BY <2>3, <4>1, <6>1 DEF Pulled
        <5> QED
          BY <5>1, <5>2, <5>4 DEF Found, Marked
      <4>2. CASE \E k \in 1 .. Len(d.moves) : d.moves[k].to = y
        <5>1. PICK k \in 1 .. Len(d.moves) : d.moves[k].to = y
          BY <4>2
        <5> DEFINE m == d.moves[k]
        <5>2. PICK x \in U : Follows(b, c, x, m) /\ Marked(b, c, mods, x, m.to)
          BY <2>4 DEF Followed
        <5>3. m.to = y
          BY <5>1
        <5> HIDE DEF m
        <5>4. /\ x \in 0 .. Len(mid) - 1 /\ m.to \in 0 .. Len(new) - 1
              /\ old[m.from + 1] = mid[x + 1] /\ mid[x + 1] = new[m.to + 1]
              /\ x \notin Ins(b) \/ \E i \in 1 .. Len(b.moves) : b.moves[i].to = x
              /\ m.from \in Del(b) \/ \E v \in Del(c) : Mates(Del(b), Ins(b), m.from, v)
              /\ m.to \in Ins(c) \/ \E v \in Ins(b) : Mates(Del(c), Ins(c), v, m.to)
          BY <5>2, FollowsRow
        <5>5. Tracked(c, x, y)
          BY <5>2, <5>3 DEF Follows
        <5>6. mid[x + 1] = new[y + 1] /\ Found(b, x) /\ Marked(b, c, mods, x, y)
          BY <5>2, <5>3, <5>4 DEF Found
        <5> QED
          BY <5>4, <5>5, <5>6
      <4> QED
        BY <3>1, <4>1, <4>2 DEF Found
    <3>3. CASE new[y + 1] \in G
      <4>1. Found(c, y)
        BY <3>2, TrackedFound
      <4> QED
        BY <1>c, <2>2, <2>3, <3>3, <4>1
    <3>4. CASE new[y + 1] \in F
      <4>1. x \in Mod(b)
        BY <1>b, <3>2, <3>4
      <4>2. CASE y \in Ins(c)
        BY <2>2, <3>2, <4>1, <4>2 DEF Marked
      <4>3. CASE y \notin Ins(c)
        <5>1. (\E j \in 1 .. Len(c.moves) : c.moves[j].from = x /\ c.moves[j].to = y) => y \in Ins(c)
          BY <2>0 DEF MovesIn
        <5>2. Mates(Del(c), Ins(c), x, y)
          BY <3>2, <4>3, <5>1 DEF Tracked
        <5> QED
          BY <2>2, <4>1, <5>2
      <4> QED
        BY <4>2, <4>3
    <3> QED
      BY <2>5, <3>3, <3>4
  <2> QED
    BY <2>5 DEF ModsFound, g
<1> QED
  BY <1>1, <1>2, <1>3
==================================================================================
