-------------------------- MODULE HeroList_proofs --------------------------
(***************************************************************************)
(* For every catalogue, every number of fetches and every interleaving:    *)
(* the hero list uses the service as HeroService allows, its state is type *)
(* correct, no hero is shown that was not handed to Realm, no more rows    *)
(* are written than the responses held heroes, the interactor stands where *)
(* the answers put it, a filtered grid is the selection of the active      *)
(* filters and a filter screen opened again shows them.                    *)
(***************************************************************************)
EXTENDS HeroList, TLAPS, FiniteSetTheorems, WellFoundedInduction

----------------------------------------------------------------------------
(* What the operators of HeroCatalog return, for every catalogue and every *)
(* selection.  First, induction over the naturals, for sets of numbers.    *)

Less == {p \in Nat \X Nat : p[1] < p[2]}

(* A non-empty set of naturals has a least element.                        *)
LEMMA LeastNumber ==
    ASSUME NEW T \in SUBSET Nat, T # {}
    PROVE  \E x \in T : \A y \in T : ~(y < x)
<1>1. IsWellFoundedOn(Less, Nat)
  BY NatLessThanWellFounded DEF OpToRel, Less
<1>2. \E x \in T : \A y \in T : ~(<< y, x >> \in Less)
  BY <1>1, WFMin, Zenon
<1> QED
  BY <1>2 DEF Less

(* A non-empty set of places has a last one, and place n + 1 comes after.  *)
LEMMA MaxNumber ==
    ASSUME NEW n \in Nat, NEW I \in SUBSET (1 .. n), I # {}
    PROVE  Max(I) \in I /\ \A i \in I : i <= Max(I)
<1> DEFINE T == {k \in 0 .. n : n - k \in I}
<1>1. T \in SUBSET Nat /\ T # {}
  <2>1. PICK i \in I : TRUE
    OBVIOUS
  <2>2. i \in 1 .. n
    OBVIOUS
  <2>3. n - i \in 0 .. n /\ n - (n - i) \in I
    BY <2>2
  <2>4. n - i \in T
    BY <2>3
  <2>5. T \in SUBSET Nat
    OBVIOUS
  <2> HIDE DEF T
  <2> QED
    BY <2>4, <2>5
<1>2. PICK x \in T : \A y \in T : ~(y < x)
  BY <1>1, LeastNumber
<1>3. x \in 0 .. n /\ n - x \in I
  OBVIOUS
<1>4. ASSUME NEW j \in I
      PROVE  n - x >= j
  <2>0. j \in 1 .. n
    OBVIOUS
  <2>1. n - j \in 0 .. n /\ n - (n - j) = j /\ j \in Nat
    BY <2>0
  <2>2. ~(n - j < x)
    BY <1>2, <2>1
  <2> QED
    BY <1>3, <2>1, <2>2
<1> HIDE DEF T
<1>5. \E k \in I : \A j \in I : k >= j
  BY <1>3, <1>4
<1>6. Max(I) \in I /\ \A j \in I : Max(I) >= j
  BY <1>5 DEF Max
<1>7. \A j \in I : j \in Nat
  OBVIOUS
<1> QED
  BY <1>6, <1>7

LEMMA MaxOfNext ==
    ASSUME NEW n \in Nat, NEW I \in SUBSET (1 .. n)
    PROVE  Max(I \cup {n + 1}) = n + 1
<1>1. I \cup {n + 1} \in SUBSET (1 .. n + 1) /\ I \cup {n + 1} # {}
  OBVIOUS
<1>2. Max(I \cup {n + 1}) \in I \cup {n + 1} /\ \A i \in I \cup {n + 1} : i <= Max(I \cup {n + 1})
  BY <1>1, MaxNumber
<1>3. n + 1 \in I \cup {n + 1}
  OBVIOUS
<1> DEFINE m == Max(I \cup {n + 1})
<1> HIDE DEF m
<1>4. n + 1 <= m /\ (m \in I \/ m = n + 1)
  BY <1>2, <1>3 DEF m
<1>5. m \in I => m <= n /\ m \in Nat
  OBVIOUS
<1> QED
  BY <1>4, <1>5 DEF m

(* A set that holds 0 and is closed under +1 up to n holds 0 .. n.         *)
LEMMA UpTo ==
    ASSUME NEW n \in Nat, NEW T, 0 \in T, \A k \in 0 .. n - 1 : k \in T => k + 1 \in T
    PROVE  0 .. n \subseteq T
<1>1. SUFFICES ASSUME 0 .. n \ T # {}
               PROVE  FALSE
  OBVIOUS
<1>2. PICK x \in 0 .. n \ T : \A y \in 0 .. n \ T : ~(y < x)
  <2> 0 .. n \ T \in SUBSET Nat
    OBVIOUS
  <2> QED
    BY <1>1, LeastNumber
<1>3. x # 0 /\ x - 1 \in 0 .. n - 1
  BY <1>2
<1>4. x - 1 \in T
  BY <1>2, <1>3
<1> QED
  BY <1>2, <1>3, <1>4

----------------------------------------------------------------------------
(* KeepAt *)

(* The function KeepAt folds with, on its own.                             *)
KeptStep(s, I, f, k) ==
    IF k = 0 THEN << >> ELSE IF k \in I THEN Append(f[k - 1], s[k]) ELSE f[k - 1]

Kept(s, I) == CHOOSE f : f = [k \in 0 .. Len(s) |-> KeptStep(s, I, f, k)]

(* The recursion of KeepAt has a solution on every prefix.                 *)
LEMMA KeptExists ==
    ASSUME NEW S, NEW s \in Seq(S), NEW I
    PROVE  \A n \in 0 .. Len(s) : \E f : f = [k \in 0 .. n |-> KeptStep(s, I, f, k)]
<1> DEFINE T == {n \in 0 .. Len(s) : \E f : f = [k \in 0 .. n |-> KeptStep(s, I, f, k)]}
<1>1. 0 \in T
  <2> DEFINE f == [k \in 0 .. 0 |-> << >>]
  <2>1. f = [k \in 0 .. 0 |-> KeptStep(s, I, f, k)]
    BY DEF KeptStep
  <2> QED
    BY <2>1
<1>2. ASSUME NEW n \in 0 .. Len(s) - 1, n \in T
      PROVE  n + 1 \in T
  <2>1. PICK f : f = [k \in 0 .. n |-> KeptStep(s, I, f, k)]
    BY <1>2
  <2> DEFINE g == [k \in 0 .. n + 1 |-> IF k = n + 1 THEN KeptStep(s, I, f, k) ELSE f[k]]
  <2>2. \A k \in 0 .. n + 1 : g[k] = KeptStep(s, I, g, k)
    <3>1. TAKE k \in 0 .. n + 1
    <3>2. CASE k = 0
      BY <2>1, <3>2 DEF KeptStep
    <3>3. CASE k # 0
      <4>1. k - 1 \in 0 .. n /\ g[k - 1] = f[k - 1]
        BY <3>3
      <4>2. KeptStep(s, I, g, k) = KeptStep(s, I, f, k)
        BY <3>3, <4>1 DEF KeptStep
      <4>3. g[k] = KeptStep(s, I, f, k)
        BY <2>1
      <4> QED
        BY <4>2, <4>3
    <3> QED
      BY <3>2, <3>3
  <2>3. g = [k \in 0 .. n + 1 |-> KeptStep(s, I, g, k)]
    BY <2>2
  <2>4. \E h : h = [k \in 0 .. n + 1 |-> KeptStep(s, I, h, k)]
    BY <2>3
  <2> QED
    BY <2>4
<1> HIDE DEF T
<1>3. 0 .. Len(s) \subseteq T
  BY <1>1, <1>2, UpTo
<1> QED
  BY <1>3 DEF T

LEMMA KeepAtKept ==
    ASSUME NEW S, NEW s \in Seq(S), NEW I
    PROVE  /\ KeepAt(s, I) = Kept(s, I)[Len(s)]
           /\ Kept(s, I) = [k \in 0 .. Len(s) |-> KeptStep(s, I, Kept(s, I), k)]
<1>1. Kept(s, I) = [k \in 0 .. Len(s) |-> KeptStep(s, I, Kept(s, I), k)]
  BY KeptExists DEF Kept
<1>2. KeepAt(s, I) = Kept(s, I)[Len(s)]
  BY DEF KeepAt, Kept, KeptStep
<1> QED
  BY <1>1, <1>2

(* KeepAt(s, I) lists the places of s that are in I, each once and in      *)
(* order.                                                                  *)
LEMMA KeepAtPlaces ==
    ASSUME NEW S, NEW s \in Seq(S), NEW I
    PROVE  /\ KeepAt(s, I) \in Seq(S)
           /\ \E p \in [DOMAIN KeepAt(s, I) -> I \cap DOMAIN s] :
                 /\ \A i \in DOMAIN KeepAt(s, I) : KeepAt(s, I)[i] = s[p[i]]
                 /\ \A i, j \in DOMAIN KeepAt(s, I) : i < j => p[i] < p[j]
                 /\ \A k \in I \cap DOMAIN s : \E i \in DOMAIN KeepAt(s, I) : p[i] = k
<1> DEFINE f == Kept(s, I)
           Places(n, p) ==
               /\ p \in [1 .. Len(f[n]) -> I \cap 1 .. n]
               /\ \A i \in 1 .. Len(f[n]) : f[n][i] = s[p[i]]
               /\ \A i, j \in 1 .. Len(f[n]) : i < j => p[i] < p[j]
               /\ \A k \in I \cap 1 .. n : \E i \in 1 .. Len(f[n]) : p[i] = k
           Right(n) == f[n] \in Seq(S) /\ \E p : Places(n, p)
           T == {n \in 0 .. Len(s) : Right(n)}
<1>0. /\ f[0] = << >>
      /\ \A n \in 0 .. Len(s) - 1 : f[n + 1] = IF n + 1 \in I THEN Append(f[n], s[n + 1]) ELSE f[n]
  <2>0. f = [k \in 0 .. Len(s) |-> KeptStep(s, I, f, k)]
    BY KeepAtKept
  <2> HIDE DEF f
  <2>1. \A k \in 0 .. Len(s) : f[k] = KeptStep(s, I, f, k)
    BY <2>0
  <2>2. f[0] = << >>
    <3>1. 0 \in 0 .. Len(s)
      OBVIOUS
    <3>2. f[0] = KeptStep(s, I, f, 0)
      BY <2>1, <3>1
    <3> QED
      BY <3>2 DEF KeptStep
  <2>3. ASSUME NEW n \in 0 .. Len(s) - 1
        PROVE  f[n + 1] = IF n + 1 \in I THEN Append(f[n], s[n + 1]) ELSE f[n]
    <3>1. n + 1 \in 0 .. Len(s) /\ n + 1 # 0 /\ (n + 1) - 1 = n
      OBVIOUS
    <3> QED
      BY <2>1, <3>1 DEF KeptStep
  <2> QED
    BY <2>2, <2>3
<1> HIDE DEF f
<1>1. 0 \in T
  <2>1. f[0] = << >> /\ f[0] \in Seq(S) /\ Len(f[0]) = 0
    BY <1>0
  <2>2. 0 \in 0 .. Len(s) /\ 1 .. 0 = {}
    OBVIOUS
  <2>3. Places(0, << >>)
    BY <2>1, <2>2
  <2> QED
    BY <2>1, <2>2, <2>3
<1>2. ASSUME NEW n \in 0 .. Len(s) - 1, Right(n)
      PROVE  Right(n + 1)
  <2> HIDE DEF T
  <2>1. CASE n + 1 \in I
    <3> DEFINE m == Len(f[n])
    <3>0. s[n + 1] \in S
      OBVIOUS
    <3>1. f[n + 1] = Append(f[n], s[n + 1])
      BY <1>0, <2>1
    <3>2. /\ f[n + 1] \in Seq(S) /\ m \in Nat /\ Len(f[n + 1]) = m + 1
          /\ \A i \in 1 .. m : f[n + 1][i] = f[n][i]
          /\ f[n + 1][m + 1] = s[n + 1]
      BY <1>2, <3>0, <3>1
    <3>3. PICK p : Places(n, p)
      BY <1>2
    <3>4. /\ p \in [1 .. m -> I \cap 1 .. n]
          /\ \A i \in 1 .. m : f[n][i] = s[p[i]]
          /\ \A i, j \in 1 .. m : i < j => p[i] < p[j]
          /\ \A k \in I \cap 1 .. n : \E i \in 1 .. m : p[i] = k
      BY <3>3
    <3> DEFINE q == [i \in 1 .. m + 1 |-> IF i = m + 1 THEN n + 1 ELSE p[i]]
    <3> HIDE DEF m, Places
    <3>5. \A i \in 1 .. m + 1 : i # m + 1 => i \in 1 .. m
      BY <3>2
    <3>6. /\ q[m + 1] = n + 1
          /\ \A i \in 1 .. m : q[i] = p[i] /\ p[i] \in I \cap 1 .. n
      BY <3>2, <3>4
    <3>7. q \in [1 .. m + 1 -> I \cap 1 .. n + 1]
      BY <2>1, <3>4, <3>5
    <3> HIDE DEF q
    <3>8. \A i \in 1 .. m + 1 : f[n + 1][i] = s[q[i]]
      BY <3>2, <3>4, <3>5, <3>6
    <3>9. ASSUME NEW i \in 1 .. m + 1, NEW j \in 1 .. m + 1, i < j
          PROVE  q[i] < q[j]
      <4>1. i \in 1 .. m
        BY <3>2, <3>9
      <4>2. CASE j = m + 1
        BY <3>6, <4>1, <4>2
      <4>3. CASE j # m + 1
        BY <3>4, <3>5, <3>6, <3>9, <4>1, <4>3
      <4> QED
        BY <4>2, <4>3
    <3>10. ASSUME NEW k \in I \cap 1 .. n + 1
           PROVE  \E i \in 1 .. m + 1 : q[i] = k
      <4>1. CASE k = n + 1
        BY <3>2, <3>6, <4>1
      <4>2. CASE k # n + 1
        <5>1. k \in I \cap 1 .. n
          BY <4>2
        <5>2. PICK i \in 1 .. m : p[i] = k
          BY <3>4, <5>1
        <5>3. i \in 1 .. m + 1
          BY <3>2
        <5> QED
          BY <3>6, <5>2, <5>3
      <4> QED
        BY <4>1, <4>2
    <3>11. Places(n + 1, q)
      BY <3>2, <3>7, <3>8, <3>9, <3>10 DEF Places
    <3> QED
      BY <3>2, <3>11
  <2>2. CASE n + 1 \notin I
    <3>1. f[n + 1] = f[n]
      BY <1>0, <2>2
    <3>2. I \cap 1 .. n + 1 = I \cap 1 .. n
      BY <2>2
    <3>3. PICK p : Places(n, p)
      BY <1>2
    <3>4. Places(n + 1, p)
      BY <3>1, <3>2, <3>3
    <3> QED
      BY <1>2, <3>1, <3>4
  <2> QED
    BY <2>1, <2>2
<1>3. \A n \in 0 .. Len(s) - 1 : n \in T => n + 1 \in T
  <2> HIDE DEF Right
  <2> QED
    BY <1>2
<1>4. Len(s) \in Nat /\ Len(s) \in 0 .. Len(s) /\ DOMAIN s = 1 .. Len(s)
  OBVIOUS
<1> HIDE DEF Right, T
<1>5. 0 .. Len(s) \subseteq T
  BY <1>1, <1>3, <1>4, UpTo
<1>6. Right(Len(s))
  BY <1>4, <1>5 DEF T
<1>7. KeepAt(s, I) = f[Len(s)]
  BY KeepAtKept DEF f
<1>8. f[Len(s)] \in Seq(S) /\ DOMAIN f[Len(s)] = 1 .. Len(f[Len(s)])
  BY <1>6 DEF Right
<1>9. PICK p : Places(Len(s), p)
  BY <1>6 DEF Right
<1>10. /\ p \in [DOMAIN KeepAt(s, I) -> I \cap DOMAIN s]
       /\ \A i \in DOMAIN KeepAt(s, I) : KeepAt(s, I)[i] = s[p[i]]
       /\ \A i, j \in DOMAIN KeepAt(s, I) : i < j => p[i] < p[j]
       /\ \A k \in I \cap DOMAIN s : \E i \in DOMAIN KeepAt(s, I) : p[i] = k
  BY <1>4, <1>7, <1>8, <1>9
<1> HIDE DEF Places
<1> QED
  BY <1>7, <1>8, <1>10

(* KeepAt(s, I) is a sequence of the elements of s at positions in I, and  *)
(* misses none of them.                                                    *)
LEMMA KeepAtElements ==
    ASSUME NEW S, NEW s \in Seq(S), NEW I
    PROVE  /\ KeepAt(s, I) \in Seq(S)
           /\ \A i \in DOMAIN KeepAt(s, I) : \E k \in I \cap DOMAIN s : KeepAt(s, I)[i] = s[k]
           /\ \A k \in I \cap DOMAIN s : \E i \in DOMAIN KeepAt(s, I) : KeepAt(s, I)[i] = s[k]
<1>1. PICK p \in [DOMAIN KeepAt(s, I) -> I \cap DOMAIN s] :
         /\ \A i \in DOMAIN KeepAt(s, I) : KeepAt(s, I)[i] = s[p[i]]
         /\ \A k \in I \cap DOMAIN s : \E i \in DOMAIN KeepAt(s, I) : p[i] = k
  BY KeepAtPlaces
<1>2. \A i \in DOMAIN KeepAt(s, I) : p[i] \in I \cap DOMAIN s
  OBVIOUS
<1> QED
  BY <1>1, <1>2, KeepAtPlaces

(* Two lists of the same elements, both in strictly increasing rank, are   *)
(* the same list.                                                          *)
LEMMA SameOrderSameList ==
    ASSUME NEW S, NEW s \in Seq(S), NEW t \in Seq(S), NEW rank \in [S -> Nat],
           \A i, j \in DOMAIN s : i < j => rank[s[i]] < rank[s[j]],
           \A i, j \in DOMAIN t : i < j => rank[t[i]] < rank[t[j]],
           ToSet(s) = ToSet(t)
    PROVE  s = t
<1>0. /\ Len(s) \in Nat /\ DOMAIN s = 1 .. Len(s) /\ \A i \in DOMAIN s : s[i] \in S /\ rank[s[i]] \in Nat
      /\ Len(t) \in Nat /\ DOMAIN t = 1 .. Len(t) /\ \A i \in DOMAIN t : t[i] \in S /\ rank[t[i]] \in Nat
  OBVIOUS
<1>1. /\ \A i \in DOMAIN s : \E j \in DOMAIN t : t[j] = s[i]
      /\ \A i \in DOMAIN t : \E j \in DOMAIN s : s[j] = t[i]
  BY DEF ToSet
<1> DEFINE Differ == {i \in Nat : \/ i \in DOMAIN s /\ i \notin DOMAIN t
                                  \/ i \in DOMAIN t /\ i \notin DOMAIN s
                                  \/ i \in DOMAIN s /\ i \in DOMAIN t /\ s[i] # t[i]}
<1>2. Differ = {}
  <2>1. SUFFICES ASSUME Differ # {}
                 PROVE  FALSE
    OBVIOUS
  <2>2. PICK x \in Differ : \A y \in Differ : ~(y < x)
    BY <2>1, LeastNumber
  <2> HIDE DEF Differ
  <2>3. \A i \in DOMAIN s : i < x => i \in DOMAIN t /\ t[i] = s[i]
    BY <1>0, <2>2 DEF Differ
  <2>4. \A i \in DOMAIN t : i < x => i \in DOMAIN s /\ t[i] = s[i]
    BY <1>0, <2>2 DEF Differ
  <2>5. ASSUME x \in DOMAIN s
        PROVE  x \in DOMAIN t /\ rank[t[x]] <= rank[s[x]]
    <3>1. PICK j \in DOMAIN t : t[j] = s[x]
      BY <1>1, <2>5
    <3>2. ~(j < x)
      BY <1>0, <2>4, <2>5, <3>1
    <3>3. x \in DOMAIN t
      BY <1>0, <2>5, <3>2
    <3>4. j = x \/ x < j
      BY <1>0, <3>2, <3>3
    <3> QED
      BY <1>0, <2>5, <3>1, <3>3, <3>4
  <2>6. ASSUME x \in DOMAIN t
        PROVE  x \in DOMAIN s /\ rank[s[x]] <= rank[t[x]]
    <3>1. PICK j \in DOMAIN s : s[j] = t[x]
      BY <1>1, <2>6
    <3>2. ~(j < x)
      BY <1>0, <2>3, <2>6, <3>1
    <3>3. x \in DOMAIN s
      BY <1>0, <2>6, <3>2
    <3>4. j = x \/ x < j
      BY <1>0, <3>2, <3>3
    <3> QED
      BY <1>0, <2>6, <3>1, <3>3, <3>4
  <2>7. x \in DOMAIN s /\ x \in DOMAIN t /\ s[x] # t[x] /\ rank[s[x]] = rank[t[x]]
    BY <1>0, <2>2, <2>5, <2>6 DEF Differ
  <2>8. PICK j \in DOMAIN t : t[j] = s[x]
    BY <1>1, <2>7
  <2>9. j < x \/ x < j
    BY <1>0, <2>7, <2>8
  <2>10. rank[t[j]] = rank[t[x]]
    BY <2>7, <2>8
  <2>11. rank[t[j]] # rank[t[x]]
    BY <1>0, <2>7, <2>9
  <2> QED
    BY <2>10, <2>11
<1>3. \A i \in Nat : (i \in DOMAIN s <=> i \in DOMAIN t) /\ (i \in DOMAIN s => s[i] = t[i])
  BY <1>2
<1>4. DOMAIN s = DOMAIN t /\ \A i \in DOMAIN s : s[i] = t[i]
  <2>1. DOMAIN s \subseteq Nat /\ DOMAIN t \subseteq Nat
    BY <1>0
  <2> QED
    BY <1>3, <2>1
<1> QED
  BY <1>0, <1>4

----------------------------------------------------------------------------
(* FilterResult *)

(* Filtering invents no hero: what it puts on the grid comes out of the    *)
(* list it filters.                                                        *)
LEMMA FilterResultElements ==
    ASSUME NEW S, NEW heroes \in Seq(S), NEW filters \in Seq(RoleFilter), filters # << >>
    PROVE  /\ FilterResult(heroes, filters) \in Seq(S)
           /\ ToSet(FilterResult(heroes, filters)) \subseteq ToSet(heroes)
<1> DEFINE n == Len(heroes)
           places == 1 .. Len(filters) * n
           long == [k \in places |-> heroes[((k - 1) % n) + 1]]
<1>1. n \in Nat /\ Len(filters) \in Nat /\ Len(filters) * n \in Nat
  OBVIOUS
<1>2. ASSUME NEW k \in places
      PROVE  ((k - 1) % n) + 1 \in 1 .. n
  <2>1. n > 0
    <3>1. ASSUME n = 0
          PROVE  FALSE
      <4>1. Len(filters) * n = 0
        BY <1>1, <3>1
      <4> QED
        BY <4>1
    <3> QED
      BY <1>1, <3>1
  <2>2. k - 1 \in Nat
    OBVIOUS
  <2>3. (k - 1) % n \in 0 .. n - 1
    BY <1>1, <2>1, <2>2
  <2> QED
    BY <1>1, <2>3
<1>3. long \in Seq(S) /\ DOMAIN long = places
  BY <1>1, <1>2
<1>4. \A k \in places : long[k] \in ToSet(heroes)
  BY <1>2 DEF ToSet
<1>5. \E I : UnionOfRoles(heroes, filters) = KeepAt(long, I)
  BY DEF UnionOfRoles
<1> HIDE DEF long, places, n
<1>6. ASSUME NEW I
      PROVE  /\ KeepAt(long, I) \in Seq(S)
             /\ ToSet(KeepAt(long, I)) \subseteq ToSet(heroes)
  <2>1. KeepAt(long, I) \in Seq(S)
    BY <1>3, KeepAtElements
  <2>2. \A i \in DOMAIN KeepAt(long, I) : \E k \in I \cap DOMAIN long : KeepAt(long, I)[i] = long[k]
    BY <1>3, KeepAtElements
  <2>3. \A i \in DOMAIN KeepAt(long, I) : KeepAt(long, I)[i] \in ToSet(heroes)
    BY <1>3, <1>4, <2>2
  <2> QED
    BY <2>1, <2>3 DEF ToSet
<1> QED
  BY <1>5, <1>6 DEF FilterResult

----------------------------------------------------------------------------
(* Selections *)

(* The selected filters of a list of role filters are role filters of it,  *)
(* all of them selected; there is one as soon as one is selected, and none  *)
(* is left out unless the first one stands for all.                        *)
LEMMA SelectedFiltersElements ==
    ASSUME NEW roles \in Seq(RoleFilter)
    PROVE  /\ SelectedFilters(roles) \in Seq(RoleFilter)
           /\ \A i \in DOMAIN SelectedFilters(roles) : SelectedFilters(roles)[i].isSelected
           /\ \A i \in DOMAIN SelectedFilters(roles) : \E k \in DOMAIN roles : SelectedFilters(roles)[i] = roles[k]
           /\ Selected(roles) # {} => SelectedFilters(roles) # << >>
           /\ roles # << >> /\ ~roles[1].isSelected =>
                 \A k \in Selected(roles) :
                    \E i \in DOMAIN SelectedFilters(roles) : SelectedFilters(roles)[i] = roles[k]
<1>1. CASE roles = << >>
  BY <1>1 DEF SelectedFilters, Selected
<1>2. CASE roles # << >> /\ roles[1].isSelected
  <2>1. SelectedFilters(roles) = << roles[1] >> /\ roles[1] \in RoleFilter
    BY <1>2 DEF SelectedFilters
  <2>2. 1 \in DOMAIN roles
    BY <1>2
  <2> QED
    BY <1>2, <2>1, <2>2
<1>3. CASE roles # << >> /\ ~roles[1].isSelected
  <2>1. SelectedFilters(roles) = KeepAt(roles, Selected(roles))
    BY <1>3 DEF SelectedFilters
  <2>2. /\ KeepAt(roles, Selected(roles)) \in Seq(RoleFilter)
        /\ \A i \in DOMAIN KeepAt(roles, Selected(roles)) :
              \E k \in Selected(roles) \cap DOMAIN roles : KeepAt(roles, Selected(roles))[i] = roles[k]
        /\ \A k \in Selected(roles) \cap DOMAIN roles :
              \E i \in DOMAIN KeepAt(roles, Selected(roles)) : KeepAt(roles, Selected(roles))[i] = roles[k]
    BY KeepAtElements
  <2>3. \A k \in Selected(roles) : k \in DOMAIN roles /\ roles[k].isSelected
    BY DEF Selected
  <2>4. Selected(roles) # {} => DOMAIN KeepAt(roles, Selected(roles)) # {}
    BY <2>2, <2>3
  <2> QED
    BY <2>1, <2>2, <2>3, <2>4
<1> QED
  BY <1>1, <1>2, <1>3

(* Whatever the filter screen hands back is a non-empty list of selected   *)
(* role filters.                                                           *)
LEMMA LegalSelectionsElements ==
    ASSUME NEW names \in Seq(Roles), NEW filters \in LegalSelections(names)
    PROVE  /\ filters \in Seq(RoleFilter)
           /\ filters # << >>
           /\ \A i \in DOMAIN filters : filters[i].isSelected
           /\ \A i \in DOMAIN filters : \E k \in DOMAIN names : filters[i].name = names[k]
<1> DEFINE flagged(I) == [i \in DOMAIN names |-> [name |-> names[i], isSelected |-> i \in I]]
<1>1. PICK I \in (SUBSET DOMAIN names) \ {{}} : filters = SelectedFilters(flagged(I))
  BY DEF LegalSelections
<1>2. flagged(I) \in Seq(RoleFilter)
  <2>1. \A i \in DOMAIN names : (i \in I) \in BOOLEAN
    OBVIOUS
  <2>2. \A i \in DOMAIN names : flagged(I)[i] \in RoleFilter
    BY <2>1 DEF RoleFilter
  <2> QED
    BY <2>2
<1>3. Selected(flagged(I)) = I
  BY <1>1 DEF Selected
<1>4. DOMAIN flagged(I) = DOMAIN names /\ \A k \in DOMAIN names : flagged(I)[k].name = names[k]
  OBVIOUS
<1> HIDE DEF flagged
<1>5. /\ filters \in Seq(RoleFilter) /\ filters # << >>
      /\ \A i \in DOMAIN filters : filters[i].isSelected
      /\ \A i \in DOMAIN filters : \E k \in DOMAIN flagged(I) : filters[i] = flagged(I)[k]
  BY <1>1, <1>2, <1>3, SelectedFiltersElements
<1> QED
  BY <1>4, <1>5

(* getRoles hands out role filters, one for each name it offers.           *)
LEMMA GetRolesElements ==
    ASSUME NEW heroes, NEW active
    PROVE  /\ GetRoles(heroes, active) \in Seq(RoleFilter)
           /\ Names(GetRoles(heroes, active)) = OfferedNames(heroes)
           /\ OfferedNames(heroes) \in Seq(Roles)
<1>1. RoleOrder \in Seq(Roles)
  BY RoleOrderAssumption DEF Roles
<1>2. OfferedNames(heroes) \in Seq(Roles)
  BY <1>1, KeepAtElements DEF OfferedNames
<1>3. GetRoles(heroes, active) \in Seq(RoleFilter)
  <2> DEFINE names == OfferedNames(heroes)
             isActive(name) == \E j \in DOMAIN active : active[j].name = name /\ active[j].isSelected
             flag(i) == IF active = << >> THEN i = 1 ELSE isActive(names[i])
  <2>1. \A i \in DOMAIN names : flag(i) \in BOOLEAN
    OBVIOUS
  <2>2. GetRoles(heroes, active) = [i \in DOMAIN names |-> [name |-> names[i], isSelected |-> flag(i)]]
    BY DEF GetRoles
  <2> HIDE DEF flag
  <2>3. \A i \in DOMAIN names : [name |-> names[i], isSelected |-> flag(i)] \in RoleFilter
    BY <1>2, <2>1 DEF RoleFilter
  <2> QED
    BY <1>2, <2>2, <2>3
<1>4. Names(GetRoles(heroes, active)) = OfferedNames(heroes)
  BY <1>2 DEF Names, GetRoles
<1> QED
  BY <1>2, <1>3, <1>4

----------------------------------------------------------------------------
(* A selection of what is offered finds a hero *)

(* A role is offered only if it is "All" or a hero has it.                 *)
LEMMA OfferedNamesHeld ==
    ASSUME NEW heroes, NEW k \in DOMAIN OfferedNames(heroes)
    PROVE  \/ OfferedNames(heroes)[k] = All
           \/ \E i \in DOMAIN heroes : HasRole(heroes[i], OfferedNames(heroes)[k])
<1> DEFINE I == {j \in DOMAIN RoleOrder :
                   \/ RoleOrder[j] = All
                   \/ \E i \in DOMAIN heroes : HasRole(heroes[i], RoleOrder[j])}
<1>1. OfferedNames(heroes) = KeepAt(RoleOrder, I)
  BY DEF OfferedNames
<1>2. RoleOrder \in Seq(Roles)
  BY RoleOrderAssumption DEF Roles
<1>3. PICK j \in I \cap DOMAIN RoleOrder : OfferedNames(heroes)[k] = RoleOrder[j]
  <2> HIDE DEF I
  <2>1. \A i \in DOMAIN KeepAt(RoleOrder, I) :
           \E j \in I \cap DOMAIN RoleOrder : KeepAt(RoleOrder, I)[i] = RoleOrder[j]
    BY <1>2, KeepAtElements
  <2> QED
    BY <1>1, <2>1
<1> QED
  BY <1>3

LEMMA KeepAtFinds ==
    ASSUME NEW S, NEW s \in Seq(S), NEW I, I \cap DOMAIN s # {}
    PROVE  KeepAt(s, I) # << >>
<1>1. /\ KeepAt(s, I) \in Seq(S)
      /\ \A i \in DOMAIN KeepAt(s, I) : \E k \in I \cap DOMAIN s : KeepAt(s, I)[i] = s[k]
      /\ \A k \in I \cap DOMAIN s : \E i \in DOMAIN KeepAt(s, I) : KeepAt(s, I)[i] = s[k]
  BY KeepAtElements
<1>2. DOMAIN KeepAt(s, I) # {}
  BY <1>1
<1> QED
  BY <1>2

(* A filter whose first role a hero has leaves that hero, or one of its    *)
(* id, on the grid.                                                        *)
LEMMA UnionOfRolesFinds ==
    ASSUME NEW S, NEW heroes \in Seq(S), NEW filters \in Seq(RoleFilter), filters # << >>,
           NEW i \in DOMAIN heroes, HasRole(heroes[i], filters[1].name)
    PROVE  UnionOfRoles(heroes, filters) # << >>
<1> DEFINE n == Len(heroes)
           places == 1 .. Len(filters) * n
           hero(k) == heroes[((k - 1) % n) + 1]
           role(k) == filters[((k - 1) \div n) + 1]
           found == {k \in places : HasRole(hero(k), role(k).name)}
           kept == {k \in found : \A j \in found : hero(j).id = hero(k).id => k <= j}
           long == [k \in places |-> hero(k)]
<1>1. n \in Nat /\ n > 0 /\ i \in 1 .. n /\ Len(filters) \in Nat /\ Len(filters) >= 1
  OBVIOUS
<1>2. Len(filters) * n \in Nat /\ n <= Len(filters) * n
  BY <1>1
<1>3. (i - 1) % n = i - 1 /\ (i - 1) \div n = 0
  BY <1>1
<1>4. i \in found
  <2>1. i \in places
    BY <1>1, <1>2
  <2>2. ((i - 1) % n) + 1 = i /\ ((i - 1) \div n) + 1 = 1
    <3> HIDE DEF n
    <3>1. (i - 1) + 1 = i /\ 0 + 1 = 1
      BY ONLY <1>1
    <3> QED
      BY ONLY <1>3, <3>1, Zenon
  <2> QED
    BY <2>1, <2>2
<1>5. found \subseteq Nat
  BY <1>2
<1>6. PICK x \in found : \A y \in found : ~(y < x)
  <2> HIDE DEF found
  <2> QED
    BY <1>4, <1>5, LeastNumber
<1>7. x \in kept /\ x \in places
  BY <1>5, <1>6
<1>8. long \in Seq(S) /\ DOMAIN long = places
  <2>1. ASSUME NEW k \in places
        PROVE  hero(k) \in S
    <3>1. k - 1 \in Nat
      BY <1>2
    <3>2. ((k - 1) % n) + 1 \in 1 .. n
      BY <1>1, <3>1
    <3> QED
      BY <3>2
  <2> QED
    BY <1>2, <2>1
<1>9. UnionOfRoles(heroes, filters) = KeepAt(long, kept)
  BY DEF UnionOfRoles
<1> HIDE DEF kept, long, places
<1>10. kept \cap DOMAIN long # {}
  BY <1>7, <1>8
<1>11. KeepAt(long, kept) # << >>
  BY <1>8, <1>10, KeepAtFinds
<1> QED
  BY <1>9, <1>11

(* Any legal selection of the roles getRoles offers for a list that is not *)
(* empty leaves some hero of it on the grid.                               *)
LEMMA LegalSelectionFinds ==
    ASSUME NEW S, NEW heroes \in Seq(S), heroes # << >>,
           NEW filters \in LegalSelections(OfferedNames(heroes))
    PROVE  FilterResult(heroes, filters) # << >>
<1> DEFINE names == OfferedNames(heroes)
<1>1. names \in Seq(Roles)
  BY GetRolesElements
<1>2. /\ filters \in Seq(RoleFilter) /\ filters # << >>
      /\ \A i \in DOMAIN filters : filters[i].isSelected
      /\ \A i \in DOMAIN filters : \E k \in DOMAIN names : filters[i].name = names[k]
  BY <1>1, LegalSelectionsElements
<1>3. 1 \in DOMAIN filters
  BY <1>2
<1>4. PICK k \in DOMAIN names : filters[1].name = names[k]
  BY <1>2, <1>3
<1>5. CASE filters[1].name = All
  BY <1>2, <1>3, <1>5 DEF FilterResult, IsAllSelected
<1>6. CASE filters[1].name # All
  <2>1. PICK i \in DOMAIN heroes : HasRole(heroes[i], filters[1].name)
    BY <1>4, <1>6, OfferedNamesHeld
  <2>2. UnionOfRoles(heroes, filters) # << >>
    BY <1>2, <2>1, UnionOfRolesFinds
  <2> QED
    BY <1>6, <2>2 DEF FilterResult, IsAllSelected
<1> QED
  BY <1>5, <1>6

----------------------------------------------------------------------------
(* Handing the roles back gives the selection *)

(* Where a role stands in alphabetical order.                              *)
PlaceOf == [name \in Roles |-> CHOOSE k \in DOMAIN RoleOrder : RoleOrder[k] = name]

LEMMA PlaceOfRole ==
    /\ PlaceOf \in [Roles -> DOMAIN RoleOrder]
    /\ \A k \in DOMAIN RoleOrder : RoleOrder[k] \in Roles /\ PlaceOf[RoleOrder[k]] = k
<1>1. \A k \in DOMAIN RoleOrder : RoleOrder[k] \in Roles
  BY DEF Roles, ToSet
<1>2. ASSUME NEW name \in Roles
      PROVE  PlaceOf[name] \in DOMAIN RoleOrder /\ RoleOrder[PlaceOf[name]] = name
  <2>1. \E k \in DOMAIN RoleOrder : RoleOrder[k] = name
    BY DEF Roles, ToSet
  <2> QED
    BY <2>1 DEF PlaceOf
<1>3. ASSUME NEW k \in DOMAIN RoleOrder
      PROVE  PlaceOf[RoleOrder[k]] = k
  BY <1>1, <1>2, RoleOrderAssumption
<1>4. PlaceOf \in [Roles -> DOMAIN RoleOrder]
  BY <1>2 DEF PlaceOf
<1> QED
  BY <1>1, <1>3, <1>4

InOrder(names) == \A i, j \in DOMAIN names : i < j => PlaceOf[names[i]] < PlaceOf[names[j]]

(* What getRoles offers is sorted, "All" first.                            *)
LEMMA OfferedNamesOrdered ==
    ASSUME NEW heroes
    PROVE  /\ OfferedNames(heroes) \in Seq(Roles)
           /\ InOrder(OfferedNames(heroes))
           /\ OfferedNames(heroes) # << >>
           /\ OfferedNames(heroes)[1] = All
<1> DEFINE I == {k \in DOMAIN RoleOrder :
                   \/ RoleOrder[k] = All
                   \/ \E i \in DOMAIN heroes : HasRole(heroes[i], RoleOrder[k])}
           names == KeepAt(RoleOrder, I)
<1>1. OfferedNames(heroes) = names
  BY DEF OfferedNames
<1>2. RoleOrder \in Seq(Roles) /\ 1 \in DOMAIN RoleOrder /\ RoleOrder[1] = All
  <2>1. RoleOrder \in Seq(Roles) /\ RoleOrder # << >>
    BY RoleOrderAssumption DEF Roles
  <2> QED
    BY <2>1, RoleOrderAssumption
<1>3. 1 \in I
  BY <1>2
<1> HIDE DEF I
<1>4. names \in Seq(Roles)
  BY <1>2, KeepAtPlaces
<1>5. PICK p \in [DOMAIN names -> I \cap DOMAIN RoleOrder] :
         /\ \A i \in DOMAIN names : names[i] = RoleOrder[p[i]]
         /\ \A i, j \in DOMAIN names : i < j => p[i] < p[j]
         /\ \A k \in I \cap DOMAIN RoleOrder : \E i \in DOMAIN names : p[i] = k
  <2>1. RoleOrder \in Seq(Roles)
    BY <1>2
  <2> QED
    BY ONLY <2>1, KeepAtPlaces
<1> HIDE DEF names
<1>6. \A i \in DOMAIN names : p[i] \in DOMAIN RoleOrder /\ PlaceOf[names[i]] = p[i]
  BY <1>5, PlaceOfRole
<1>7. InOrder(names)
  BY <1>5, <1>6 DEF InOrder
<1>8. PICK i \in DOMAIN names : p[i] = 1
  BY <1>2, <1>3, <1>5
<1>9. i = 1
  <2>1. DOMAIN names = 1 .. Len(names) /\ Len(names) \in Nat
    BY <1>4
  <2>2. SUFFICES ASSUME 1 < i
                 PROVE  FALSE
    BY <2>1
  <2>3. 1 \in DOMAIN names /\ p[1] < 1
    BY <1>5, <1>8, <2>1, <2>2
  <2>4. p[1] \in DOMAIN RoleOrder
    BY <1>6, <2>3
  <2>5. DOMAIN RoleOrder = 1 .. Len(RoleOrder) /\ Len(RoleOrder) \in Nat
    BY <1>2
  <2> QED
    BY <2>3, <2>4, <2>5
<1>10. names # << >> /\ names[1] = All
  BY <1>2, <1>4, <1>5, <1>8, <1>9
<1> QED
  BY <1>1, <1>4, <1>7, <1>10

(* What the active filters are: selected, in order, "All" only on its own. *)
IsSelection(filters) ==
    /\ \A i \in DOMAIN filters : filters[i].isSelected
    /\ InOrder(Names(filters))
    /\ \A i \in DOMAIN filters : filters[i].name = All => Len(filters) = 1

LEMMA SelectedFiltersOrdered ==
    ASSUME NEW roles \in Seq(RoleFilter), roles # << >>,
           InOrder(Names(roles)), roles[1].name = All
    PROVE  IsSelection(SelectedFilters(roles))
<1> DEFINE kept == KeepAt(roles, Selected(roles))
<1>0. 1 \in DOMAIN roles /\ roles[1] \in RoleFilter
  OBVIOUS
<1>1. CASE roles[1].isSelected
  <2>1. SelectedFilters(roles) = << roles[1] >>
    BY <1>1 DEF SelectedFilters
  <2> QED
    BY <1>1, <2>1 DEF IsSelection, InOrder, Names
<1>2. CASE ~roles[1].isSelected
  <2>1. SelectedFilters(roles) = kept
    BY <1>2 DEF SelectedFilters
  <2>2. kept \in Seq(RoleFilter)
    BY KeepAtPlaces
  <2>3. PICK p \in [DOMAIN kept -> Selected(roles) \cap DOMAIN roles] :
           /\ \A i \in DOMAIN kept : kept[i] = roles[p[i]]
           /\ \A i, j \in DOMAIN kept : i < j => p[i] < p[j]
    BY KeepAtPlaces
  <2> HIDE DEF kept
  <2>4. \A i \in DOMAIN kept : p[i] \in DOMAIN roles /\ kept[i] = roles[p[i]] /\ roles[p[i]].isSelected
    BY <2>3 DEF Selected
  <2>5. /\ DOMAIN Names(kept) = DOMAIN kept /\ \A i \in DOMAIN kept : Names(kept)[i] = kept[i].name
        /\ DOMAIN Names(roles) = DOMAIN roles /\ \A i \in DOMAIN roles : Names(roles)[i] = roles[i].name
    BY DEF Names
  <2>6. InOrder(Names(kept))
    BY <2>3, <2>4, <2>5 DEF InOrder
  <2>7. ASSUME NEW i \in DOMAIN kept
        PROVE  kept[i].name # All
    <3>1. p[i] # 1
      BY <1>2, <2>4
    <3>2. 1 < p[i]
      <4>1. DOMAIN roles = 1 .. Len(roles) /\ Len(roles) \in Nat
        OBVIOUS
      <4> QED
        BY <2>4, <3>1, <4>1
    <3>3. PlaceOf[roles[1].name] < PlaceOf[roles[p[i]].name]
      BY <1>0, <2>4, <2>5, <3>2 DEF InOrder
    <3>4. PlaceOf[All] \in Nat
      <4>1. All \in Roles
        BY <1>0 DEF RoleFilter
      <4>2. RoleOrder \in Seq(ToSet(RoleOrder))
        BY RoleOrderAssumption
      <4>3. DOMAIN RoleOrder \subseteq Nat
        BY <4>2
      <4> QED
        BY <4>1, <4>3, PlaceOfRole
    <3> QED
      BY <2>4, <3>3, <3>4
  <2> QED
    BY <2>1, <2>4, <2>6, <2>7 DEF IsSelection
<1> QED
  BY <1>1, <1>2

(* What the filter screen hands back for a list of offered roles.          *)
LEMMA LegalSelectionsOrdered ==
    ASSUME NEW heroes, NEW filters \in LegalSelections(OfferedNames(heroes))
    PROVE  IsSelection(filters)
<1> DEFINE names == OfferedNames(heroes)
           flagged(I) == [i \in DOMAIN names |-> [name |-> names[i], isSelected |-> i \in I]]
<1>1. PICK I \in (SUBSET DOMAIN names) \ {{}} : filters = SelectedFilters(flagged(I))
  BY DEF LegalSelections
<1>2. names \in Seq(Roles) /\ InOrder(names) /\ names # << >> /\ names[1] = All
  BY OfferedNamesOrdered
<1> HIDE DEF names
<1>3. /\ flagged(I) \in Seq(RoleFilter)
      /\ flagged(I) # << >>
      /\ flagged(I)[1].name = All
  <2>1. \A i \in DOMAIN names : (i \in I) \in BOOLEAN
    OBVIOUS
  <2>2. \A i \in DOMAIN names : flagged(I)[i] \in RoleFilter
    BY <1>2, <2>1 DEF RoleFilter
  <2> QED
    BY <1>2, <2>2
<1>4. Names(flagged(I)) = names
  BY <1>2 DEF Names
<1> HIDE DEF flagged
<1> QED
  BY <1>1, <1>2, <1>3, <1>4, SelectedFiltersOrdered

(* A filter screen opened on a selection whose roles are all offered gives *)
(* the selection back as it was.                                           *)
LEMMA SelectionGivenBack ==
    ASSUME NEW heroes, NEW active \in Seq(RoleFilter), active # << >>, IsSelection(active),
           ToSet(Names(active)) \subseteq ToSet(OfferedNames(heroes))
    PROVE  SelectedFilters(GetRoles(heroes, active)) = active
<1> DEFINE names == OfferedNames(heroes)
           roles == GetRoles(heroes, active)
           isActive(name) == \E j \in DOMAIN active : active[j].name = name /\ active[j].isSelected
<1>1. /\ names \in Seq(Roles) /\ InOrder(names) /\ names # << >> /\ names[1] = All
      /\ roles \in Seq(RoleFilter)
  BY OfferedNamesOrdered, GetRolesElements
<1>2. /\ DOMAIN roles = DOMAIN names
      /\ \A i \in DOMAIN names : roles[i] = [name |-> names[i], isSelected |-> isActive(names[i])]
  BY DEF GetRoles
<1> HIDE DEF names, roles
<1>3. ASSUME NEW j \in DOMAIN active
      PROVE  /\ active[j] = [name |-> active[j].name, isSelected |-> TRUE]
             /\ active[j].name \in Roles
  <2>1. active[j] \in RoleFilter /\ active[j].isSelected
    BY DEF IsSelection
  <2> QED
    BY <2>1 DEF RoleFilter
<1>4. 1 \in DOMAIN roles /\ 1 \in DOMAIN names /\ roles # << >>
  BY <1>1, <1>2
<1>5. CASE roles[1].isSelected
  <2>1. isActive(All)
    BY <1>1, <1>2, <1>4, <1>5
  <2>2. PICK j \in DOMAIN active : active[j].name = All
    BY <2>1
  <2>3. Len(active) = 1 /\ j = 1
    BY <2>2 DEF IsSelection
  <2>4. roles[1] = [name |-> All, isSelected |-> TRUE]
    BY <1>1, <1>2, <1>4, <2>1
  <2>5. active[1] = roles[1]
    BY <1>3, <2>2, <2>3, <2>4
  <2>6. active = << roles[1] >>
    BY <2>3, <2>5
  <2> QED
    BY <1>4, <1>5, <2>6 DEF SelectedFilters, roles
<1>6. CASE ~roles[1].isSelected
  <2> DEFINE kept == KeepAt(roles, Selected(roles))
             rank == [f \in RoleFilter |-> PlaceOf[f.name]]
  <2>1. SelectedFilters(roles) = kept
    BY <1>4, <1>6 DEF SelectedFilters
  <2>2. Names(roles) = names
    BY <1>1, <1>2 DEF Names
  <2>3. IsSelection(kept)
    <3>1. roles[1].name = All
      BY <1>1, <1>2, <1>4
    <3> QED
      BY <1>1, <1>4, <2>1, <2>2, <3>1, SelectedFiltersOrdered
  <2>4. kept \in Seq(RoleFilter)
    BY <1>1, KeepAtElements
  <2>5. \A k \in Selected(roles) : \E i \in DOMAIN kept : kept[i] = roles[k]
    BY <1>1, <1>4, <1>6, <2>1, SelectedFiltersElements
  <2>6. rank \in [RoleFilter -> Nat]
    <3>1. RoleOrder \in Seq(ToSet(RoleOrder))
      BY RoleOrderAssumption
    <3>2. DOMAIN RoleOrder \subseteq Nat
      BY <3>1
    <3>3. \A f \in RoleFilter : f.name \in Roles
      BY DEF RoleFilter
    <3>4. \A f \in RoleFilter : PlaceOf[f.name] \in Nat
      BY <3>2, <3>3, PlaceOfRole
    <3> QED
      BY <3>4
  <2>7. ToSet(kept) = ToSet(active)
    <3>1. ASSUME NEW i \in DOMAIN kept
          PROVE  \E j \in DOMAIN active : active[j] = kept[i]
      <4>1. PICK k \in Selected(roles) \cap DOMAIN roles : kept[i] = roles[k]
        BY <1>1, KeepAtElements
      <4>2. roles[k].isSelected /\ roles[k] = [name |-> names[k], isSelected |-> isActive(names[k])]
        BY <1>2, <4>1 DEF Selected
      <4>3. isActive(names[k])
        BY <4>2
      <4>4. PICK j \in DOMAIN active : active[j].name = names[k]
        BY <4>3
      <4> QED
        BY <1>3, <4>1, <4>2, <4>3, <4>4
    <3>2. ASSUME NEW j \in DOMAIN active
          PROVE  \E i \in DOMAIN kept : kept[i] = active[j]
      <4>1. active[j].name \in ToSet(names)
        <5>1. active[j].name \in ToSet(Names(active))
          BY DEF ToSet, Names
        <5> QED
          BY <5>1 DEF names
      <4>2. PICK k \in DOMAIN names : names[k] = active[j].name
        BY <4>1 DEF ToSet
      <4>3. isActive(names[k])
        BY <4>2 DEF IsSelection
      <4>4. roles[k] = [name |-> names[k], isSelected |-> TRUE]
        BY <1>2, <4>3
      <4>5. k \in Selected(roles)
        BY <1>2, <4>4 DEF Selected
      <4>6. roles[k] = active[j]
        BY <1>3, <4>2, <4>4
      <4> QED
        BY <2>5, <4>5, <4>6
    <3> QED
      BY <3>1, <3>2 DEF ToSet
  <2> HIDE DEF kept
  <2>8. ASSUME NEW s \in Seq(RoleFilter), IsSelection(s)
        PROVE  \A i, j \in DOMAIN s : i < j => rank[s[i]] < rank[s[j]]
    <3>1. DOMAIN Names(s) = DOMAIN s /\ \A i \in DOMAIN s : Names(s)[i] = s[i].name
      BY DEF Names
    <3>2. \A i \in DOMAIN s : rank[s[i]] = PlaceOf[s[i].name]
      OBVIOUS
    <3> HIDE DEF rank
    <3> QED
      BY <2>8, <3>1, <3>2 DEF IsSelection, InOrder
  <2> HIDE DEF rank
  <2>9. kept = active
    BY <2>3, <2>4, <2>6, <2>7, <2>8, SameOrderSameList
  <2> QED
    BY <2>1, <2>9 DEF roles
<1> QED
  BY <1>5, <1>6

----------------------------------------------------------------------------
(* The service.  For any number of data tasks and any responses each fetch *)
(* calls back at most once.                                                *)

(* What is queued is the youngest part of what has been posted: the two    *)
(* describe the same blocks, so that Ran of HeroList is what has been run. *)
QueueIsRest ==
    /\ Len(mainQueue) <= Len(posted)
    /\ \A i \in DOMAIN mainQueue : mainQueue[i] = posted[Len(posted) - Len(mainQueue) + i]

(* The invariant every step of the service keeps.                          *)
ServiceInv == ServiceTypeOK /\ OneCallbackPerFetch /\ QueueIsRest

LEMMA ServiceInitInv == ServiceInit => ServiceInv
<1> SUFFICES ASSUME ServiceInit
             PROVE  ServiceInv
  OBVIOUS
<1> USE DEF ServiceInit
<1>1. 1 \in Versions
  BY ServiceAssumption DEF Versions
<1>2. ServiceTypeOK
  BY <1>1 DEF ServiceTypeOK, Stages
<1>3. OneCallbackPerFetch /\ QueueIsRest
  BY DEF OneCallbackPerFetch, QueueIsRest
<1> QED
  BY <1>2, <1>3 DEF ServiceInv

(* A completion handler posts one block, for a task that had none.         *)
LEMMA PostInv ==
    ASSUME ServiceInv, NEW r \in Requests, NEW outcome \in Outcomes,
           request[r] \in {"sent", "read"}, Post(r, outcome)
    PROVE  ServiceInv'
<1> DEFINE block == [request |-> r, outcome |-> outcome]
           n == Len(mainQueue)
           m == Len(posted)
<1>1. /\ request \in [Requests -> Stages]
      /\ mainQueue \in Seq(Block)
      /\ posted \in Seq(Block)
      /\ block \in Block
  BY DEF ServiceInv, ServiceTypeOK, Block
<1>2. /\ mainQueue' = Append(mainQueue, block)
      /\ posted' = Append(posted, block)
      /\ request' = [request EXCEPT ![r] = "answered"]
      /\ UNCHANGED << published, version >>
  BY DEF Post
<1>3. ServiceTypeOK'
  <2>1. mainQueue' \in Seq(Block) /\ posted' \in Seq(Block)
    BY <1>1, <1>2
  <2>2. request' \in [Requests -> Stages]
    BY <1>1, <1>2 DEF Stages
  <2> QED
    BY <1>2, <2>1, <2>2 DEF ServiceInv, ServiceTypeOK
<1>4. /\ n \in Nat /\ m \in Nat
      /\ Len(mainQueue') = n + 1 /\ Len(posted') = m + 1
      /\ \A i \in 1 .. n : mainQueue'[i] = mainQueue[i]
      /\ mainQueue'[n + 1] = block
      /\ \A i \in 1 .. m : posted'[i] = posted[i]
      /\ posted'[m + 1] = block
      /\ DOMAIN mainQueue = 1 .. n /\ DOMAIN mainQueue' = 1 .. n + 1
  BY <1>1, <1>2
<1>5. ASSUME NEW i \in 1 .. n
      PROVE  /\ mainQueue[i].request \in Requests
             /\ request[mainQueue[i].request] = "answered"
             /\ mainQueue[i].request # r
  <2>1. mainQueue[i] \in Block
    BY <1>1, <1>4
  <2>2. request[mainQueue[i].request] = "answered"
    BY <1>4 DEF ServiceInv, OneCallbackPerFetch
  <2> QED
    BY <2>1, <2>2 DEF Block
<1>6. OneCallbackPerFetch'
  <2>1. \A i \in 1 .. n + 1 : request'[mainQueue'[i].request] = "answered"
    <3>1. TAKE i \in 1 .. n + 1
    <3>2. CASE i = n + 1
      BY <1>1, <1>2, <1>4, <3>2
    <3>3. CASE i \in 1 .. n
      BY <1>1, <1>2, <1>4, <1>5, <3>3
    <3> QED
      BY <1>4, <3>2, <3>3
  <2>2. ASSUME NEW i \in 1 .. n + 1, NEW j \in 1 .. n + 1, mainQueue'[i].request = mainQueue'[j].request
        PROVE  i = j
    <3>1. CASE i = n + 1 \/ j = n + 1
      BY <1>4, <1>5, <2>2, <3>1
    <3>2. CASE i \in 1 .. n /\ j \in 1 .. n
      BY <1>4, <2>2, <3>2 DEF ServiceInv, OneCallbackPerFetch
    <3> QED
      BY <1>4, <3>1, <3>2
  <2>3. ASSUME NEW q \in Requests, request'[q] = "answered"
        PROVE  \E i \in 1 .. n + 1 : mainQueue'[i].request = q
    <3>1. CASE q = r
      <4>1. n + 1 \in 1 .. n + 1
        BY <1>4
      <4> QED
        BY <1>4, <3>1, <4>1
    <3>2. CASE q # r
      <4>1. request[q] = "answered"
        BY <1>1, <1>2, <2>3, <3>2
      <4>2. PICK i \in 1 .. n : mainQueue[i].request = q
        BY <1>4, <4>1 DEF ServiceInv, OneCallbackPerFetch
      <4> QED
        BY <1>4, <4>2
    <3> QED
      BY <3>1, <3>2
  <2> QED
    BY <1>4, <2>1, <2>2, <2>3 DEF OneCallbackPerFetch
<1>7. QueueIsRest'
  <2>1. n <= m /\ \A i \in 1 .. n : mainQueue[i] = posted[m - n + i]
    BY <1>4 DEF ServiceInv, QueueIsRest
  <2>2. ASSUME NEW i \in 1 .. n + 1
        PROVE  mainQueue'[i] = posted'[(m + 1) - (n + 1) + i]
    <3>1. CASE i = n + 1
      <4>1. (m + 1) - (n + 1) + i = m + 1
        BY <1>4, <3>1
      <4> QED
        BY <1>4, <3>1, <4>1
    <3>2. CASE i \in 1 .. n
      <4>1. (m + 1) - (n + 1) + i = m - n + i /\ m - n + i \in 1 .. m
        BY <1>4, <2>1, <3>2
      <4> QED
        BY <1>4, <2>1, <3>2, <4>1
    <3> QED
      BY <1>4, <3>1, <3>2
  <2> QED
    BY <1>4, <2>1, <2>2 DEF QueueIsRest
<1> QED
  BY <1>3, <1>6, <1>7 DEF ServiceInv

(* The main thread takes the oldest block: its task leaves "answered", the *)
(* other blocks move up by one place.                                      *)
LEMMA TakeBlockInv ==
    ASSUME ServiceInv, TakeBlock
    PROVE  ServiceInv'
<1> DEFINE n == Len(mainQueue)
           head == mainQueue[1].request
           stage == IF mainQueue[1].outcome = "success" THEN "delivered" ELSE "failed"
<1>1. /\ request \in [Requests -> Stages]
      /\ mainQueue \in Seq(Block)
      /\ posted \in Seq(Block)
  BY DEF ServiceInv, ServiceTypeOK
<1>2. /\ mainQueue # << >>
      /\ mainQueue' = Tail(mainQueue)
      /\ request' = [request EXCEPT ![head] = stage]
      /\ UNCHANGED << published, version, posted >>
  <2>1. mainQueue # << >>
    BY DEF TakeBlock
  <2>2. Head(mainQueue) = mainQueue[1]
    BY <1>1, <2>1
  <2> QED
    BY <2>1, <2>2 DEF TakeBlock
<1>3. /\ n \in Nat /\ n > 0
      /\ DOMAIN mainQueue = 1 .. n /\ DOMAIN mainQueue' = 1 .. n - 1
      /\ mainQueue' \in Seq(Block) /\ Len(mainQueue') = n - 1
      /\ \A i \in 1 .. n - 1 : mainQueue'[i] = mainQueue[i + 1]
  BY <1>1, <1>2
<1>4. stage \in Stages /\ stage # "answered"
  BY DEF Stages
<1> HIDE DEF stage
<1>5. ASSUME NEW i \in 1 .. n
      PROVE  /\ mainQueue[i].request \in Requests
             /\ request[mainQueue[i].request] = "answered"
             /\ \A j \in 1 .. n : mainQueue[i].request = mainQueue[j].request => i = j
  <2>1. mainQueue[i] \in Block
    BY <1>1, <1>3
  <2> QED
    BY <1>3, <2>1 DEF Block, ServiceInv, OneCallbackPerFetch
<1>6. head \in Requests
  BY <1>3, <1>5
<1>7. ServiceTypeOK'
  <2>1. request' \in [Requests -> Stages]
    BY <1>1, <1>2, <1>4, <1>6
  <2> QED
    BY <1>2, <1>3, <2>1 DEF ServiceInv, ServiceTypeOK
<1>8. OneCallbackPerFetch'
  <2>1. ASSUME NEW i \in 1 .. n - 1
        PROVE  request'[mainQueue'[i].request] = "answered"
    <3>1. i + 1 \in 1 .. n /\ 1 \in 1 .. n /\ i + 1 # 1 /\ mainQueue'[i] = mainQueue[i + 1]
      BY <1>3
    <3>2. mainQueue[i + 1].request # head
      BY <1>5, <3>1
    <3> QED
      BY <1>1, <1>2, <1>5, <3>1, <3>2
  <2>2. ASSUME NEW i \in 1 .. n - 1, NEW j \in 1 .. n - 1, mainQueue'[i].request = mainQueue'[j].request
        PROVE  i = j
    <3>1. i + 1 \in 1 .. n /\ j + 1 \in 1 .. n
      BY <1>3
    <3>2. i + 1 = j + 1
      BY <1>3, <1>5, <2>2, <3>1
    <3> QED
      BY <3>2
  <2>3. ASSUME NEW q \in Requests, request'[q] = "answered"
        PROVE  \E i \in 1 .. n - 1 : mainQueue'[i].request = q
    <3>1. q # head /\ request[q] = "answered"
      BY <1>1, <1>2, <1>4, <1>6, <2>3
    <3>2. PICK k \in 1 .. n : mainQueue[k].request = q
      BY <1>3, <3>1 DEF ServiceInv, OneCallbackPerFetch
    <3>3. k # 1 /\ k - 1 \in 1 .. n - 1 /\ (k - 1) + 1 = k
      BY <1>3, <3>1, <3>2
    <3>4. mainQueue'[k - 1] = mainQueue[k]
      BY <1>3, <3>3
    <3> QED
      BY <3>2, <3>3, <3>4
  <2> QED
    BY <1>3, <2>1, <2>2, <2>3 DEF OneCallbackPerFetch
<1>9. QueueIsRest'
  <2>1. n <= Len(posted) /\ \A i \in 1 .. n : mainQueue[i] = posted[Len(posted) - n + i]
    BY <1>3 DEF ServiceInv, QueueIsRest
  <2>2. ASSUME NEW i \in 1 .. n - 1
        PROVE  mainQueue'[i] = posted[Len(posted) - (n - 1) + i]
    <3>1. Len(posted) \in Nat
      BY <1>1
    <3>2. i + 1 \in 1 .. n /\ Len(posted) - (n - 1) + i = Len(posted) - n + (i + 1)
      BY <1>3, <3>1
    <3> QED
      BY <1>3, <2>1, <3>2
  <2>3. Len(mainQueue') <= Len(posted)
    BY <1>1, <1>3, <2>1
  <2> QED
    BY <1>2, <1>3, <2>2, <2>3 DEF QueueIsRest
<1> QED
  BY <1>7, <1>8, <1>9 DEF ServiceInv

(* A step that leaves both queues alone and moves one task between stages  *)
(* other than "answered".                                                  *)
LEMMA StageInv ==
    ASSUME ServiceInv, NEW r \in Requests, NEW stage \in Stages,
           request[r] # "answered", stage # "answered",
           request' = [request EXCEPT ![r] = stage],
           version' \in [Requests -> Versions],
           UNCHANGED << published, mainQueue, posted >>
    PROVE  ServiceInv'
<1>1. /\ request \in [Requests -> Stages]
      /\ mainQueue \in Seq(Block)
      /\ request' \in [Requests -> Stages]
  BY DEF ServiceInv, ServiceTypeOK
<1>2. ServiceTypeOK'
  BY <1>1 DEF ServiceInv, ServiceTypeOK
<1>3. ASSUME NEW i \in DOMAIN mainQueue
      PROVE  mainQueue[i].request \in Requests
  <2>1. mainQueue[i] \in Block
    BY <1>1
  <2> QED
    BY <2>1 DEF Block
<1>4. \A q \in Requests : request'[q] = "answered" <=> request[q] = "answered"
  BY <1>1
<1>5. OneCallbackPerFetch'
  BY <1>3, <1>4 DEF ServiceInv, OneCallbackPerFetch
<1>6. QueueIsRest'
  BY DEF ServiceInv, QueueIsRest
<1> QED
  BY <1>2, <1>5, <1>6 DEF ServiceInv

(* The process dies with its queue: no task is left "answered".            *)
LEMMA ServiceKilledInv ==
    ASSUME ServiceInv, ServiceKilled
    PROVE  ServiceInv'
<1>1. /\ request \in [Requests -> Stages]
      /\ mainQueue' = << >> /\ posted' = << >>
      /\ UNCHANGED << published, version >>
  BY DEF ServiceInv, ServiceTypeOK, ServiceKilled
<1>2. \A r \in Requests : request'[r] \in Stages /\ request'[r] # "answered"
  BY <1>1 DEF ServiceKilled, Stages
<1>3. request' \in [Requests -> Stages]
  BY <1>2 DEF ServiceKilled
<1>4. ServiceTypeOK'
  BY <1>1, <1>3 DEF ServiceInv, ServiceTypeOK
<1>5. OneCallbackPerFetch' /\ QueueIsRest'
  BY <1>1, <1>2 DEF OneCallbackPerFetch, QueueIsRest
<1> QED
  BY <1>4, <1>5 DEF ServiceInv

LEMMA ServiceNextInv ==
    ASSUME ServiceInv, [ServiceNext]_serviceVars
    PROVE  ServiceInv'
<1>1. CASE Publish
  <2>1. ServiceTypeOK'
    BY <1>1 DEF Publish, ServiceInv, ServiceTypeOK
  <2>2. OneCallbackPerFetch' /\ QueueIsRest'
    BY <1>1 DEF Publish, ServiceInv, OneCallbackPerFetch, QueueIsRest
  <2> QED
    BY <2>1, <2>2 DEF ServiceInv
<1>2. CASE TakeBlock
  BY <1>2, TakeBlockInv
<1>3. CASE ServiceKilled
  BY <1>3, ServiceKilledInv
<1>4. ASSUME NEW r \in Requests, Send(r)
      PROVE  ServiceInv'
  <2>1. /\ request[r] # "answered"
        /\ request' = [request EXCEPT ![r] = "sent"]
        /\ "sent" \in Stages /\ "sent" # "answered"
        /\ UNCHANGED << published, mainQueue, posted >>
    BY <1>4 DEF Send, Stages
  <2>2. version' \in [Requests -> Versions]
    BY <1>4 DEF Send, ServiceInv, ServiceTypeOK
  <2> QED
    BY <2>1, <2>2, StageInv
<1>5. ASSUME NEW r \in Requests, ServerReads(r)
      PROVE  ServiceInv'
  <2>1. /\ request[r] # "answered"
        /\ request' = [request EXCEPT ![r] = "read"]
        /\ "read" \in Stages /\ "read" # "answered"
        /\ UNCHANGED << published, mainQueue, posted >>
    BY <1>5 DEF ServerReads, Stages
  <2>2. version' \in [Requests -> Versions]
    BY <1>5 DEF ServerReads, ServiceInv, ServiceTypeOK
  <2> QED
    BY <2>1, <2>2, StageInv
<1>6. ASSUME NEW r \in Requests, TaskCompletes(r)
      PROVE  ServiceInv'
  <2>1. \E outcome \in Outcomes : request[r] \in {"sent", "read"} /\ Post(r, outcome)
    BY <1>6 DEF TaskCompletes, ApiError, BadResponse, Decoded, Outcomes, HeroErrors
  <2> QED
    BY <2>1, PostInv
<1>7. CASE UNCHANGED serviceVars
  BY <1>7 DEF serviceVars, ServiceInv, ServiceTypeOK, OneCallbackPerFetch, QueueIsRest
<1> QED
  BY <1>1, <1>2, <1>3, <1>4, <1>5, <1>6, <1>7 DEF ServiceNext

(* The service is type correct.                                            *)
THEOREM ServiceTypeCorrect == ServiceSafety => []ServiceTypeOK
<1>1. ServiceInv => ServiceTypeOK
  BY DEF ServiceInv
<1> QED
  BY <1>1, ServiceInitInv, ServiceNextInv, PTL DEF ServiceSafety

(* Each fetch calls back at most once: a task has a block in the main      *)
(* queue exactly while it is answered, and never two.                      *)
THEOREM FetchCallsBackOnce == ServiceSafety => []OneCallbackPerFetch
<1>1. ServiceInv => OneCallbackPerFetch
  BY DEF ServiceInv
<1> QED
  BY <1>1, ServiceInitInv, ServiceNextInv, PTL DEF ServiceSafety

----------------------------------------------------------------------------
(* The list over the service *)

(* The steps of the service that run no block and kill nothing.            *)
QuietStep ==
    \/ Publish
    \/ \E r \in Requests : Send(r) \/ ServerReads(r) \/ TaskCompletes(r)
    \/ UNCHANGED serviceVars

LEMMA FetchIsQuiet ==
    ASSUME NEW shown, NEW by, NEW alertShows, FetchHeroes(shown, by, alertShows)
    PROVE  QuietStep
<1>1. CASE connected
  BY <1>1 DEF FetchHeroes, QuietStep
<1>2. CASE ~connected
  BY <1>2 DEF FetchHeroes, QuietStep
<1> QED
  BY <1>1, <1>2

(* Only RunBlock takes a block, and only Kill kills.                       *)
LEMMA QuietOtherwise ==
    ASSUME [Next]_vars, ~RunBlock, ~Kill
    PROVE  QuietStep
<1>1. CASE Launch \/ RefreshButtonTapped \/ TryAgainTapped
  BY <1>1, FetchIsQuiet DEF Launch, RefreshButtonTapped, TryAgainTapped
<1>2. CASE \/ CloseAlertTapped \/ FilterButtonTapped \/ FilterSaved \/ FilterClosed
           \/ SaveStep \/ ConnectivityChanges \/ UNCHANGED vars
  BY <1>2 DEF CloseAlertTapped, FilterButtonTapped, FilterSaved, FilterClosed, SaveStep,
              ConnectivityChanges, vars, QuietStep
<1>3. CASE Background
  BY <1>3 DEF Background, QuietStep
<1> QED
  BY <1>1, <1>2, <1>3 DEF Next

(* Every step of the list is a step of the service, or none of it.         *)
LEMMA StepIsServiceStep ==
    ASSUME [Next]_vars
    PROVE  [ServiceNext]_serviceVars
<1>1. CASE RunBlock \/ Kill
  BY <1>1 DEF RunBlock, Kill, ServiceNext
<1>2. CASE ~RunBlock /\ ~Kill
  BY <1>2, QuietOtherwise DEF QuietStep, ServiceNext
<1> QED
  BY <1>1, <1>2

(* The hero list implements the service's specification, so what is proved *)
(* of the service holds of the app.                                        *)
THEOREM ListImplementsService == Spec => ServiceSafety
<1>1. Init => ServiceInit
  BY DEF Init
<1>2. [Next]_vars => [ServiceNext]_serviceVars
  BY StepIsServiceStep
<1> QED
  BY <1>1, <1>2, PTL DEF Spec, ServiceSafety

(* In the app too each fetch calls back at most once.                      *)
THEOREM ListFetchCallsBackOnce == Spec => []OneCallbackPerFetch
  BY ListImplementsService, FetchCallsBackOnce, PTL

----------------------------------------------------------------------------
(* Type correctness *)

LEMMA NamesTypes ==
    ASSUME NEW filters \in Seq(RoleFilter)
    PROVE  Names(filters) \in Seq(Roles)
<1>1. ASSUME NEW i \in DOMAIN filters
      PROVE  filters[i].name \in Roles
  <2>1. filters[i] \in RoleFilter
    OBVIOUS
  <2> QED
    BY <2>1 DEF RoleFilter
<1>2. Len(filters) \in Nat /\ DOMAIN filters = 1 .. Len(filters)
  OBVIOUS
<1> QED
  BY <1>1, <1>2 DEF Names

(* Writing a row takes it from the save that runs to the store.            *)
LEMMA RowMoves ==
    ASSUME NEW rows \in Seq(Heroes), NEW rest \in Seq(Heroes), rest # << >>
    PROVE  ToSet(rows) \cup ToSet(rest) \subseteq ToSet(Append(rows, Head(rest))) \cup ToSet(Tail(rest))
<1> DEFINE more == Append(rows, Head(rest))
           left == Tail(rest)
<1>1. /\ Len(rows) \in Nat /\ DOMAIN rows = 1 .. Len(rows)
      /\ DOMAIN more = 1 .. Len(rows) + 1 /\ more[Len(rows) + 1] = rest[1]
      /\ \A i \in 1 .. Len(rows) : more[i] = rows[i]
  OBVIOUS
<1>2. /\ Len(rest) \in Nat /\ DOMAIN rest = 1 .. Len(rest)
      /\ DOMAIN left = 1 .. Len(rest) - 1
      /\ \A i \in 1 .. Len(rest) - 1 : left[i] = rest[i + 1]
  OBVIOUS
<1> HIDE DEF more, left
<1>3. ToSet(rows) \subseteq ToSet(more)
  BY <1>1 DEF ToSet
<1>4. rest[1] \in ToSet(more)
  <2>1. Len(rows) + 1 \in DOMAIN more
    BY <1>1
  <2> QED
    BY <1>1, <2>1 DEF ToSet
<1>5. ASSUME NEW i \in DOMAIN rest, i # 1
      PROVE  rest[i] \in ToSet(left)
  <2>1. i - 1 \in 1 .. Len(rest) - 1 /\ (i - 1) + 1 = i
    BY <1>2, <1>5
  <2> QED
    BY <1>2, <2>1 DEF ToSet
<1> QED
  BY <1>3, <1>4, <1>5 DEF ToSet, more, left

LEMMA FetchTypes ==
    ASSUME TypeOK, NEW shown \in Seq(Heroes), NEW by \in Fillers, NEW alertShows \in BOOLEAN,
           FetchHeroes(shown, by, alertShows)
    PROVE  /\ obsHeroes' \in Seq(Heroes)
           /\ history' \in [shownBy : Fillers, openedOn : Seq(Heroes)]
           /\ modal' \in Modals
<1>1. PICK rows \in GetHeroes :
         /\ obsHeroes' = IF rows # << >> THEN rows ELSE shown
         /\ history' = [history EXCEPT !.shownBy = IF rows # << >> THEN "local" ELSE by]
  BY DEF FetchHeroes, GetLocalHeroes
<1>2. rows \in Seq(Heroes)
  <2>1. << >> \in Seq(Heroes) /\ store \in Seq(Heroes)
    BY DEF TypeOK
  <2> QED
    BY <2>1 DEF GetHeroes
<1>3. history' \in [shownBy : Fillers, openedOn : Seq(Heroes)]
  BY <1>1 DEF TypeOK, Fillers
<1>4. modal' \in Modals
  BY DEF FetchHeroes, Modals
<1> QED
  BY <1>1, <1>2, <1>3, <1>4

LEMMA TypeStep ==
    ASSUME TypeOK, ServiceInv, ServiceTypeOK', [Next]_vars
    PROVE  TypeOK'
<1> USE DEF TypeOK
<1>0. << >> \in Seq(Heroes) /\ << >> \in Seq(RoleFilter)
  OBVIOUS
<1>1. CASE Launch
  <2>1. /\ running' = TRUE
        /\ masterHeroes' = << >> /\ obsActiveFilters' = << >> /\ isFetching' = FALSE /\ error' = "none"
        /\ offered' = << >>
        /\ UNCHANGED << connected, store, saving, dropped >>
    BY <1>1 DEF Launch, FreshInteractor, realmVars
  <2>2. PICK alertShows \in BOOLEAN : FetchHeroes(<< >>, "none", alertShows)
    BY <1>1 DEF Launch
  <2>3. /\ obsHeroes' \in Seq(Heroes)
        /\ history' \in [shownBy : Fillers, openedOn : Seq(Heroes)]
        /\ modal' \in Modals
    <3>1. "none" \in Fillers
      BY DEF Fillers
    <3> QED
      BY ONLY <1>0, <2>2, <3>1, FetchTypes, TypeOK
  <2>4. /\ store' \in Seq(Heroes) /\ saving' \in Seq(Heroes) /\ dropped' \in Seq(Heroes)
        /\ running' \in BOOLEAN /\ connected' \in BOOLEAN /\ isFetching' \in BOOLEAN
        /\ error' \in HeroErrors \cup {"none"}
    BY <2>1
  <2>5. masterHeroes' \in Seq(Heroes) /\ obsActiveFilters' \in Seq(RoleFilter) /\ offered' \in Seq(RoleFilter)
    BY <1>0, <2>1
  <2> QED
    BY ONLY <2>3, <2>4, <2>5, ServiceTypeOK' DEF TypeOK
<1>2. CASE RefreshButtonTapped \/ TryAgainTapped
  <2>1. /\ FetchHeroes(obsHeroes, history.shownBy, TRUE)
        /\ UNCHANGED << running, connected, offered, store, saving, dropped >>
        /\ UNCHANGED << masterHeroes, obsActiveFilters, isFetching, error >>
    BY <1>2 DEF RefreshButtonTapped, TryAgainTapped, realmVars
  <2>2. /\ obsHeroes' \in Seq(Heroes)
        /\ history' \in [shownBy : Fillers, openedOn : Seq(Heroes)]
        /\ modal' \in Modals
    BY <2>1, FetchTypes
  <2> QED
    BY <2>1, <2>2
<1>3. CASE CloseAlertTapped
  BY <1>3 DEF CloseAlertTapped, interactorVars, realmVars, Modals
<1>4. CASE FilterButtonTapped
  <2>1. offered' \in Seq(RoleFilter)
    BY <1>4, GetRolesElements DEF FilterButtonTapped
  <2>2. history' \in [shownBy : Fillers, openedOn : Seq(Heroes)]
    BY <1>4 DEF FilterButtonTapped
  <2> QED
    BY <1>4, <2>1, <2>2 DEF FilterButtonTapped, interactorVars, realmVars, Modals
<1>5. CASE FilterSaved
  <2>1. PICK filters \in LegalSelections(Names(offered)) : FilterHeroes(filters)
    BY <1>5 DEF FilterSaved
  <2>2. Names(offered) \in Seq(Roles)
    BY NamesTypes
  <2>3. filters \in Seq(RoleFilter) /\ filters # << >>
    BY <2>2, LegalSelectionsElements
  <2>4. obsHeroes' \in Seq(Heroes) /\ obsActiveFilters' \in Seq(RoleFilter)
    BY <2>1, <2>3, FilterResultElements DEF FilterHeroes
  <2>5. history' \in [shownBy : Fillers, openedOn : Seq(Heroes)]
    BY <2>1, <2>3 DEF FilterHeroes, Fillers
  <2> QED
    BY <1>5, <2>1, <2>4, <2>5 DEF FilterSaved, FilterHeroes, realmVars, Modals
<1>6. CASE FilterClosed
  BY <1>6 DEF FilterClosed, interactorVars, realmVars, Modals
<1>7. CASE RunBlock
  <2> DEFINE block == mainQueue[1]
  <2>1. /\ block = Head(mainQueue) /\ block.request \in Requests /\ block.outcome \in Outcomes
        /\ UNCHANGED << running, connected, modal, offered >>
    <3>1. mainQueue # << >>
      BY <1>7 DEF RunBlock, TakeBlock
    <3>2. mainQueue[1] = Head(mainQueue) /\ mainQueue[1] \in Block
      BY <3>1 DEF ServiceTypeOK
    <3> QED
      BY <1>7, <3>2 DEF RunBlock, Block
  <2>2. CASE block.outcome = "success"
    <3> DEFINE response == Catalogues[version[block.request]]
    <3>1. response \in Seq(Heroes)
      BY <2>1, CataloguesAssumption DEF ServiceTypeOK
    <3>2. HandleResponse(response)
      BY <1>7, <2>1, <2>2 DEF RunBlock
    <3> HIDE DEF response
    <3>3. history' \in [shownBy : Fillers, openedOn : Seq(Heroes)]
      BY <3>2 DEF HandleResponse, Fillers
    <3>4. /\ obsHeroes' \in Seq(Heroes) /\ masterHeroes' \in Seq(Heroes)
          /\ store' \in Seq(Heroes) /\ saving' \in Seq(Heroes) /\ dropped' \in Seq(Heroes)
      BY <1>0, <3>1, <3>2 DEF HandleResponse, SaveHeroes
    <3>5. /\ isFetching' \in BOOLEAN
          /\ UNCHANGED << running, connected, modal, offered, obsActiveFilters, error >>
      BY <2>1, <3>2 DEF HandleResponse
    <3> QED
      BY <3>3, <3>4, <3>5
  <2>3. CASE block.outcome # "success"
    <3>1. HandleError(block.outcome) /\ block.outcome \in HeroErrors
      BY <1>7, <2>1, <2>3 DEF RunBlock, Outcomes
    <3> QED
      BY <2>1, <3>1 DEF HandleError, realmVars
  <2> QED
    BY <2>2, <2>3
<1>8. CASE SaveStep
  <2>1. /\ store' \in Seq(Heroes)
        /\ saving' \in Seq(Heroes)
        /\ dropped' \in Seq(Heroes)
    <3>1. CASE WriteRow
      <4>1. Head(saving) \in Heroes /\ Tail(saving) \in Seq(Heroes)
        BY <3>1 DEF WriteRow
      <4> QED
        BY <3>1, <4>1 DEF WriteRow
    <3>2. CASE SaveFails
      BY <3>2 DEF SaveFails
    <3> QED
      BY <1>8, <3>1, <3>2 DEF SaveStep
  <2> QED
    BY <1>8, <2>1 DEF SaveStep, listVars, interactorVars
<1>9. CASE Kill
  <2>1. /\ obsHeroes' \in Seq(Heroes) /\ masterHeroes' \in Seq(Heroes)
        /\ store' \in Seq(Heroes) /\ saving' \in Seq(Heroes) /\ dropped' \in Seq(Heroes)
        /\ obsActiveFilters' \in Seq(RoleFilter) /\ offered' \in Seq(RoleFilter)
    BY <1>0, <1>9 DEF Kill, RealmKilled, FreshInteractor
  <2>2. history' \in [shownBy : Fillers, openedOn : Seq(Heroes)]
    BY <1>0, <1>9 DEF Kill, Fillers
  <2>3. /\ running' \in BOOLEAN /\ connected' \in BOOLEAN /\ isFetching' \in BOOLEAN
        /\ modal' \in Modals /\ error' \in HeroErrors \cup {"none"}
    BY <1>9 DEF Kill, FreshInteractor, Modals
  <2> QED
    BY ONLY <2>1, <2>2, <2>3, ServiceTypeOK' DEF TypeOK
<1>10. CASE ConnectivityChanges
  BY <1>10 DEF ConnectivityChanges, interactorVars, realmVars
<1>11. CASE Background
  BY <1>11 DEF Background, listVars, interactorVars, realmVars
<1>12. CASE UNCHANGED vars
  BY <1>12 DEF vars, listVars, interactorVars, realmVars
<1> QED
  BY <1>1, <1>2, <1>3, <1>4, <1>5, <1>6, <1>7, <1>8, <1>9, <1>10, <1>11, <1>12 DEF Next

----------------------------------------------------------------------------
(* What is shown has been saved, and a filtered grid is the selection *)

(* Only the save that runs last gives heroes up: while one runs, none is   *)
(* given up yet.  HeroesKept is not inductive without it, for a failing    *)
(* save replaces the heroes that were given up before.                     *)
NothingDroppedYet == saving # << >> => dropped = << >>

LEMMA NothingDroppedYetStep ==
    ASSUME NothingDroppedYet, [Next]_vars
    PROVE  NothingDroppedYet'
<1>1. CASE RunBlock
  <2>1. \/ \E response : HandleResponse(response)
        \/ \E outcome : HandleError(outcome)
    BY <1>1 DEF RunBlock
  <2> QED
    BY <2>1 DEF HandleResponse, HandleError, SaveHeroes, NothingDroppedYet, realmVars
<1>2. CASE SaveStep
  BY <1>2 DEF SaveStep, WriteRow, SaveFails, NothingDroppedYet
<1>3. CASE Kill
  BY <1>3 DEF Kill, RealmKilled, NothingDroppedYet
<1>4. CASE \/ Launch \/ RefreshButtonTapped \/ TryAgainTapped \/ CloseAlertTapped
           \/ FilterButtonTapped \/ FilterSaved \/ FilterClosed
           \/ ConnectivityChanges \/ Background \/ UNCHANGED vars
  <2>1. UNCHANGED << saving, dropped >>
    BY <1>4 DEF Launch, RefreshButtonTapped, TryAgainTapped, CloseAlertTapped, FilterButtonTapped,
                FilterSaved, FilterClosed, ConnectivityChanges, Background, vars, realmVars
  <2> QED
    BY <2>1 DEF NothingDroppedYet
<1> QED
  BY <1>1, <1>2, <1>3, <1>4 DEF Next

LEMMA HeroesKeptStep ==
    ASSUME TypeOK, TypeOK', NothingDroppedYet, HeroesKept, [Next]_vars
    PROVE  HeroesKept'
<1> DEFINE Known == ToSet(store) \cup ToSet(saving) \cup ToSet(dropped)
           Seen == ToSet(obsHeroes) \cup ToSet(masterHeroes)
<1>0. Seen \subseteq Known /\ ToSet(<< >>) = {}
  BY DEF HeroesKept, ToSet
<1>1. ASSUME NEW shown, NEW by, NEW alertShows, FetchHeroes(shown, by, alertShows),
             ToSet(shown) \subseteq Known
      PROVE  ToSet(obsHeroes') \subseteq Known
  <2>1. PICK rows \in GetHeroes : obsHeroes' = IF rows # << >> THEN rows ELSE shown
    BY <1>1 DEF FetchHeroes, GetLocalHeroes
  <2> QED
    BY <1>1, <2>1 DEF GetHeroes
<1>2. CASE Launch
  <2>1. masterHeroes' = << >> /\ UNCHANGED realmVars
    BY <1>2 DEF Launch, FreshInteractor
  <2>2. PICK alertShows \in BOOLEAN : FetchHeroes(<< >>, "none", alertShows)
    BY <1>2 DEF Launch
  <2>3. ToSet(obsHeroes') \subseteq Known
    BY <1>0, <1>1, <2>2
  <2> QED
    BY <1>0, <2>1, <2>3 DEF HeroesKept, realmVars
<1>3. CASE RefreshButtonTapped \/ TryAgainTapped
  <2>1. FetchHeroes(obsHeroes, history.shownBy, TRUE) /\ UNCHANGED << masterHeroes, realmVars >>
    BY <1>3 DEF RefreshButtonTapped, TryAgainTapped
  <2>2. ToSet(obsHeroes') \subseteq Known
    BY <1>0, <1>1, <2>1
  <2> QED
    BY <1>0, <2>1, <2>2 DEF HeroesKept, realmVars
<1>4. CASE FilterSaved
  <2>1. PICK filters \in LegalSelections(Names(offered)) : FilterHeroes(filters)
    BY <1>4 DEF FilterSaved
  <2>2. filters \in Seq(RoleFilter) /\ filters # << >>
    BY <2>1, NamesTypes, LegalSelectionsElements DEF TypeOK
  <2>3. ToSet(obsHeroes') \subseteq ToSet(masterHeroes)
    BY <2>1, <2>2, FilterResultElements DEF FilterHeroes, TypeOK
  <2> QED
    BY <1>0, <1>4, <2>1, <2>3 DEF FilterSaved, FilterHeroes, HeroesKept, realmVars
<1>5. CASE RunBlock
  <2>1. \/ \E response : HandleResponse(response)
        \/ \E outcome : HandleError(outcome)
    BY <1>5 DEF RunBlock
  <2> QED
    BY <1>0, <2>1 DEF HandleResponse, HandleError, SaveHeroes, HeroesKept, realmVars
<1>6. CASE SaveStep
  <2>1. UNCHANGED << obsHeroes, masterHeroes >>
    BY <1>6 DEF SaveStep, listVars, interactorVars
  <2>2. CASE WriteRow
    <3>1. /\ saving \in Seq(Heroes) /\ saving # << >> /\ store \in Seq(Heroes)
          /\ store' = Append(store, Head(saving)) /\ saving' = Tail(saving) /\ dropped' = dropped
      BY <2>2 DEF WriteRow, TypeOK
    <3>2. ToSet(store) \cup ToSet(saving) \subseteq ToSet(store') \cup ToSet(saving')
      BY <3>1, RowMoves
    <3> QED
      BY <1>0, <2>1, <3>1, <3>2 DEF HeroesKept
  <2>3. CASE SaveFails
    <3>1. /\ UNCHANGED store /\ saving' = << >> /\ dropped' = saving
          /\ dropped = << >>
      BY <2>3 DEF SaveFails, NothingDroppedYet
    <3> QED
      BY <1>0, <2>1, <3>1 DEF HeroesKept
  <2> QED
    BY <1>6, <2>2, <2>3 DEF SaveStep
<1>7. CASE Kill
  BY <1>0, <1>7 DEF Kill, FreshInteractor, HeroesKept
<1>8. CASE CloseAlertTapped \/ FilterButtonTapped \/ FilterClosed \/ ConnectivityChanges \/ Background \/ UNCHANGED vars
  <2>1. UNCHANGED << obsHeroes, masterHeroes, store, saving, dropped >>
    BY <1>8 DEF CloseAlertTapped, FilterButtonTapped, FilterClosed, ConnectivityChanges, Background,
                vars, listVars, interactorVars, realmVars
  <2> QED
    BY <2>1 DEF HeroesKept
<1> QED
  BY <1>2, <1>3, <1>4, <1>5, <1>6, <1>7, <1>8 DEF Next

LEMMA ShownMatchesFilterStep ==
    ASSUME TypeOK, TypeOK', ShownMatchesFilter, [Next]_vars
    PROVE  ShownMatchesFilter'
<1> DEFINE by == history.shownBy
<1>0. by \in Fillers /\ history \in [shownBy : Fillers, openedOn : Seq(Heroes)]
  BY DEF TypeOK
<1>1. ASSUME NEW shown, NEW who \in Fillers, NEW alertShows, FetchHeroes(shown, who, alertShows)
      PROVE  history'.shownBy = "filter" => who = "filter" /\ obsHeroes' = shown
  <2>1. PICK rows \in GetHeroes :
           /\ obsHeroes' = IF rows # << >> THEN rows ELSE shown
           /\ history' = [history EXCEPT !.shownBy = IF rows # << >> THEN "local" ELSE who]
    BY <1>1 DEF FetchHeroes, GetLocalHeroes
  <2> QED
    BY <1>0, <2>1
<1>2. CASE Launch
  <2>1. PICK alertShows \in BOOLEAN : FetchHeroes(<< >>, "none", alertShows)
    BY <1>2 DEF Launch
  <2>2. "none" \in Fillers /\ "none" # "filter"
    BY DEF Fillers
  <2>3. history'.shownBy # "filter"
    BY <1>1, <2>1, <2>2
  <2> QED
    BY <2>3 DEF ShownMatchesFilter
<1>3. CASE RefreshButtonTapped \/ TryAgainTapped
  <2>1. FetchHeroes(obsHeroes, by, TRUE) /\ UNCHANGED << masterHeroes, obsActiveFilters >>
    BY <1>3 DEF RefreshButtonTapped, TryAgainTapped
  <2>2. history'.shownBy = "filter" => by = "filter" /\ obsHeroes' = obsHeroes
    BY <1>0, <1>1, <2>1
  <2> QED
    BY <2>1, <2>2 DEF ShownMatchesFilter
<1>4. CASE FilterSaved
  <2>1. PICK filters \in LegalSelections(Names(offered)) : FilterHeroes(filters)
    BY <1>4 DEF FilterSaved
  <2>2. filters # << >>
    BY <2>1, NamesTypes, LegalSelectionsElements DEF TypeOK
  <2> QED
    BY <2>1, <2>2 DEF FilterHeroes, ShownMatchesFilter
<1>5. CASE RunBlock
  <2>1. \/ \E response : HandleResponse(response)
        \/ \E outcome : HandleError(outcome)
    BY <1>5 DEF RunBlock
  <2>2. CASE \E response : HandleResponse(response)
    <3>1. history'.shownBy = "response"
      BY <1>0, <2>2 DEF HandleResponse
    <3> QED
      BY <3>1 DEF ShownMatchesFilter
  <2>3. CASE \E outcome : HandleError(outcome)
    BY <2>3 DEF HandleError, ShownMatchesFilter
  <2> QED
    BY <2>1, <2>2, <2>3
<1>6. CASE Kill
  <2>1. history'.shownBy = "none"
    BY <1>6 DEF Kill
  <2> QED
    BY <2>1 DEF ShownMatchesFilter
<1>7. CASE FilterButtonTapped
  <2>1. history'.shownBy = by /\ UNCHANGED << obsHeroes, masterHeroes, obsActiveFilters >>
    BY <1>0, <1>7 DEF FilterButtonTapped, interactorVars
  <2> QED
    BY <2>1 DEF ShownMatchesFilter
<1>8. CASE CloseAlertTapped \/ FilterClosed \/ SaveStep \/ ConnectivityChanges \/ Background \/ UNCHANGED vars
  <2>1. UNCHANGED << obsHeroes, masterHeroes, obsActiveFilters, history >>
    BY <1>8 DEF CloseAlertTapped, FilterClosed, SaveStep, ConnectivityChanges, Background,
                vars, listVars, interactorVars
  <2> QED
    BY <2>1 DEF ShownMatchesFilter
<1> QED
  BY <1>2, <1>3, <1>4, <1>5, <1>6, <1>7, <1>8 DEF Next

----------------------------------------------------------------------------
(* The filter screen *)

(* The filter screen offers the roles of the response it was opened on,    *)
(* whatever is delivered in the meantime, flagged as the active filters    *)
(* flag them.                                                              *)
OffersOpenedOn == modal = "filter" => offered = GetRoles(history.openedOn, obsActiveFilters)

LEMMA OffersOpenedOnStep ==
    ASSUME TypeOK, OffersOpenedOn, [Next]_vars
    PROVE  OffersOpenedOn'
<1>0. history \in [shownBy : Fillers, openedOn : Seq(Heroes)]
  BY DEF TypeOK
<1>1. CASE Launch \/ RefreshButtonTapped \/ TryAgainTapped
  <2>1. \E shown, by, alertShows : FetchHeroes(shown, by, alertShows)
    BY <1>1 DEF Launch, RefreshButtonTapped, TryAgainTapped
  <2>2. modal' # "filter"
    BY <2>1 DEF FetchHeroes
  <2> QED
    BY <2>2 DEF OffersOpenedOn
<1>2. CASE FilterButtonTapped
  <2>1. history'.openedOn = masterHeroes /\ offered' = GetRoles(masterHeroes, obsActiveFilters)
    BY <1>0, <1>2 DEF FilterButtonTapped
  <2>2. obsActiveFilters' = obsActiveFilters
    BY <1>2 DEF FilterButtonTapped, interactorVars
  <2> QED
    BY <2>1, <2>2 DEF OffersOpenedOn
<1>3. CASE RunBlock
  <2>1. \/ \E response : HandleResponse(response)
        \/ \E outcome : HandleError(outcome)
    BY <1>3 DEF RunBlock
  <2>2. history'.openedOn = history.openedOn /\ obsActiveFilters' = obsActiveFilters
    BY <1>0, <2>1 DEF HandleResponse, HandleError
  <2> QED
    BY <1>3, <2>2 DEF RunBlock, OffersOpenedOn
<1>4. CASE CloseAlertTapped \/ FilterSaved \/ FilterClosed \/ Kill
  <2>1. modal' # "filter"
    BY <1>4 DEF CloseAlertTapped, FilterSaved, FilterClosed, Kill
  <2> QED
    BY <2>1 DEF OffersOpenedOn
<1>5. CASE SaveStep \/ ConnectivityChanges \/ Background \/ UNCHANGED vars
  <2>1. UNCHANGED << modal, offered, history, obsActiveFilters >>
    BY <1>5 DEF SaveStep, ConnectivityChanges, Background, vars, listVars, interactorVars
  <2> QED
    BY <2>1 DEF OffersOpenedOn
<1> QED
  BY <1>1, <1>2, <1>3, <1>4, <1>5 DEF Next

(* The active filters are what a filter screen handed back: selected, in   *)
(* the order of the roles, "All" only on its own.                          *)
ActiveIsSelection == IsSelection(obsActiveFilters)

LEMMA NothingIsSelection == IsSelection(<< >>)
  BY DEF IsSelection, InOrder, Names

LEMMA ActiveIsSelectionStep ==
    ASSUME TypeOK, OffersOpenedOn, ActiveIsSelection, [Next]_vars
    PROVE  ActiveIsSelection'
<1>1. CASE FilterSaved
  <2>1. PICK filters \in LegalSelections(Names(offered)) : FilterHeroes(filters)
    BY <1>1 DEF FilterSaved
  <2>2. Names(offered) = OfferedNames(history.openedOn)
    BY <1>1, GetRolesElements DEF FilterSaved, OffersOpenedOn
  <2>3. IsSelection(filters)
    BY <2>1, <2>2, LegalSelectionsOrdered
  <2>4. obsActiveFilters' = filters
    BY <2>1 DEF FilterHeroes
  <2> QED
    BY <2>3, <2>4 DEF ActiveIsSelection
<1>2. CASE Launch \/ Kill
  <2>1. obsActiveFilters' = << >>
    BY <1>2 DEF Launch, Kill, FreshInteractor
  <2> QED
    BY <2>1, NothingIsSelection DEF ActiveIsSelection
<1>3. CASE RunBlock
  <2>1. \/ \E response : HandleResponse(response)
        \/ \E outcome : HandleError(outcome)
    BY <1>3 DEF RunBlock
  <2>2. obsActiveFilters' = obsActiveFilters
    BY <2>1 DEF HandleResponse, HandleError
  <2> QED
    BY <2>2 DEF ActiveIsSelection
<1>4. CASE \/ RefreshButtonTapped \/ TryAgainTapped \/ CloseAlertTapped \/ FilterButtonTapped
           \/ FilterClosed \/ SaveStep \/ ConnectivityChanges \/ Background \/ UNCHANGED vars
  <2>1. obsActiveFilters' = obsActiveFilters
    BY <1>4 DEF RefreshButtonTapped, TryAgainTapped, CloseAlertTapped, FilterButtonTapped, FilterClosed,
                SaveStep, ConnectivityChanges, Background, vars, listVars, interactorVars
  <2> QED
    BY <2>1 DEF ActiveIsSelection
<1> QED
  BY <1>1, <1>2, <1>3, <1>4 DEF Next

----------------------------------------------------------------------------
(* Before the process starts nothing is on the grid.                       *)
NoneShownBeforeLaunch == ~running => obsHeroes = << >>

LEMMA NoneShownStep ==
    ASSUME NoneShownBeforeLaunch, [Next]_vars
    PROVE  NoneShownBeforeLaunch'
<1>1. CASE Launch
  BY <1>1 DEF Launch, NoneShownBeforeLaunch
<1>2. CASE Kill
  BY <1>2 DEF Kill, NoneShownBeforeLaunch
<1>3. CASE \/ RefreshButtonTapped \/ TryAgainTapped \/ CloseAlertTapped \/ FilterButtonTapped
           \/ FilterSaved \/ FilterClosed \/ RunBlock \/ SaveStep
  <2>1. running /\ running' = running
    BY <1>3 DEF RefreshButtonTapped, TryAgainTapped, CloseAlertTapped, FilterButtonTapped, FilterSaved,
                FilterClosed, RunBlock, SaveStep, MainThreadIdle, listVars
  <2> QED
    BY <2>1 DEF NoneShownBeforeLaunch
<1>4. CASE ConnectivityChanges \/ Background \/ UNCHANGED vars
  BY <1>4 DEF ConnectivityChanges, Background, vars, listVars, interactorVars, NoneShownBeforeLaunch
<1> QED
  BY <1>1, <1>2, <1>3, <1>4 DEF Next

----------------------------------------------------------------------------
(* The blocks that have run *)

(* What has run, block by block.                                           *)
LEMMA RanBlocks ==
    ASSUME ServiceInv
    PROVE  /\ Len(posted) - Len(mainQueue) \in Nat
           /\ Ran \in Seq(Block)
           /\ DOMAIN Ran = 1 .. Len(posted) - Len(mainQueue)
           /\ \A i \in DOMAIN Ran : /\ Ran[i] = posted[i] /\ i \in DOMAIN posted
                                    /\ Ran[i].request \in Requests /\ Ran[i].outcome \in Outcomes
<1> DEFINE n == Len(posted) - Len(mainQueue)
<1>1. posted \in Seq(Block) /\ mainQueue \in Seq(Block) /\ Len(mainQueue) <= Len(posted)
  BY DEF ServiceInv, ServiceTypeOK, QueueIsRest
<1>2. n \in Nat /\ n <= Len(posted) /\ Len(posted) \in Nat /\ DOMAIN posted = 1 .. Len(posted)
  BY <1>1
<1>3. /\ SubSeq(posted, 1, n) \in Seq(Block) /\ DOMAIN SubSeq(posted, 1, n) = 1 .. n
      /\ \A i \in 1 .. n : SubSeq(posted, 1, n)[i] = posted[i] /\ posted[i] \in Block
  BY <1>1, <1>2
<1>4. \A b \in Block : b.request \in Requests /\ b.outcome \in Outcomes
  BY DEF Block
<1> HIDE DEF n
<1>5. \A i \in 1 .. n : i \in DOMAIN posted
  BY <1>2
<1>6. Ran = SubSeq(posted, 1, n)
  BY DEF Ran, n
<1> QED
  BY <1>2, <1>3, <1>4, <1>5, <1>6 DEF n

(* A step that takes no block and kills nothing: the same blocks have run. *)
LEMMA RanStays ==
    ASSUME ServiceInv, QuietStep
    PROVE  Ran' = Ran
<1> DEFINE n == Len(posted) - Len(mainQueue)
<1>1. posted \in Seq(Block) /\ mainQueue \in Seq(Block)
  BY DEF ServiceInv, ServiceTypeOK
<1>2. CASE UNCHANGED << posted, mainQueue >>
  BY <1>2 DEF Ran
<1>3. ASSUME NEW b \in Block, posted' = Append(posted, b), mainQueue' = Append(mainQueue, b)
      PROVE  Ran' = Ran
  <2>1. n \in Nat /\ n <= Len(posted) /\ Len(posted') - Len(mainQueue') = n
    BY <1>1, <1>3 DEF ServiceInv, QueueIsRest
  <2>2. Ran = SubSeq(posted, 1, n) /\ Ran' = SubSeq(Append(posted, b), 1, n)
    BY <1>3, <2>1 DEF Ran
  <2> HIDE DEF n
  <2>3. SubSeq(posted, 1, n) = SubSeq(Append(posted, b), 1, n)
    BY ONLY <1>1, <2>1, b \in Block
  <2> QED
    BY <2>2, <2>3
<1>4. ASSUME NEW r \in Requests, TaskCompletes(r)
      PROVE  Ran' = Ran
  <2>1. PICK outcome \in Outcomes : Post(r, outcome)
    BY <1>4 DEF TaskCompletes, ApiError, BadResponse, Decoded, Outcomes, HeroErrors
  <2>2. [request |-> r, outcome |-> outcome] \in Block
    BY DEF Block
  <2> QED
    BY <1>3, <2>1, <2>2 DEF Post
<1>5. ASSUME NEW r \in Requests, Send(r) \/ ServerReads(r)
      PROVE  UNCHANGED << posted, mainQueue >>
  BY <1>5 DEF Send, ServerReads
<1>6. CASE Publish \/ UNCHANGED serviceVars
  BY <1>2, <1>6 DEF Publish, serviceVars
<1> QED
  BY <1>2, <1>4, <1>5, <1>6 DEF QuietStep

(* Taking a block: it has run now, after those that had.                   *)
LEMMA RanGrows ==
    ASSUME ServiceInv, TakeBlock
    PROVE  Ran' = Append(Ran, Head(mainQueue)) /\ Head(mainQueue) \in Block
<1> DEFINE n == Len(posted) - Len(mainQueue)
<1>1. /\ posted \in Seq(Block) /\ mainQueue \in Seq(Block) /\ Len(mainQueue) <= Len(posted)
      /\ \A i \in DOMAIN mainQueue : mainQueue[i] = posted[n + i]
      /\ mainQueue # << >> /\ mainQueue' = Tail(mainQueue) /\ posted' = posted
  BY DEF ServiceInv, ServiceTypeOK, QueueIsRest, TakeBlock
<1>2. /\ n \in Nat /\ n + 1 <= Len(posted) /\ Len(posted') - Len(mainQueue') = n + 1
      /\ Head(mainQueue) = mainQueue[1] /\ 1 \in DOMAIN mainQueue
  BY <1>1
<1>3. Head(mainQueue) = posted[n + 1] /\ Head(mainQueue) \in Block
  BY <1>1, <1>2
<1>4. Ran = SubSeq(posted, 1, n) /\ Ran' = SubSeq(posted, 1, n + 1)
  BY <1>1, <1>2 DEF Ran
<1> HIDE DEF n
<1>5. SubSeq(posted, 1, n + 1) = Append(SubSeq(posted, 1, n), posted[n + 1])
  <2>1. Len(posted) \in Nat /\ n \in Nat /\ n + 1 <= Len(posted)
    BY <1>1, <1>2
  <2> QED
    BY <1>1, <2>1
<1> QED
  BY <1>3, <1>4, <1>5

(* What is over stays as it is: neither the stage of a fetch that has      *)
(* called back nor what it brought changes.                                *)
LEMMA OverStays ==
    ASSUME ServiceInv, [ServiceNext]_serviceVars, NEW r \in Requests,
           request[r] \in {"delivered", "failed"}
    PROVE  request'[r] = request[r] /\ version'[r] = version[r]
<1>1. request \in [Requests -> Stages] /\ version \in [Requests -> Versions]
  BY DEF ServiceInv, ServiceTypeOK
<1>2. CASE TakeBlock
  <2>1. mainQueue # << >> /\ mainQueue \in Seq(Block)
    BY <1>2 DEF TakeBlock, ServiceInv, ServiceTypeOK
  <2>2. Head(mainQueue) = mainQueue[1] /\ 1 \in DOMAIN mainQueue /\ mainQueue[1] \in Block
    BY <2>1
  <2>3. request[mainQueue[1].request] = "answered" /\ mainQueue[1].request \in Requests
    BY <2>2 DEF ServiceInv, OneCallbackPerFetch, Block
  <2>4. mainQueue[1].request # r
    BY <2>3
  <2> QED
    BY <1>1, <1>2, <2>2, <2>3, <2>4 DEF TakeBlock
<1>3. CASE ServiceKilled
  BY <1>1, <1>3 DEF ServiceKilled
<1>4. ASSUME NEW q \in Requests, Send(q) \/ ServerReads(q) \/ TaskCompletes(q)
      PROVE  request'[r] = request[r] /\ version'[r] = version[r]
  BY <1>1, <1>4 DEF Send, ServerReads, TaskCompletes, ApiError, BadResponse, Decoded, Post
<1>5. CASE Publish \/ UNCHANGED serviceVars
  BY <1>5 DEF Publish, serviceVars
<1> QED
  BY <1>2, <1>3, <1>4, <1>5 DEF ServiceNext

(* A block that has run has ended its fetch.                               *)
RanAreOver == \A i \in DOMAIN Ran : request[Ran[i].request] \in {"delivered", "failed"}

LEMMA RanAreOverStep ==
    ASSUME TypeOK, ServiceInv, RanAreOver, [Next]_vars
    PROVE  RanAreOver'
<1>0. \A i \in DOMAIN Ran : /\ Ran[i].request \in Requests
                            /\ request'[Ran[i].request] = request[Ran[i].request]
  <2>1. TAKE i \in DOMAIN Ran
  <2>2. Ran[i].request \in Requests
    BY RanBlocks
  <2>3. request[Ran[i].request] \in {"delivered", "failed"}
    BY DEF RanAreOver
  <2> QED
    BY <2>2, <2>3, OverStays, StepIsServiceStep
<1>1. CASE RunBlock
  <2>1. /\ Ran' = Append(Ran, Head(mainQueue)) /\ Head(mainQueue) \in Block /\ Ran \in Seq(Block)
        /\ request' = [request EXCEPT ![Head(mainQueue).request] =
                          IF Head(mainQueue).outcome = "success" THEN "delivered" ELSE "failed"]
    BY <1>1, RanGrows, RanBlocks DEF RunBlock, TakeBlock
  <2> DEFINE block == Head(mainQueue)
  <2> HIDE DEF block
  <2>2. block.request \in Requests /\ request \in [Requests -> Stages]
    BY <2>1 DEF Block, block, ServiceInv, ServiceTypeOK
  <2>3. request'[block.request] \in {"delivered", "failed"}
    BY <2>1, <2>2 DEF block
  <2>4. /\ Ran' = Append(Ran, block) /\ block \in Block /\ Ran \in Seq(Block)
    BY <2>1 DEF block
  <2>5. \A i \in DOMAIN Ran' : (i \in DOMAIN Ran /\ Ran'[i] = Ran[i]) \/ Ran'[i] = block
    BY <2>4
  <2>6. \A i \in DOMAIN Ran : request'[Ran[i].request] \in {"delivered", "failed"}
    BY <1>0 DEF RanAreOver
  <2> QED
    BY <2>3, <2>5, <2>6 DEF RanAreOver
<1>2. CASE Kill
  <2>1. Ran' = << >>
    BY <1>2 DEF Kill, ServiceKilled, Ran
  <2> QED
    BY <2>1 DEF RanAreOver
<1>3. CASE ~RunBlock /\ ~Kill
  BY <1>0, <1>3, QuietOtherwise, RanStays DEF RanAreOver
<1> QED
  BY <1>1, <1>2, <1>3

(* A process that has not started has no task and has run nothing.         *)
NothingRuns ==
    ~running => /\ posted = << >>
                /\ \A r \in Requests : request[r] \notin {"sent", "read", "answered"}

LEMMA NothingRunsStep ==
    ASSUME ServiceInv, NothingRuns, [Next]_vars
    PROVE  NothingRuns'
<1>0. request \in [Requests -> Stages]
  BY DEF ServiceInv, ServiceTypeOK
<1>1. CASE Launch
  BY <1>1 DEF Launch, NothingRuns
<1>2. CASE Kill
  <2>1. posted' = << >> /\ \A r \in Requests : request'[r] \notin {"sent", "read", "answered"}
    BY <1>0, <1>2 DEF Kill, ServiceKilled
  <2> QED
    BY <2>1 DEF NothingRuns
<1>3. CASE \/ RefreshButtonTapped \/ TryAgainTapped \/ CloseAlertTapped \/ FilterButtonTapped
           \/ FilterSaved \/ FilterClosed \/ RunBlock \/ SaveStep
  <2>1. running /\ running' = running
    BY <1>3 DEF RefreshButtonTapped, TryAgainTapped, CloseAlertTapped, FilterButtonTapped, FilterSaved,
                FilterClosed, RunBlock, SaveStep, MainThreadIdle, listVars
  <2> QED
    BY <2>1 DEF NothingRuns
<1>4. CASE ConnectivityChanges \/ UNCHANGED vars
  BY <1>4 DEF ConnectivityChanges, vars, listVars, serviceVars, NothingRuns
<1>5. CASE Background
  <2>1. running' = running
    BY <1>5 DEF Background, listVars
  <2>2. CASE Publish
    BY <2>1, <2>2 DEF Publish, NothingRuns
  <2>3. ASSUME NEW r \in Requests, ServerReads(r) \/ TaskCompletes(r)
        PROVE  running
    <3>1. request[r] \in {"sent", "read", "answered"}
      BY <2>3 DEF ServerReads, TaskCompletes, ApiError, BadResponse, Decoded
    <3> QED
      BY <3>1 DEF NothingRuns
  <2> QED
    BY <1>5, <2>1, <2>2, <2>3 DEF Background, NothingRuns
<1> QED
  BY <1>1, <1>2, <1>3, <1>4, <1>5 DEF Next

----------------------------------------------------------------------------
(* The last response and the last error *)

(* What the interactor is expected to hold after the blocks in ran.        *)
LastBrought(ran, versions) ==
    LET ok == {i \in DOMAIN ran : ran[i].outcome = "success"}
    IN  IF ok = {} THEN << >> ELSE Catalogues[versions[ran[Max(ok)].request]]

LastError(ran) ==
    LET bad == {i \in DOMAIN ran : ran[i].outcome # "success"}
    IN  IF bad = {} THEN "none" ELSE ran[Max(bad)].outcome

LEMMA ReflectsMeans ==
    ASSUME ServiceInv
    PROVE  ReflectsAnswersRun <=> masterHeroes = LastBrought(Ran, version) /\ error = LastError(Ran)
<1> DEFINE ok == {i \in DOMAIN Ran : Ran[i].outcome = "success"}
           bad == {i \in DOMAIN Ran : Ran[i].outcome # "success"}
<1>1. DOMAIN Ran \ ok = bad
  OBVIOUS
<1> QED
  BY <1>1 DEF ReflectsAnswersRun, LastBrought, LastError

(* A success changes the last success only, a failure the last failure.    *)
LEMMA LastOfAppended ==
    ASSUME NEW ran \in Seq(Block), NEW block \in Block, NEW versions
    PROVE  /\ block.outcome = "success" =>
                 /\ LastBrought(Append(ran, block), versions) = Catalogues[versions[block.request]]
                 /\ LastError(Append(ran, block)) = LastError(ran)
           /\ block.outcome # "success" =>
                 /\ LastBrought(Append(ran, block), versions) = LastBrought(ran, versions)
                 /\ LastError(Append(ran, block)) = block.outcome
<1> DEFINE n == Len(ran)
           more == Append(ran, block)
           ok(r) == {i \in DOMAIN r : r[i].outcome = "success"}
           bad(r) == {i \in DOMAIN r : r[i].outcome # "success"}
<1>1. /\ n \in Nat /\ DOMAIN ran = 1 .. n /\ DOMAIN more = 1 .. n + 1
      /\ \A i \in 1 .. n : more[i] = ran[i]
      /\ more[n + 1] = block
  OBVIOUS
<1>2. ok(ran) \in SUBSET (1 .. n) /\ bad(ran) \in SUBSET (1 .. n)
  BY <1>1
<1>3. CASE block.outcome = "success"
  <2>1. ok(more) = ok(ran) \cup {n + 1} /\ bad(more) = bad(ran)
    BY <1>1, <1>3
  <2>2. Max(ok(more)) = n + 1 /\ ok(more) # {}
    BY <1>1, <1>2, <2>1, MaxOfNext
  <2>3. bad(ran) # {} => more[Max(bad(ran))] = ran[Max(bad(ran))]
    BY <1>1, <1>2, MaxNumber
  <2>4. LastBrought(more, versions) = Catalogues[versions[block.request]]
    BY <1>1, <2>2 DEF LastBrought
  <2>5. LastError(more) = LastError(ran)
    BY <2>1, <2>3 DEF LastError
  <2> QED
    BY <1>3, <2>4, <2>5
<1>4. CASE block.outcome # "success"
  <2>1. bad(more) = bad(ran) \cup {n + 1} /\ ok(more) = ok(ran)
    BY <1>1, <1>4
  <2>2. Max(bad(more)) = n + 1 /\ bad(more) # {}
    BY <1>1, <1>2, <2>1, MaxOfNext
  <2>3. ok(ran) # {} => more[Max(ok(ran))] = ran[Max(ok(ran))]
    BY <1>1, <1>2, MaxNumber
  <2>4. LastError(more) = block.outcome
    BY <1>1, <2>2 DEF LastError
  <2>5. LastBrought(more, versions) = LastBrought(ran, versions)
    BY <2>1, <2>3 DEF LastBrought
  <2> QED
    BY <1>4, <2>4, <2>5
<1> QED
  BY <1>3, <1>4

LEMMA NothingBrought ==
    ASSUME NEW versions
    PROVE  LastBrought(<< >>, versions) = << >> /\ LastError(<< >>) = "none"
  BY DEF LastBrought, LastError

(* What the blocks that ran brought does not change afterwards.            *)
LEMMA BroughtStays ==
    ASSUME ServiceInv, RanAreOver, [Next]_vars
    PROVE  LastBrought(Ran, version') = LastBrought(Ran, version)
<1> DEFINE ok == {i \in DOMAIN Ran : Ran[i].outcome = "success"}
<1>1. CASE ok = {}
  BY <1>1 DEF LastBrought
<1>2. CASE ok # {}
  <2>1. ok \in SUBSET (1 .. Len(posted) - Len(mainQueue)) /\ Len(posted) - Len(mainQueue) \in Nat
    BY RanBlocks
  <2>2. Max(ok) \in DOMAIN Ran
    BY <1>2, <2>1, MaxNumber
  <2> HIDE DEF ok
  <2>3. Ran[Max(ok)].request \in Requests /\ request[Ran[Max(ok)].request] \in {"delivered", "failed"}
    BY <2>2, RanBlocks DEF RanAreOver
  <2>4. version'[Ran[Max(ok)].request] = version[Ran[Max(ok)].request]
    BY <2>3, OverStays, StepIsServiceStep
  <2> QED
    BY <1>2, <2>4 DEF LastBrought, ok
<1> QED
  BY <1>1, <1>2

LEMMA ReflectsStep ==
    ASSUME ServiceInv, ServiceInv', RanAreOver, NothingRuns, ReflectsAnswersRun, [Next]_vars
    PROVE  ReflectsAnswersRun'
<1>0. masterHeroes = LastBrought(Ran, version') /\ error = LastError(Ran)
  BY ReflectsMeans, BroughtStays
<1>1. SUFFICES masterHeroes' = LastBrought(Ran', version') /\ error' = LastError(Ran')
  <2> DEFINE ok == {i \in DOMAIN Ran : Ran[i].outcome = "success"}
             bad == {i \in DOMAIN Ran : Ran[i].outcome # "success"}
  <2>1. (DOMAIN Ran \ ok)' = bad'
    OBVIOUS
  <2> QED
    BY <2>1 DEF ReflectsAnswersRun, LastBrought, LastError
<1>2. CASE RunBlock
  <2> DEFINE block == Head(mainQueue)
  <2>1. Ran' = Append(Ran, block) /\ block \in Block /\ Ran \in Seq(Block)
    BY <1>2, RanGrows, RanBlocks DEF RunBlock
  <2>2. version' = version
    BY <1>2 DEF RunBlock, TakeBlock
  <2>3. CASE block.outcome = "success"
    <3>1. masterHeroes' = Catalogues[version[block.request]] /\ error' = error
      BY <1>2, <2>3 DEF RunBlock, HandleResponse
    <3> HIDE DEF block
    <3> QED
      BY <1>0, <2>1, <2>2, <2>3, <3>1, LastOfAppended
  <2>4. CASE block.outcome # "success"
    <3>1. masterHeroes' = masterHeroes /\ error' = block.outcome
      BY <1>2, <2>4 DEF RunBlock, HandleError
    <3> HIDE DEF block
    <3> QED
      BY <1>0, <2>1, <2>2, <2>4, <3>1, LastOfAppended
  <2> QED
    BY <2>3, <2>4
<1>3. CASE Launch \/ Kill
  <2>1. masterHeroes' = << >> /\ error' = "none"
    BY <1>3 DEF Launch, Kill, FreshInteractor
  <2>2. Ran' = << >>
    <3>1. CASE Kill
      BY <3>1 DEF Kill, ServiceKilled, Ran
    <3>2. CASE Launch /\ ~Kill
      <4>1. posted = << >>
        BY <3>2 DEF Launch, NothingRuns
      <4>2. Ran = << >>
        BY <4>1, RanBlocks
      <4>3. ~RunBlock
        BY <3>2 DEF Launch, RunBlock, MainThreadIdle
      <4> QED
        BY <3>2, <4>2, <4>3, QuietOtherwise, RanStays
    <3> QED
      BY <1>3, <3>1, <3>2
  <2> QED
    BY <2>1, <2>2, NothingBrought
<1>4. CASE \/ RefreshButtonTapped \/ TryAgainTapped \/ CloseAlertTapped \/ FilterButtonTapped
           \/ FilterSaved \/ FilterClosed \/ SaveStep \/ ConnectivityChanges \/ Background \/ UNCHANGED vars
  <2>1. masterHeroes' = masterHeroes /\ error' = error
    BY <1>4 DEF RefreshButtonTapped, TryAgainTapped, CloseAlertTapped, FilterButtonTapped, FilterSaved, FilterHeroes,
                FilterClosed, SaveStep, ConnectivityChanges, Background, vars, listVars, interactorVars
  <2>2. CASE RunBlock \/ Kill
    BY <1>2, <1>3, <2>2
  <2>3. CASE ~RunBlock /\ ~Kill
    BY <1>0, <2>1, <2>3, QuietOtherwise, RanStays
  <2> QED
    BY <2>2, <2>3
<1> QED
  BY <1>2, <1>3, <1>4 DEF Next

----------------------------------------------------------------------------
(* The rows and the responses *)

(* The places of a hero in a sequence; Copies counts them.                 *)
PlacesOf(s, h) == {i \in DOMAIN s : s[i] = h}

LEMMA PlacesFinite ==
    ASSUME NEW S, NEW s \in Seq(S), NEW h
    PROVE  IsFiniteSet(PlacesOf(s, h)) /\ Copies(s, h) = Cardinality(PlacesOf(s, h)) /\ Copies(s, h) \in Nat
<1>1. Len(s) \in Nat /\ DOMAIN s = 1 .. Len(s)
  OBVIOUS
<1>2. IsFiniteSet(1 .. Len(s))
  BY <1>1, FS_Interval
<1>3. PlacesOf(s, h) \in SUBSET (1 .. Len(s))
  BY <1>1 DEF PlacesOf
<1>4. IsFiniteSet(PlacesOf(s, h))
  BY <1>2, <1>3, FS_Subset
<1> QED
  BY <1>4, FS_CardinalityType DEF Copies, PlacesOf

LEMMA NoCopies ==
    ASSUME NEW h
    PROVE  Copies(<< >>, h) = 0
<1>1. PlacesOf(<< >>, h) = {}
  BY DEF PlacesOf
<1> QED
  BY <1>1, FS_EmptySet DEF Copies, PlacesOf

LEMMA CopiesAppended ==
    ASSUME NEW S, NEW s \in Seq(S), NEW x \in S, NEW h
    PROVE  Copies(Append(s, x), h) = Copies(s, h) + IF x = h THEN 1 ELSE 0
<1> DEFINE n == Len(s)
           more == Append(s, x)
<1>1. /\ n \in Nat /\ DOMAIN s = 1 .. n /\ DOMAIN more = 1 .. n + 1 /\ more \in Seq(S)
      /\ \A i \in 1 .. n : more[i] = s[i]
      /\ more[n + 1] = x /\ n + 1 \notin 1 .. n
  OBVIOUS
<1>2. /\ IsFiniteSet(PlacesOf(s, h)) /\ Copies(s, h) = Cardinality(PlacesOf(s, h)) /\ Copies(s, h) \in Nat
      /\ Copies(more, h) = Cardinality(PlacesOf(more, h))
  BY <1>1, PlacesFinite
<1>3. CASE x = h
  <2>1. PlacesOf(more, h) = PlacesOf(s, h) \cup {n + 1} /\ n + 1 \notin PlacesOf(s, h)
    BY <1>1, <1>3 DEF PlacesOf
  <2> QED
    BY <1>2, <1>3, <2>1, FS_AddElement
<1>4. CASE x # h
  <2>1. PlacesOf(more, h) = PlacesOf(s, h)
    BY <1>1, <1>4 DEF PlacesOf
  <2> QED
    BY <1>2, <1>4, <2>1
<1> QED
  BY <1>3, <1>4

LEMMA CopiesOfTail ==
    ASSUME NEW S, NEW s \in Seq(S), s # << >>, NEW h
    PROVE  Copies(s, h) = Copies(Tail(s), h) + IF Head(s) = h THEN 1 ELSE 0
<1> DEFINE n == Len(s)
           t == Tail(s)
           P == PlacesOf(s, h) \ {1}
           Q == PlacesOf(t, h)
           up == [i \in Q |-> i + 1]
<1>1. /\ n \in Nat /\ n > 0 /\ DOMAIN s = 1 .. n /\ DOMAIN t = 1 .. n - 1 /\ t \in Seq(S)
      /\ \A i \in 1 .. n - 1 : t[i] = s[i + 1]
      /\ Head(s) = s[1]
  OBVIOUS
<1>2. \A i \in 1 .. n : i # 1 => i - 1 \in 1 .. n - 1 /\ (i - 1) + 1 = i
  BY <1>1
<1>3. \A i \in Q : i \in 1 .. n - 1 /\ i + 1 \in P /\ (i + 1) - 1 = i
  BY <1>1 DEF PlacesOf
<1>4. \A i \in P : i - 1 \in Q /\ (i - 1) + 1 = i
  BY <1>1, <1>2 DEF PlacesOf
<1>5. /\ IsFiniteSet(PlacesOf(s, h)) /\ Copies(s, h) = Cardinality(PlacesOf(s, h)) /\ Copies(s, h) \in Nat
      /\ IsFiniteSet(Q) /\ Copies(t, h) = Cardinality(Q) /\ Copies(t, h) \in Nat
  BY <1>1, PlacesFinite
<1>6. ExistsBijection(Q, P)
  <2>1. up \in [Q -> P] /\ \A i \in Q : up[i] = i + 1
    BY <1>3
  <2>2. \A i, j \in Q : up[i] = up[j] => i = j
    BY <1>3, <2>1
  <2>3. \A j \in P : \E i \in Q : up[i] = j
    BY <1>4, <2>1
  <2> HIDE DEF P, Q, up
  <2> QED
    BY <2>1, <2>2, <2>3 DEF ExistsBijection, Bijection, Injection, Surjection, IsInjective
<1>7. Cardinality(P) = Cardinality(Q)
  BY <1>5, <1>6, FS_Bijection
<1>8. 1 \in PlacesOf(s, h) <=> Head(s) = h
  BY <1>1 DEF PlacesOf
<1>9. Cardinality(P) = IF 1 \in PlacesOf(s, h) THEN Copies(s, h) - 1 ELSE Copies(s, h)
  BY <1>5, FS_RemoveElement
<1> HIDE DEF P, Q
<1> QED
  BY <1>5, <1>7, <1>8, <1>9

(* The places in the delivered responses that hold the hero.               *)
Served == {r \in Requests : request[r] = "delivered"}
HeldPlaces(h) == UNION {{r} \X PlacesOf(Catalogues[version[r]], h) : r \in Served}

(* Every copy of a hero, written or about to be, has a place of its own in *)
(* a delivered response.                                                   *)
RowsComeFromResponses ==
    \A h \in Heroes :
        /\ IsFiniteSet(HeldPlaces(h))
        /\ Copies(store, h) + Copies(saving, h) <= Cardinality(HeldPlaces(h))

(* A step that delivers nothing.                                           *)
LEMMA ServedStays ==
    ASSUME ServiceInv, QuietStep \/ ServiceKilled \/ (TakeBlock /\ Head(mainQueue).outcome # "success")
    PROVE  Served' = Served /\ \A r \in Served : version'[r] = version[r]
<1>0. request \in [Requests -> Stages] /\ version \in [Requests -> Versions]
  BY DEF ServiceInv, ServiceTypeOK
<1>1. [ServiceNext]_serviceVars
  BY DEF QuietStep, ServiceNext
<1>2. \A r \in Served : r \in Requests /\ request'[r] = "delivered" /\ version'[r] = version[r]
  BY <1>1, OverStays DEF Served
<1>3. ASSUME NEW r \in Requests, request'[r] = "delivered"
      PROVE  request[r] = "delivered"
  <2>1. CASE QuietStep
    <3>1. ASSUME NEW q \in Requests, Send(q) \/ ServerReads(q) \/ TaskCompletes(q)
          PROVE  request[r] = "delivered"
      BY <1>0, <1>3, <3>1 DEF Send, ServerReads, TaskCompletes, ApiError, BadResponse, Decoded, Post
    <3> QED
      BY <1>3, <2>1, <3>1 DEF QuietStep, Publish, serviceVars
  <2>2. CASE ServiceKilled
    BY <1>0, <1>3, <2>2 DEF ServiceKilled
  <2>3. CASE TakeBlock /\ Head(mainQueue).outcome # "success"
    BY <1>0, <1>3, <2>3 DEF TakeBlock
  <2> QED
    BY <2>1, <2>2, <2>3
<1> QED
  BY <1>2, <1>3 DEF Served

LEMMA HeldStays ==
    ASSUME Served' = Served, \A r \in Served : version'[r] = version[r], NEW h
    PROVE  HeldPlaces(h)' = HeldPlaces(h)
  BY DEF HeldPlaces

(* A delivered response adds the places that hold the hero in it.          *)
LEMMA HeldGrows ==
    ASSUME TypeOK, ServiceInv, TakeBlock, Head(mainQueue).outcome = "success", NEW h \in Heroes,
           IsFiniteSet(HeldPlaces(h))
    PROVE  LET response == Catalogues[version[Head(mainQueue).request]]
           IN  /\ response \in Seq(Heroes)
               /\ IsFiniteSet(HeldPlaces(h)')
               /\ Cardinality(HeldPlaces(h)') = Cardinality(HeldPlaces(h)) + Copies(response, h)
<1> DEFINE r0 == Head(mainQueue).request
           response == Catalogues[version[r0]]
           new == {r0} \X PlacesOf(response, h)
<1>0. request \in [Requests -> Stages] /\ version \in [Requests -> Versions]
  BY DEF ServiceInv, ServiceTypeOK
<1>1. r0 \in Requests /\ request[r0] = "answered"
  <2>1. mainQueue # << >> /\ mainQueue \in Seq(Block)
    BY DEF TakeBlock, ServiceInv, ServiceTypeOK
  <2>2. Head(mainQueue) = mainQueue[1] /\ 1 \in DOMAIN mainQueue /\ mainQueue[1] \in Block
    BY <2>1
  <2> QED
    BY <2>2 DEF ServiceInv, OneCallbackPerFetch, Block
<1>2. response \in Seq(Heroes)
  BY <1>0, <1>1, CataloguesAssumption
<1>3. request' = [request EXCEPT ![r0] = "delivered"] /\ version' = version
  BY DEF TakeBlock
<1> HIDE DEF r0
<1>4. Served' = Served \cup {r0} /\ r0 \notin Served
  BY <1>0, <1>1, <1>3 DEF Served
<1>5. HeldPlaces(h)' = HeldPlaces(h) \cup new
  BY <1>3, <1>4 DEF HeldPlaces
<1>6. HeldPlaces(h) \cap new = {}
  BY <1>4 DEF HeldPlaces
<1>7. IsFiniteSet(PlacesOf(response, h)) /\ Cardinality(PlacesOf(response, h)) = Copies(response, h)
      /\ Copies(response, h) \in Nat
  BY <1>2, PlacesFinite
<1>8. IsFiniteSet({r0}) /\ Cardinality({r0}) = 1
  BY FS_Singleton
<1>9. IsFiniteSet(new) /\ Cardinality(new) = 1 * Copies(response, h)
  BY <1>7, <1>8, FS_Product
<1> HIDE DEF new, response
<1>10. /\ IsFiniteSet(HeldPlaces(h) \cup new)
       /\ Cardinality(HeldPlaces(h) \cup new) = Cardinality(HeldPlaces(h)) + Cardinality(new) - Cardinality({})
  BY <1>6, <1>9, FS_Union
<1>11. Cardinality({}) = 0 /\ Cardinality(HeldPlaces(h)) \in Nat
  BY FS_EmptySet, FS_CardinalityType
<1>12. Cardinality(HeldPlaces(h) \cup new) = Cardinality(HeldPlaces(h)) + Copies(response, h)
  BY <1>7, <1>9, <1>10, <1>11
<1> QED
  BY <1>2, <1>5, <1>10, <1>12 DEF response, r0

LEMMA RowsStepFromResponses ==
    ASSUME TypeOK, TypeOK', ServiceInv, RowsComeFromResponses, [Next]_vars
    PROVE  RowsComeFromResponses'
<1> SUFFICES ASSUME NEW h \in Heroes
             PROVE  /\ IsFiniteSet(HeldPlaces(h)')
                    /\ Copies(store', h) + Copies(saving', h) <= Cardinality(HeldPlaces(h)')
  BY DEF RowsComeFromResponses, Copies
<1>0. /\ store \in Seq(Heroes) /\ saving \in Seq(Heroes)
      /\ Copies(store, h) \in Nat /\ Copies(saving, h) \in Nat /\ Copies(<< >>, h) = 0
  BY PlacesFinite, NoCopies DEF TypeOK
<1>1. /\ IsFiniteSet(HeldPlaces(h))
      /\ Copies(store, h) + Copies(saving, h) <= Cardinality(HeldPlaces(h))
      /\ Cardinality(HeldPlaces(h)) \in Nat
  BY FS_CardinalityType DEF RowsComeFromResponses
<1>2. ASSUME Served' = Served, \A r \in Served : version'[r] = version[r]
      PROVE  HeldPlaces(h)' = HeldPlaces(h)
  BY <1>2, HeldStays
<1>3. CASE RunBlock
  <2>1. TakeBlock /\ saving = << >>
    BY <1>3 DEF RunBlock, MainThreadIdle
  <2>2. CASE Head(mainQueue).outcome = "success"
    <3> DEFINE response == Catalogues[version[Head(mainQueue).request]]
    <3>1. store' = store /\ saving' = response
      BY <1>3, <2>2 DEF RunBlock, HandleResponse, SaveHeroes
    <3>2. /\ response \in Seq(Heroes) /\ IsFiniteSet(HeldPlaces(h)')
          /\ Cardinality(HeldPlaces(h)') = Cardinality(HeldPlaces(h)) + Copies(response, h)
      BY <1>1, <2>1, <2>2, HeldGrows
    <3> HIDE DEF response
    <3>3. Copies(response, h) \in Nat
      BY <3>2, PlacesFinite
    <3> QED
      BY <1>0, <1>1, <2>1, <3>1, <3>2, <3>3
  <2>3. CASE Head(mainQueue).outcome # "success"
    <3>1. store' = store /\ saving' = saving
      BY <1>3, <2>3 DEF RunBlock, HandleError, realmVars
    <3>2. HeldPlaces(h)' = HeldPlaces(h)
      BY <1>2, <2>1, <2>3, ServedStays
    <3> QED
      BY <1>1, <3>1, <3>2
  <2> QED
    BY <2>2, <2>3
<1>4. CASE Kill
  <2>1. store' = store /\ saving' = << >>
    BY <1>4 DEF Kill, RealmKilled
  <2>2. HeldPlaces(h)' = HeldPlaces(h)
    BY <1>2, <1>4, ServedStays DEF Kill
  <2> QED
    BY <1>0, <1>1, <2>1, <2>2
<1>5. CASE ~RunBlock /\ ~Kill
  <2>1. HeldPlaces(h)' = HeldPlaces(h)
    BY <1>2, <1>5, QuietOtherwise, ServedStays
  <2>2. Copies(store', h) + Copies(saving', h) <= Copies(store, h) + Copies(saving, h)
    <3>1. CASE SaveStep /\ WriteRow
      <4>1. saving # << >> /\ store' = Append(store, Head(saving)) /\ saving' = Tail(saving)
        BY <3>1 DEF WriteRow
      <4>2. Head(saving) \in Heroes /\ Tail(saving) \in Seq(Heroes)
        BY <1>0, <4>1
      <4>3. Copies(Append(store, Head(saving)), h) = Copies(store, h) + IF Head(saving) = h THEN 1 ELSE 0
        BY <1>0, <4>2, CopiesAppended
      <4>4. Copies(saving, h) = Copies(Tail(saving), h) + IF Head(saving) = h THEN 1 ELSE 0
        BY <1>0, <4>1, CopiesOfTail
      <4>5. Copies(Tail(saving), h) \in Nat
        BY <4>2, PlacesFinite
      <4> QED
        BY <1>0, <4>1, <4>3, <4>4, <4>5
    <3>2. CASE SaveStep /\ SaveFails
      BY <1>0, <3>2 DEF SaveFails
    <3>3. CASE ~SaveStep
      <4>1. UNCHANGED << store, saving >>
        BY <1>5, <3>3 DEF Next, Launch, RefreshButtonTapped, TryAgainTapped, CloseAlertTapped, FilterButtonTapped,
           FilterSaved, FilterClosed, ConnectivityChanges, Background, vars, realmVars
      <4> QED
        BY <1>0, <4>1
    <3> QED
      BY <3>1, <3>2, <3>3 DEF SaveStep
  <2>3. Copies(store', h) \in Nat /\ Copies(saving', h) \in Nat
    <3>1. store' \in Seq(Heroes) /\ saving' \in Seq(Heroes)
      BY DEF TypeOK
    <3> QED
      BY ONLY <3>1, PlacesFinite
  <2> QED
    BY ONLY <1>0, <1>1, <2>1, <2>2, <2>3
<1> QED
  BY <1>3, <1>4, <1>5

----------------------------------------------------------------------------
(* The inductive invariant.  Type correctness needs the service's own      *)
(* invariant, because RunBlock looks up the block at the head of the       *)
(* queue; HeroesKept needs NothingDroppedYet; ReflectsAnswersRun needs     *)
(* that what a fetch brought is settled once its block has run             *)
(* (RanAreOver) and that a launch starts from nothing (NothingRuns);       *)
(* RowsComeFromResponses counts the rows still to be written too;          *)
(* OffersOpenedOn, ActiveIsSelection and NoneShownBeforeLaunch are what    *)
(* ReopenedFilterIsActive and GridBlanks need of the state.                *)
ListInv ==
    /\ TypeOK /\ ServiceInv
    /\ NothingDroppedYet /\ HeroesKept
    /\ ShownMatchesFilter /\ OffersOpenedOn /\ ActiveIsSelection
    /\ NoneShownBeforeLaunch
    /\ RanAreOver /\ NothingRuns /\ ReflectsAnswersRun
    /\ RowsComeFromResponses

LEMMA ListInitInv == Init => ListInv
<1> SUFFICES ASSUME Init
             PROVE  ListInv
  OBVIOUS
<1>1. ServiceInv
  BY ServiceInitInv DEF Init
<1>2. << >> \in Seq(Heroes) /\ << >> \in Seq(RoleFilter) /\ ToSet(<< >>) = {}
  BY DEF ToSet
<1>3. history \in [shownBy : Fillers, openedOn : Seq(Heroes)] /\ history.shownBy # "filter"
  BY <1>2 DEF Init, Fillers
<1>4. /\ obsHeroes \in Seq(Heroes) /\ masterHeroes \in Seq(Heroes)
      /\ store \in Seq(Heroes) /\ saving \in Seq(Heroes) /\ dropped \in Seq(Heroes)
      /\ obsActiveFilters \in Seq(RoleFilter) /\ offered \in Seq(RoleFilter)
  BY <1>2 DEF Init, RealmInit
<1>5. /\ running \in BOOLEAN /\ connected \in BOOLEAN /\ isFetching \in BOOLEAN
      /\ error \in HeroErrors \cup {"none"} /\ modal \in Modals
  BY DEF Init, Modals
<1>6. TypeOK
  BY <1>1, <1>3, <1>4, <1>5 DEF TypeOK, ServiceInv
<1>7. HeroesKept /\ NothingDroppedYet
  BY <1>2 DEF Init, RealmInit, HeroesKept, NothingDroppedYet
<1>8. ShownMatchesFilter
  BY <1>3 DEF ShownMatchesFilter
<1>9. OffersOpenedOn /\ ActiveIsSelection /\ NoneShownBeforeLaunch
  BY NothingIsSelection DEF Init, OffersOpenedOn, ActiveIsSelection, NoneShownBeforeLaunch
<1>10. RanAreOver /\ NothingRuns /\ ReflectsAnswersRun
  <2>1. posted = << >> /\ mainQueue = << >> /\ Ran = << >>
        /\ \A r \in Requests : request[r] \notin {"sent", "read", "answered"}
    BY DEF Init, ServiceInit, Ran
  <2>2. masterHeroes = LastBrought(Ran, version) /\ error = LastError(Ran)
    BY <2>1, NothingBrought DEF Init
  <2> QED
    BY <1>1, <2>1, <2>2, ReflectsMeans DEF RanAreOver, NothingRuns
<1>11. RowsComeFromResponses
  <2> SUFFICES ASSUME NEW h \in Heroes
               PROVE  IsFiniteSet(HeldPlaces(h)) /\ Copies(store, h) + Copies(saving, h) <= Cardinality(HeldPlaces(h))
    BY DEF RowsComeFromResponses
  <2>1. HeldPlaces(h) = {}
    BY DEF Init, ServiceInit, HeldPlaces, Served
  <2>2. Copies(store, h) = 0 /\ Copies(saving, h) = 0
    BY NoCopies DEF Init, RealmInit
  <2> QED
    BY <2>1, <2>2, FS_EmptySet
<1> QED
  BY <1>1, <1>6, <1>7, <1>8, <1>9, <1>10, <1>11 DEF ListInv

LEMMA ListNextInv ==
    ASSUME ListInv, [Next]_vars
    PROVE  ListInv'
<1>1. ServiceInv'
  BY StepIsServiceStep, ServiceNextInv DEF ListInv
<1>2. TypeOK'
  BY <1>1, TypeStep DEF ListInv, ServiceInv
<1>3. HeroesKept' /\ NothingDroppedYet' /\ ShownMatchesFilter'
  BY <1>2, HeroesKeptStep, NothingDroppedYetStep, ShownMatchesFilterStep DEF ListInv
<1>4. OffersOpenedOn' /\ ActiveIsSelection' /\ NoneShownBeforeLaunch'
  BY OffersOpenedOnStep, ActiveIsSelectionStep, NoneShownStep DEF ListInv
<1>5. RanAreOver' /\ NothingRuns' /\ ReflectsAnswersRun'
  BY <1>1, RanAreOverStep, NothingRunsStep, ReflectsStep DEF ListInv
<1>6. RowsComeFromResponses'
  BY <1>2, RowsStepFromResponses DEF ListInv
<1> QED
  BY <1>1, <1>2, <1>3, <1>4, <1>5, <1>6 DEF ListInv

LEMMA ListInvariant == Spec => []ListInv
  BY ListInitInv, ListNextInv, PTL DEF Spec

(* The state of the screen, the store and the requests keeps its types.    *)
THEOREM ListTypeCorrect == Spec => []TypeOK
<1>1. ListInv => TypeOK
  BY DEF ListInv
<1> QED
  BY <1>1, ListInvariant, PTL

(* No hero is ever shown, or filtered, that was not handed to Realm: it    *)
(* was written, is being written, or was given up by a save that failed.   *)
THEOREM ShownHeroesAreKept == Spec => []HeroesKept
<1>1. ListInv => HeroesKept
  BY DEF ListInv
<1> QED
  BY <1>1, ListInvariant, PTL

(* A grid last filled by a filter is the selection of the active filters   *)
(* over the last response.                                                 *)
THEOREM FilteredGridMatches == Spec => []ShownMatchesFilter
<1>1. ListInv => ShownMatchesFilter
  BY DEF ListInv
<1> QED
  BY <1>1, ListInvariant, PTL

(* A filter screen opened on active filters whose roles are all offered    *)
(* hands them back as they were when nobody touches it, even if another    *)
(* response is delivered while it is open.                                 *)
THEOREM ReopenedFilterIsActive == Spec => []ReopenedFilterShowsActive
<1>1. ListInv => ReopenedFilterShowsActive
  <2> SUFFICES ASSUME ListInv, modal = "filter", obsActiveFilters # << >>,
                      ToSet(Names(obsActiveFilters)) \subseteq ToSet(Names(offered))
               PROVE  SelectedFilters(offered) = obsActiveFilters
    BY DEF ReopenedFilterShowsActive
  <2>1. offered = GetRoles(history.openedOn, obsActiveFilters)
    BY DEF ListInv, OffersOpenedOn
  <2>2. ToSet(Names(obsActiveFilters)) \subseteq ToSet(OfferedNames(history.openedOn))
    BY <2>1, GetRolesElements
  <2>3. obsActiveFilters \in Seq(RoleFilter) /\ IsSelection(obsActiveFilters)
    BY DEF ListInv, TypeOK, ActiveIsSelection
  <2> QED
    BY <2>1, <2>2, <2>3, SelectionGivenBack
<1> QED
  BY <1>1, ListInvariant, PTL

(* Whatever order the fetches call back in, and however the user reloads   *)
(* or filters meanwhile: the interactor holds the response of the last     *)
(* fetch of this process that succeeded and the error of the last that     *)
(* failed.                                                                 *)
THEOREM AnswersReflected == Spec => []ReflectsAnswersRun
<1>1. ListInv => ReflectsAnswersRun
  BY DEF ListInv
<1> QED
  BY <1>1, ListInvariant, PTL

(* No row is written twice for one place of a delivered response, through  *)
(* failed saves and kills in the middle of one.                            *)
THEOREM RowsBounded == Spec => []RowsBoundedByResponses
<1>1. ListInv => RowsBoundedByResponses
  <2> SUFFICES ASSUME ListInv, NEW h \in ToSet(store)
               PROVE  Copies(store, h) <= Delivered(h)
    BY DEF RowsBoundedByResponses
  <2>1. store \in Seq(Heroes) /\ saving \in Seq(Heroes) /\ h \in Heroes
    BY DEF ListInv, TypeOK, ToSet
  <2>2. Delivered(h) = Cardinality(HeldPlaces(h))
    BY DEF Delivered, HeldPlaces, Served, PlacesOf
  <2>3. /\ Copies(store, h) + Copies(saving, h) <= Cardinality(HeldPlaces(h))
        /\ Cardinality(HeldPlaces(h)) \in Nat
    BY <2>1, FS_CardinalityType DEF ListInv, RowsComeFromResponses
  <2>4. Copies(store, h) \in Nat /\ Copies(saving, h) \in Nat
    BY <2>1, PlacesFinite
  <2> QED
    BY ONLY <2>2, <2>3, <2>4
<1> QED
  BY <1>1, ListInvariant, PTL

----------------------------------------------------------------------------
(* What a step may not do *)

LEMMA BlanksStep ==
    ASSUME ListInv, [Next]_vars, running', obsHeroes # << >>, obsHeroes' = << >>
    PROVE  \/ history'.shownBy = "response" /\ masterHeroes' = << >>
           \/ FilterSaved /\ (masterHeroes = << >> \/ history.openedOn # masterHeroes)
<1>0. history \in [shownBy : Fillers, openedOn : Seq(Heroes)]
  BY DEF ListInv, TypeOK
<1>1. ASSUME NEW by, NEW alertShows, FetchHeroes(obsHeroes, by, alertShows)
      PROVE  FALSE
  BY <1>1 DEF FetchHeroes, GetLocalHeroes
<1>2. CASE RefreshButtonTapped \/ TryAgainTapped
  BY <1>1, <1>2 DEF RefreshButtonTapped, TryAgainTapped
<1>3. CASE RunBlock
  <2>1. \/ \E response : HandleResponse(response)
        \/ \E outcome : HandleError(outcome)
    BY <1>3 DEF RunBlock
  <2>2. PICK response : HandleResponse(response)
    BY <2>1 DEF HandleError
  <2> QED
    BY <1>0, <2>2 DEF HandleResponse
<1>4. CASE FilterSaved
  <2>1. SUFFICES ASSUME masterHeroes # << >>, history.openedOn = masterHeroes
                 PROVE  FALSE
    BY <1>4
  <2>2. PICK filters \in LegalSelections(Names(offered)) : FilterHeroes(filters)
    BY <1>4 DEF FilterSaved
  <2>3. Names(offered) = OfferedNames(masterHeroes)
    BY <1>4, <2>1, GetRolesElements DEF FilterSaved, ListInv, OffersOpenedOn
  <2>4. filters # << >>
    BY <2>2, NamesTypes, LegalSelectionsElements DEF ListInv, TypeOK
  <2>5. FilterResult(masterHeroes, filters) # << >>
    BY <2>1, <2>2, <2>3, LegalSelectionFinds DEF ListInv, TypeOK
  <2> QED
    BY <2>2, <2>4, <2>5 DEF FilterHeroes
<1>5. CASE Launch
  <2>1. obsHeroes = << >>
    BY <1>5 DEF Launch, ListInv, NoneShownBeforeLaunch
  <2> QED
    BY <2>1
<1>6. CASE Kill
  BY <1>6 DEF Kill
<1>7. CASE \/ CloseAlertTapped \/ FilterButtonTapped \/ FilterClosed \/ SaveStep
           \/ ConnectivityChanges \/ Background \/ UNCHANGED vars
  BY <1>7 DEF CloseAlertTapped, FilterButtonTapped, FilterClosed, SaveStep, ConnectivityChanges,
              Background, vars, listVars, interactorVars
<1> QED
  BY <1>2, <1>3, <1>4, <1>5, <1>6, <1>7 DEF Next

(* The grid goes blank only through an empty response or a saved filter,   *)
(* and through a filter only if there was nothing to filter or another     *)
(* response came in while the filter screen was open: any selection of the *)
(* roles of the current response finds a hero.                             *)
THEOREM GridBlanks == Spec => GridBlanksOnlyByFilter
<1>1. ListInv /\ [Next]_vars =>
        [running' /\ obsHeroes # << >> /\ obsHeroes' = << >> =>
            \/ history'.shownBy = "response" /\ masterHeroes' = << >>
            \/ FilterSaved /\ (masterHeroes = << >> \/ history.openedOn # masterHeroes)]_vars
  BY BlanksStep
<1> QED
  BY <1>1, ListInvariant, PTL DEF Spec, GridBlanksOnlyByFilter

LEMMA AppendedPrefix ==
    ASSUME NEW rows \in Seq(Heroes), NEW h \in Heroes
    PROVE  IsPrefix(rows, Append(rows, h))
  BY DEF IsPrefix

LEMMA RowsStep ==
    ASSUME TypeOK, [Next]_vars
    PROVE  IsPrefix(store, store')
<1>1. store \in Seq(Heroes) /\ saving \in Seq(Heroes)
  BY DEF TypeOK
<1>2. CASE UNCHANGED store
  BY <1>1, <1>2 DEF IsPrefix
<1>3. CASE SaveStep
  <2>1. CASE WriteRow
    <3>1. saving # << >> /\ store' = Append(store, Head(saving))
      BY <2>1 DEF WriteRow
    <3>2. Head(saving) \in Heroes
      BY <1>1, <3>1
    <3> QED
      BY <1>1, <3>1, <3>2, AppendedPrefix
  <2>2. CASE SaveFails
    BY <1>2, <2>2 DEF SaveFails
  <2> QED
    BY <1>3, <2>1, <2>2 DEF SaveStep
<1>4. CASE RunBlock
  <2>1. \/ \E response : HandleResponse(response)
        \/ \E outcome : HandleError(outcome)
    BY <1>4 DEF RunBlock
  <2> QED
    BY <1>2, <2>1 DEF HandleResponse, HandleError, SaveHeroes, realmVars
<1>5. CASE \/ Launch \/ RefreshButtonTapped \/ TryAgainTapped \/ CloseAlertTapped
           \/ FilterButtonTapped \/ FilterSaved \/ FilterClosed \/ Kill
           \/ ConnectivityChanges \/ Background \/ UNCHANGED vars
  BY <1>2, <1>5 DEF Launch, RefreshButtonTapped, TryAgainTapped, CloseAlertTapped, FilterButtonTapped,
              FilterSaved, FilterClosed, Kill, RealmKilled, ConnectivityChanges, Background, vars, realmVars
<1> QED
  BY <1>3, <1>4, <1>5 DEF Next

(* No step, a kill included, loses or reorders a row once written.         *)
THEOREM RowsStay == Spec => RowsNeverLost
<1>1. TypeOK /\ [Next]_vars => [IsPrefix(store, store')]_vars
  BY RowsStep
<1> QED
  BY <1>1, ListTypeCorrect, PTL DEF Spec, RowsNeverLost
============================================================================
