------------------------ MODULE SimilarHeroes_proofs ------------------------
(***************************************************************************)
(* For every hero list, every hero tapped and whatever fills the grid in   *)
(* between: the detail screen shows the best similar heroes there are.     *)
(***************************************************************************)
EXTENDS SimilarHeroes, TLAPS, FiniteSetTheorems, WellFoundedInduction

----------------------------------------------------------------------------
(* What KeepAt returns: the elements at the places kept, in their order.   *)

Less == {p \in Nat \X Nat : p[1] < p[2]}

(* A non-empty set of naturals has a least element.                        *)
LEMMA LeastNumber ==
    ASSUME NEW T \in SUBSET Nat, T # {}
    PROVE  \E x \in T : \A y \in T : ~(y < x)
<1>1. IsWellFoundedOn(Less, Nat)
  BY NatLessThanWellFounded DEF OpToRel, Less
<1>2. \E x \in T : \A y \in T : ~(<< y, x >> \in Less)
  BY <1>1, WFMin, Zenon
<1> QED
  BY <1>2 DEF Less

(* A set that holds 0 and is closed under +1 up to n holds 0 .. n.         *)
LEMMA UpTo ==
    ASSUME NEW n \in Nat, NEW T, 0 \in T, \A k \in 0 .. n - 1 : k \in T => k + 1 \in T
    PROVE  0 .. n \subseteq T
<1>1. SUFFICES ASSUME 0 .. n \ T # {}
               PROVE  FALSE
  OBVIOUS
<1>2. PICK x \in 0 .. n \ T : \A y \in 0 .. n \ T : ~(y < x)
  <2> 0 .. n \ T \in SUBSET Nat
    OBVIOUS
  <2> QED
    BY <1>1, LeastNumber
<1>3. x # 0 /\ x - 1 \in 0 .. n - 1
  BY <1>2
<1>4. x - 1 \in T
  BY <1>2, <1>3
<1> QED
  BY <1>2, <1>3, <1>4

----------------------------------------------------------------------------
(* KeepAt *)

(* The function KeepAt folds with, on its own.                             *)
KeptStep(s, I, f, k) ==
    IF k = 0 THEN << >> ELSE IF k \in I THEN Append(f[k - 1], s[k]) ELSE f[k - 1]

Kept(s, I) == CHOOSE f : f = [k \in 0 .. Len(s) |-> KeptStep(s, I, f, k)]

(* The recursion of KeepAt has a solution on every prefix.                 *)
LEMMA KeptExists ==
    ASSUME NEW S, NEW s \in Seq(S), NEW I
    PROVE  \A n \in 0 .. Len(s) : \E f : f = [k \in 0 .. n |-> KeptStep(s, I, f, k)]
<1> DEFINE T == {n \in 0 .. Len(s) : \E f : f = [k \in 0 .. n |-> KeptStep(s, I, f, k)]}
<1>1. 0 \in T
  <2> DEFINE f == [k \in 0 .. 0 |-> << >>]
  <2>1. f = [k \in 0 .. 0 |-> KeptStep(s, I, f, k)]
    BY DEF KeptStep
  <2> QED
    BY <2>1
<1>2. ASSUME NEW n \in 0 .. Len(s) - 1, n \in T
      PROVE  n + 1 \in T
  <2>1. PICK f : f = [k \in 0 .. n |-> KeptStep(s, I, f, k)]
    BY <1>2
  <2> DEFINE g == [k \in 0 .. n + 1 |-> IF k = n + 1 THEN KeptStep(s, I, f, k) ELSE f[k]]
  <2>2. \A k \in 0 .. n + 1 : g[k] = KeptStep(s, I, g, k)
    <3>1. TAKE k \in 0 .. n + 1
    <3>2. CASE k = 0
      BY <2>1, <3>2 DEF KeptStep
    <3>3. CASE k # 0
      <4>1. k - 1 \in 0 .. n /\ g[k - 1] = f[k - 1]
        BY <3>3
      <4>2. KeptStep(s, I, g, k) = KeptStep(s, I, f, k)
        BY <3>3, <4>1 DEF KeptStep
      <4>3. g[k] = KeptStep(s, I, f, k)
        BY <2>1
      <4> QED
        BY <4>2, <4>3
    <3> QED
      BY <3>2, <3>3
  <2>3. g = [k \in 0 .. n + 1 |-> KeptStep(s, I, g, k)]
    BY <2>2
  <2>4. \E h : h = [k \in 0 .. n + 1 |-> KeptStep(s, I, h, k)]
    BY <2>3
  <2> QED
    BY <2>4
<1> HIDE DEF T
<1>3. 0 .. Len(s) \subseteq T
  BY <1>1, <1>2, UpTo
<1> QED
  BY <1>3 DEF T

LEMMA KeepAtKept ==
    ASSUME NEW S, NEW s \in Seq(S), NEW I
    PROVE  /\ KeepAt(s, I) = Kept(s, I)[Len(s)]
           /\ Kept(s, I) = [k \in 0 .. Len(s) |-> KeptStep(s, I, Kept(s, I), k)]
<1>1. Kept(s, I) = [k \in 0 .. Len(s) |-> KeptStep(s, I, Kept(s, I), k)]
  BY KeptExists DEF Kept
<1>2. KeepAt(s, I) = Kept(s, I)[Len(s)]
  BY DEF KeepAt, Kept, KeptStep
<1> QED
  BY <1>1, <1>2

(* KeepAt(s, I) lists the places of s that are in I, each once and in      *)
(* order.                                                                  *)
LEMMA KeepAtPlaces ==
    ASSUME NEW S, NEW s \in Seq(S), NEW I
    PROVE  /\ KeepAt(s, I) \in Seq(S)
           /\ \E p \in [DOMAIN KeepAt(s, I) -> I \cap DOMAIN s] :
                 /\ \A i \in DOMAIN KeepAt(s, I) : KeepAt(s, I)[i] = s[p[i]]
                 /\ \A i, j \in DOMAIN KeepAt(s, I) : i < j => p[i] < p[j]
                 /\ \A k \in I \cap DOMAIN s : \E i \in DOMAIN KeepAt(s, I) : p[i] = k
<1> DEFINE f == Kept(s, I)
           Places(n, p) ==
               /\ p \in [1 .. Len(f[n]) -> I \cap 1 .. n]
               /\ \A i \in 1 .. Len(f[n]) : f[n][i] = s[p[i]]
               /\ \A i, j \in 1 .. Len(f[n]) : i < j => p[i] < p[j]
               /\ \A k \in I \cap 1 .. n : \E i \in 1 .. Len(f[n]) : p[i] = k
           Right(n) == f[n] \in Seq(S) /\ \E p : Places(n, p)
           T == {n \in 0 .. Len(s) : Right(n)}
<1>0. /\ f[0] = << >>
      /\ \A n \in 0 .. Len(s) - 1 : f[n + 1] = IF n + 1 \in I THEN Append(f[n], s[n + 1]) ELSE f[n]
  <2>0. f = [k \in 0 .. Len(s) |-> KeptStep(s, I, f, k)]
    BY KeepAtKept
  <2> HIDE DEF f
  <2>1. \A k \in 0 .. Len(s) : f[k] = KeptStep(s, I, f, k)
    BY <2>0
  <2>2. f[0] = << >>
    <3>1. 0 \in 0 .. Len(s)
      OBVIOUS
    <3>2. f[0] = KeptStep(s, I, f, 0)
      BY <2>1, <3>1
    <3> QED
      BY <3>2 DEF KeptStep
  <2>3. ASSUME NEW n \in 0 .. Len(s) - 1
        PROVE  f[n + 1] = IF n + 1 \in I THEN Append(f[n], s[n + 1]) ELSE f[n]
    <3>1. n + 1 \in 0 .. Len(s) /\ n + 1 # 0 /\ (n + 1) - 1 = n
      OBVIOUS
    <3> QED
      BY <2>1, <3>1 DEF KeptStep
  <2> QED
    BY <2>2, <2>3
<1> HIDE DEF f
<1>1. 0 \in T
  <2>1. f[0] = << >> /\ f[0] \in Seq(S) /\ Len(f[0]) = 0
    BY <1>0
  <2>2. 0 \in 0 .. Len(s) /\ 1 .. 0 = {}
    OBVIOUS
  <2>3. Places(0, << >>)
    BY <2>1, <2>2
  <2> QED
    BY <2>1, <2>2, <2>3
<1>2. ASSUME NEW n \in 0 .. Len(s) - 1, Right(n)
      PROVE  Right(n + 1)
  <2> HIDE DEF T
  <2>1. CASE n + 1 \in I
    <3> DEFINE m == Len(f[n])
    <3>0. s[n + 1] \in S
      OBVIOUS
    <3>1. f[n + 1] = Append(f[n], s[n + 1])
      BY <1>0, <2>1
    <3>2. /\ f[n + 1] \in Seq(S) /\ m \in Nat /\ Len(f[n + 1]) = m + 1
          /\ \A i \in 1 .. m : f[n + 1][i] = f[n][i]
          /\ f[n + 1][m + 1] = s[n + 1]
      BY <1>2, <3>0, <3>1
    <3>3. PICK p : Places(n, p)
      BY <1>2
    <3>4. /\ p \in [1 .. m -> I \cap 1 .. n]
          /\ \A i \in 1 .. m : f[n][i] = s[p[i]]
          /\ \A i, j \in 1 .. m : i < j => p[i] < p[j]
          /\ \A k \in I \cap 1 .. n : \E i \in 1 .. m : p[i] = k
      BY <3>3
    <3> DEFINE q == [i \in 1 .. m + 1 |-> IF i = m + 1 THEN n + 1 ELSE p[i]]
    <3> HIDE DEF m, Places
    <3>5. \A i \in 1 .. m + 1 : i # m + 1 => i \in 1 .. m
      BY <3>2
    <3>6. /\ q[m + 1] = n + 1
          /\ \A i \in 1 .. m : q[i] = p[i] /\ p[i] \in I \cap 1 .. n
      BY <3>2, <3>4
    <3>7. q \in [1 .. m + 1 -> I \cap 1 .. n + 1]
      BY <2>1, <3>4, <3>5
    <3> HIDE DEF q
    <3>8. \A i \in 1 .. m + 1 : f[n + 1][i] = s[q[i]]
      BY <3>2, <3>4, <3>5, <3>6
    <3>9. ASSUME NEW i \in 1 .. m + 1, NEW j \in 1 .. m + 1, i < j
          PROVE  q[i] < q[j]
      <4>1. i \in 1 .. m
        BY <3>2, <3>9
      <4>2. CASE j = m + 1
        BY <3>6, <4>1, <4>2
      <4>3. CASE j # m + 1
        BY <3>4, <3>5, <3>6, <3>9, <4>1, <4>3
      <4> QED
        BY <4>2, <4>3
    <3>10. ASSUME NEW k \in I \cap 1 .. n + 1
           PROVE  \E i \in 1 .. m + 1 : q[i] = k
      <4>1. CASE k = n + 1
        BY <3>2, <3>6, <4>1
      <4>2. CASE k # n + 1
        <5>1. k \in I \cap 1 .. n
          BY <4>2
        <5>2. PICK i \in 1 .. m : p[i] = k
          BY <3>4, <5>1
        <5>3. i \in 1 .. m + 1
          BY <3>2
        <5> QED
          BY <3>6, <5>2, <5>3
      <4> QED
        BY <4>1, <4>2
    <3>11. Places(n + 1, q)
      BY <3>2, <3>7, <3>8, <3>9, <3>10 DEF Places
    <3> QED
      BY <3>2, <3>11
  <2>2. CASE n + 1 \notin I
    <3>1. f[n + 1] = f[n]
      BY <1>0, <2>2
    <3>2. I \cap 1 .. n + 1 = I \cap 1 .. n
      BY <2>2
    <3>3. PICK p : Places(n, p)
      BY <1>2
    <3>4. Places(n + 1, p)
      BY <3>1, <3>2, <3>3
    <3> QED
      BY <1>2, <3>1, <3>4
  <2> QED
    BY <2>1, <2>2
<1>3. \A n \in 0 .. Len(s) - 1 : n \in T => n + 1 \in T
  <2> HIDE DEF Right
  <2> QED
    BY <1>2
<1>4. Len(s) \in Nat /\ Len(s) \in 0 .. Len(s) /\ DOMAIN s = 1 .. Len(s)
  OBVIOUS
<1> HIDE DEF Right, T
<1>5. 0 .. Len(s) \subseteq T
  BY <1>1, <1>3, <1>4, UpTo
<1>6. Right(Len(s))
  BY <1>4, <1>5 DEF T
<1>7. KeepAt(s, I) = f[Len(s)]
  BY KeepAtKept DEF f
<1>8. f[Len(s)] \in Seq(S) /\ DOMAIN f[Len(s)] = 1 .. Len(f[Len(s)])
  BY <1>6 DEF Right
<1>9. PICK p : Places(Len(s), p)
  BY <1>6 DEF Right
<1>10. /\ p \in [DOMAIN KeepAt(s, I) -> I \cap DOMAIN s]
       /\ \A i \in DOMAIN KeepAt(s, I) : KeepAt(s, I)[i] = s[p[i]]
       /\ \A i, j \in DOMAIN KeepAt(s, I) : i < j => p[i] < p[j]
       /\ \A k \in I \cap DOMAIN s : \E i \in DOMAIN KeepAt(s, I) : p[i] = k
  BY <1>4, <1>7, <1>8, <1>9
<1> HIDE DEF Places
<1> QED
  BY <1>7, <1>8, <1>10

----------------------------------------------------------------------------
(* The candidates *)

(* c lists the elements of s at the places in I, each place once.          *)
Lists(c, s, I) ==
    /\ c \in Seq(Heroes)
    /\ \E p \in [DOMAIN c -> I] :
          /\ \A i \in DOMAIN c : c[i] = s[p[i]]
          /\ \A i, j \in DOMAIN c : p[i] = p[j] => i = j
          /\ \A k \in I : \E i \in DOMAIN c : p[i] = k

(* KeepAt lists the places it keeps.                                       *)
LEMMA KeptPlacesList ==
    ASSUME NEW s \in Seq(Heroes), NEW I
    PROVE  Lists(KeepAt(s, I), s, I \cap DOMAIN s)
<1>1. PICK p \in [DOMAIN KeepAt(s, I) -> I \cap DOMAIN s] :
         /\ \A i \in DOMAIN KeepAt(s, I) : KeepAt(s, I)[i] = s[p[i]]
         /\ \A i, j \in DOMAIN KeepAt(s, I) : i < j => p[i] < p[j]
         /\ \A k \in I \cap DOMAIN s : \E i \in DOMAIN KeepAt(s, I) : p[i] = k
  BY KeepAtPlaces
<1>2. KeepAt(s, I) \in Seq(Heroes)
  BY KeepAtPlaces
<1>3. ASSUME NEW i \in DOMAIN KeepAt(s, I), NEW j \in DOMAIN KeepAt(s, I), p[i] = p[j]
      PROVE  i = j
  <2>1. i \in Nat /\ j \in Nat
    BY <1>2
  <2>2. p[i] \in Nat /\ p[j] \in Nat
    <3>1. DOMAIN s \subseteq Nat /\ p[i] \in DOMAIN s /\ p[j] \in DOMAIN s
      OBVIOUS
    <3> QED
      BY <3>1
  <2>3. ~(p[i] < p[j]) /\ ~(p[j] < p[i])
    BY <1>3, <2>2
  <2>4. ~(i < j) /\ ~(j < i)
    BY <1>1, <2>3
  <2> QED
    BY <2>1, <2>4
<1> QED
  BY <1>1, <1>2, <1>3 DEF Lists

LEMMA KeptLists ==
    ASSUME NEW s \in Seq(Heroes), NEW I \in SUBSET DOMAIN s
    PROVE  Lists(KeepAt(s, I), s, I)
<1>1. I \cap DOMAIN s = I
  OBVIOUS
<1>2. Lists(KeepAt(s, I), s, I \cap DOMAIN s)
  BY ONLY s \in Seq(Heroes), KeptPlacesList
<1> QED
  BY <1>1, <1>2

(* Filtering what is listed lists the places that pass.                    *)
LEMMA FilteredLists ==
    ASSUME NEW s \in Seq(Heroes), NEW I \in SUBSET DOMAIN s, NEW c, Lists(c, s, I), NEW T
    PROVE  Lists(KeepAt(c, {i \in DOMAIN c : c[i] \in T}), s, {k \in I : s[k] \in T})
<1> DEFINE J == {i \in DOMAIN c : c[i] \in T}
           d == KeepAt(c, J)
           K == {k \in I : s[k] \in T}
<1>1. PICK p \in [DOMAIN c -> I] :
         /\ \A i \in DOMAIN c : c[i] = s[p[i]]
         /\ \A i, j \in DOMAIN c : p[i] = p[j] => i = j
         /\ \A k \in I : \E i \in DOMAIN c : p[i] = k
  BY DEF Lists
<1>2. c \in Seq(Heroes) /\ J \in SUBSET DOMAIN c
  BY DEF Lists
<1>3. Lists(d, c, J)
  <2> HIDE DEF J
  <2> QED
    BY <1>2, KeptLists
<1>4. PICK q \in [DOMAIN d -> J] :
         /\ \A i \in DOMAIN d : d[i] = c[q[i]]
         /\ \A i, j \in DOMAIN d : q[i] = q[j] => i = j
         /\ \A k \in J : \E i \in DOMAIN d : q[i] = k
  <2> HIDE DEF d, J
  <2> QED
    BY <1>3 DEF Lists
<1>5. d \in Seq(Heroes)
  <2> HIDE DEF d, J
  <2> QED
    BY <1>3 DEF Lists
<1> DEFINE r == [i \in DOMAIN d |-> p[q[i]]]
<1> HIDE DEF d
<1>6. \A i \in DOMAIN d : q[i] \in DOMAIN c /\ c[q[i]] \in T /\ r[i] = p[q[i]]
  OBVIOUS
<1>7. \A i \in DOMAIN d : r[i] \in K /\ d[i] = s[r[i]]
  BY <1>1, <1>4, <1>6
<1>8. r \in [DOMAIN d -> K]
  BY <1>7
<1> HIDE DEF r
<1>9. \A i, j \in DOMAIN d : r[i] = r[j] => i = j
  BY <1>1, <1>4, <1>6
<1>10. ASSUME NEW k \in K
       PROVE  \E i \in DOMAIN d : r[i] = k
  <2>1. PICK j \in DOMAIN c : p[j] = k
    BY <1>1
  <2>2. j \in J
    BY <1>1, <2>1
  <2>3. PICK i \in DOMAIN d : q[i] = j
    BY <1>4, <2>2
  <2> QED
    BY <1>6, <2>1, <2>3
<1> HIDE DEF K, J
<1>11. /\ \A i \in DOMAIN d : d[i] = s[r[i]]
       /\ \A i, j \in DOMAIN d : r[i] = r[j] => i = j
       /\ \A k \in K : \E i \in DOMAIN d : r[i] = k
  BY ONLY <1>7, <1>9, <1>10
<1>12. Lists(d, s, K)
  BY ONLY <1>5, <1>8, <1>11 DEF Lists
<1> QED
  BY <1>12 DEF d, K, J

(* The loop over the roles, on its own.                                    *)
RoleStep(heroes, hero, left, k) ==
    IF k = 0 THEN SameAttr(heroes, hero)
    ELSE KeepAt(left, {i \in DOMAIN left : HasRole(left[i], hero.roles[k])})

IsLoop(f, heroes, hero, n) == f = [k \in 0 .. n |-> RoleStep(heroes, hero, f[k - 1], k)]

Loop(heroes, hero, n) == CHOOSE f : IsLoop(f, heroes, hero, n)

(* The recursion over the roles has a solution.                            *)
LEMMA LoopExists ==
    ASSUME NEW heroes, NEW hero, NEW m \in Nat
    PROVE  \A n \in 0 .. m : \E f : IsLoop(f, heroes, hero, n)
<1> DEFINE T == {n \in 0 .. m : \E f : IsLoop(f, heroes, hero, n)}
<1>1. 0 \in T
  <2> DEFINE f == [k \in 0 .. 0 |-> SameAttr(heroes, hero)]
  <2>1. IsLoop(f, heroes, hero, 0)
    BY DEF RoleStep, IsLoop
  <2> QED
    BY <2>1
<1>2. ASSUME NEW n \in 0 .. m - 1, n \in T
      PROVE  n + 1 \in T
  <2>0. PICK f : IsLoop(f, heroes, hero, n)
    BY <1>2
  <2>1. \A k \in 0 .. n : f[k] = RoleStep(heroes, hero, f[k - 1], k)
    BY <2>0 DEF IsLoop
  <2> DEFINE g == [k \in 0 .. n + 1 |-> IF k = n + 1 THEN RoleStep(heroes, hero, f[k - 1], k) ELSE f[k]]
  <2>2. \A k \in 0 .. n + 1 : g[k] = RoleStep(heroes, hero, g[k - 1], k)
    <3>1. TAKE k \in 0 .. n + 1
    <3>2. CASE k = 0
      <4>1. 0 \in 0 .. n /\ 0 # n + 1
        OBVIOUS
      <4>2. g[k] = f[k] /\ f[k] = RoleStep(heroes, hero, f[k - 1], k)
        BY <2>1, <3>2, <4>1
      <4> QED
        BY <3>2, <4>2 DEF RoleStep
    <3>3. CASE k # 0
      <4>1. k - 1 \in 0 .. n /\ g[k - 1] = f[k - 1]
        BY <3>3
      <4>2. RoleStep(heroes, hero, g[k - 1], k) = RoleStep(heroes, hero, f[k - 1], k)
        BY <4>1
      <4>3. g[k] = RoleStep(heroes, hero, f[k - 1], k)
        BY <2>1
      <4> QED
        BY <4>2, <4>3
    <3> QED
      BY <3>2, <3>3
  <2>3. g = [k \in 0 .. n + 1 |-> RoleStep(heroes, hero, g[k - 1], k)]
    BY <2>2
  <2>4. \E h : IsLoop(h, heroes, hero, n + 1)
    BY <2>3 DEF IsLoop
  <2> QED
    BY <2>4
<1> HIDE DEF T
<1>3. 0 .. m \subseteq T
  BY <1>1, <1>2, UpTo
<1> QED
  BY <1>3 DEF T

LEMMA LoopIsWithRoles ==
    ASSUME NEW heroes, NEW hero, NEW n \in Nat
    PROVE  /\ WithRoles(heroes, hero, n) = Loop(heroes, hero, n)[n]
           /\ IsLoop(Loop(heroes, hero, n), heroes, hero, n)
<1>1. IsLoop(Loop(heroes, hero, n), heroes, hero, n)
  <2>1. n \in 0 .. n
    OBVIOUS
  <2> QED
    BY <2>1, LoopExists DEF Loop
<1>2. WithRoles(heroes, hero, n) = Loop(heroes, hero, n)[n]
  BY DEF WithRoles, Loop, IsLoop, RoleStep
<1> QED
  BY <1>1, <1>2

(* The places of the similar heroes.                                       *)
Similar(heroes, hero) == {i \in DOMAIN heroes : IsSimilar(heroes[i], hero)}

(* The candidates are the similar heroes, those listed twice twice.        *)
LEMMA CandidatesAreSimilar ==
    ASSUME NEW heroes \in Seq(Heroes), NEW hero \in Heroes
    PROVE  Lists(Candidates(heroes, hero), heroes, Similar(heroes, hero))
<1> DEFINE n == Len(hero.roles)
           f == Loop(heroes, hero, n)
           Same == {i \in DOMAIN heroes : /\ heroes[i].id # hero.id
                                          /\ heroes[i].primaryAttr = hero.primaryAttr}
           Left(k) == {i \in Same : \A j \in 1 .. k : HasRole(heroes[i], hero.roles[j])}
           T == {k \in 0 .. n : Lists(f[k], heroes, Left(k))}
<1>0. n \in Nat /\ hero.roles \in Seq(Roles) /\ DOMAIN hero.roles = 1 .. n
  BY HeroesAssumption
<1>1. \A k \in 0 .. n : f[k] = RoleStep(heroes, hero, f[k - 1], k)
  <2>1. IsLoop(f, heroes, hero, n)
    BY <1>0, LoopIsWithRoles
  <2> HIDE DEF f
  <2> QED
    BY <2>1 DEF IsLoop
<1> HIDE DEF f, n
<1>2. 0 \in T
  <2>1. 0 \in 0 .. n /\ Left(0) = Same
    BY <1>0
  <2>2. f[0] = KeepAt(heroes, Same)
    BY <1>1, <2>1 DEF RoleStep, SameAttr
  <2>3. Same \in SUBSET DOMAIN heroes
    OBVIOUS
  <2> HIDE DEF Same, Left
  <2> QED
    BY <2>1, <2>2, <2>3, KeptLists
<1>3. ASSUME NEW k \in 0 .. n - 1, k \in T
      PROVE  k + 1 \in T
  <2> DEFINE Plays == {h \in Heroes : HasRole(h, hero.roles[k + 1])}
  <2>1. /\ k + 1 \in 0 .. n /\ k + 1 # 0 /\ (k + 1) - 1 = k
        /\ Lists(f[k], heroes, Left(k)) /\ Left(k) \in SUBSET DOMAIN heroes
    BY <1>0, <1>3
  <2>2. f[k + 1] = KeepAt(f[k], {i \in DOMAIN f[k] : HasRole(f[k][i], hero.roles[k + 1])})
    BY <1>1, <2>1 DEF RoleStep
  <2>3. \A i \in DOMAIN f[k] : f[k][i] \in Heroes
    BY <2>1 DEF Lists
  <2>4. {i \in DOMAIN f[k] : HasRole(f[k][i], hero.roles[k + 1])} = {i \in DOMAIN f[k] : f[k][i] \in Plays}
    BY <2>3
  <2>5. Left(k + 1) = {i \in Left(k) : heroes[i] \in Plays}
    <3>1. \A j \in 1 .. k + 1 : j \in 1 .. k \/ j = k + 1
      BY <1>0
    <3>2. k + 1 \in 1 .. k + 1 /\ 1 .. k \subseteq 1 .. k + 1
      BY <1>0
    <3>3. \A i \in DOMAIN heroes : heroes[i] \in Heroes
      OBVIOUS
    <3> QED
      BY <3>1, <3>2, <3>3
  <2> HIDE DEF Left, Plays
  <2>6. Lists(KeepAt(f[k], {i \in DOMAIN f[k] : f[k][i] \in Plays}), heroes,
              {i \in Left(k) : heroes[i] \in Plays})
    BY <2>1, FilteredLists
  <2>7. Lists(f[k + 1], heroes, Left(k + 1))
    BY <2>2, <2>4, <2>5, <2>6
  <2> QED
    BY <2>1, <2>7
<1>4. 0 .. n \subseteq T
  <2> HIDE DEF T
  <2> QED
    BY <1>0, <1>2, <1>3, UpTo
<1>5. Lists(f[n], heroes, Left(n))
  <2>1. n \in 0 .. n
    BY <1>0
  <2> QED
    BY <1>4, <2>1
<1>6. Left(n) = Similar(heroes, hero)
  <2>1. ASSUME NEW i \in DOMAIN heroes
        PROVE  (\A j \in 1 .. n : HasRole(heroes[i], hero.roles[j]))
                  <=> ToSet(hero.roles) \subseteq ToSet(heroes[i].roles)
    BY <1>0 DEF HasRole, ToSet
  <2> QED
    BY <2>1 DEF Similar, IsSimilar
<1> HIDE DEF Left
<1>7. Candidates(heroes, hero) = f[n]
  BY <1>0, LoopIsWithRoles DEF Candidates, f, n
<1> QED
  BY <1>5, <1>6, <1>7

----------------------------------------------------------------------------
(* The sort and the first three *)

(* sorted holds what is listed, best first.                                *)
LEMMA SortedLists ==
    ASSUME NEW s \in Seq(Heroes), NEW I \in SUBSET DOMAIN s, NEW c, Lists(c, s, I),
           NEW sorted \in SortedByRank(c)
    PROVE  /\ Lists(sorted, s, I) /\ Len(sorted) = Len(c)
           /\ \A i \in 1 .. Len(sorted) - 1 : Rank(sorted[i]) >= Rank(sorted[i + 1])
<1>1. PICK p \in [DOMAIN c -> I] :
         /\ \A i \in DOMAIN c : c[i] = s[p[i]]
         /\ \A i, j \in DOMAIN c : p[i] = p[j] => i = j
         /\ \A k \in I : \E i \in DOMAIN c : p[i] = k
  BY DEF Lists
<1>2. c \in Seq(Heroes) /\ Len(c) \in Nat /\ DOMAIN c = 1 .. Len(c)
  BY DEF Lists
<1>3. PICK q \in Bijection(DOMAIN c, DOMAIN c) : sorted = [i \in DOMAIN c |-> c[q[i]]]
  BY DEF SortedByRank
<1>4. q \in [DOMAIN c -> DOMAIN c] /\ \A j \in DOMAIN c : \E i \in DOMAIN c : q[i] = j
  BY <1>3 DEF Bijection, Injection, Surjection
<1>5. \A i, j \in DOMAIN c : q[i] = q[j] => i = j
  BY <1>3, <1>4 DEF Bijection, Injection, IsInjective
<1>6. sorted \in Seq(Heroes) /\ Len(sorted) = Len(c) /\ DOMAIN sorted = DOMAIN c
      /\ \A i \in DOMAIN c : sorted[i] = c[q[i]]
  BY <1>2, <1>3, <1>4
<1> DEFINE r == [i \in DOMAIN c |-> p[q[i]]]
<1>7. \A i \in DOMAIN c : p[q[i]] \in I
  BY <1>1, <1>4
<1>7a. r \in [DOMAIN c -> I] /\ \A i \in DOMAIN c : r[i] = p[q[i]]
  BY <1>7
<1> HIDE DEF r
<1>8. ASSUME NEW i \in DOMAIN c
      PROVE  sorted[i] = s[r[i]]
  <2>1. q[i] \in DOMAIN c
    BY <1>4
  <2>2. c[q[i]] = s[p[q[i]]]
    BY <1>1, <2>1
  <2> QED
    BY <1>6, <1>7a, <2>2
<1>9. \A i, j \in DOMAIN c : r[i] = r[j] => i = j
  BY <1>1, <1>4, <1>5, <1>7a
<1>10. \A k \in I : \E i \in DOMAIN c : r[i] = k
  BY <1>1, <1>4, <1>7a
<1>11. Lists(sorted, s, I)
  <2>1. /\ r \in [DOMAIN sorted -> I]
        /\ \A i \in DOMAIN sorted : sorted[i] = s[r[i]]
        /\ \A i, j \in DOMAIN sorted : r[i] = r[j] => i = j
        /\ \A k \in I : \E i \in DOMAIN sorted : r[i] = k
    BY ONLY <1>6, <1>7a, <1>8, <1>9, <1>10
  <2> QED
    BY ONLY <1>6, <2>1 DEF Lists
<1>12. \A i \in 1 .. Len(sorted) - 1 : Rank(sorted[i]) >= Rank(sorted[i + 1])
  BY DEF SortedByRank
<1> QED
  BY <1>6, <1>11, <1>12

(* Ranks that fall from each place to the next fall from i to j.           *)
LEMMA BestFirst ==
    ASSUME NEW s \in Seq(Heroes), \A i \in 1 .. Len(s) - 1 : Rank(s[i]) >= Rank(s[i + 1]),
           NEW i \in DOMAIN s, NEW j \in DOMAIN s, i <= j
    PROVE  Rank(s[i]) >= Rank(s[j])
<1> DEFINE n == Len(s)
           T == {k \in 0 .. n - i : Rank(s[i]) >= Rank(s[i + k])}
<1>0. n \in Nat /\ DOMAIN s = 1 .. n /\ n - i \in Nat /\ i \in 1 .. n /\ j \in 1 .. n
  OBVIOUS
<1>1. \A k \in DOMAIN s : Rank(s[k]) \in Int
  <2>1. \A k \in DOMAIN s : s[k] \in Heroes
    OBVIOUS
  <2> QED
    BY <2>1, RankAssumption
<1> HIDE DEF n
<1>2. 0 \in T
  BY <1>0, <1>1
<1>3. ASSUME NEW k \in 0 .. n - i - 1, k \in T
      PROVE  k + 1 \in T
  <2>1. i + k \in 1 .. n - 1 /\ i + k \in 1 .. n /\ i + k + 1 \in 1 .. n /\ i + (k + 1) = i + k + 1
        /\ k + 1 \in 0 .. n - i
    BY ONLY <1>0, k \in 0 .. n - i - 1
  <2>2. Rank(s[i + k]) >= Rank(s[i + k + 1]) /\ Rank(s[i]) >= Rank(s[i + k])
    BY <1>3, <2>1 DEF n
  <2>3. Rank(s[i]) \in Int /\ Rank(s[i + k]) \in Int /\ Rank(s[i + k + 1]) \in Int
    BY <1>0, <1>1, <2>1
  <2>4. Rank(s[i]) >= Rank(s[i + k + 1])
    BY <2>2, <2>3
  <2> QED
    BY <2>1, <2>4
<1>4. 0 .. n - i \subseteq T
  <2> HIDE DEF T
  <2> QED
    BY <1>0, <1>2, <1>3, UpTo
<1>5. j - i \in 0 .. n - i /\ i + (j - i) = j
  BY ONLY <1>0, i <= j
<1> QED
  BY <1>4, <1>5

(* What the detail screen promises of a hero and the similar ones, for the *)
(* heroes of the list: the body of ShowsBestSimilarHeroes.                 *)
Best(heroes, hero, shown) ==
    LET similar == Similar(heroes, hero)
        places(h) == Cardinality({i \in similar : heroes[i] = h})
    IN  /\ Len(shown) = IF Cardinality(similar) > Limit THEN Limit ELSE Cardinality(similar)
        /\ \A i \in DOMAIN shown : Cardinality({j \in DOMAIN shown : shown[j] = shown[i]}) <= places(shown[i])
        /\ \A i \in 1 .. Len(shown) - 1 : Rank(shown[i]) >= Rank(shown[i + 1])
        /\ \A i \in similar : \/ Contains(shown, heroes[i])
                              \/ \A j \in DOMAIN shown : Rank(shown[j]) >= Rank(heroes[i])

(* getSimilarHeroes keeps that promise for every list and every hero.      *)
LEMMA SimilarHeroesAreBest ==
    ASSUME NEW heroes \in Seq(Heroes), NEW hero \in Heroes, NEW shown \in SimilarHeroes(heroes, hero)
    PROVE  Best(heroes, hero, shown)
<1> DEFINE similar == Similar(heroes, hero)
<1>1. PICK sorted \in SortedByRank(Candidates(heroes, hero)) :
         shown = IF Len(sorted) > Limit THEN SubSeq(sorted, 1, Limit) ELSE sorted
  BY DEF SimilarHeroes
<1>2. similar \in SUBSET DOMAIN heroes
  BY DEF Similar
<1> HIDE DEF similar
<1>3. Lists(sorted, heroes, similar) /\ \A i \in 1 .. Len(sorted) - 1 : Rank(sorted[i]) >= Rank(sorted[i + 1])
  BY <1>2, CandidatesAreSimilar, SortedLists DEF similar
<1>4. PICK p \in [DOMAIN sorted -> similar] :
         /\ \A i \in DOMAIN sorted : sorted[i] = heroes[p[i]]
         /\ \A i, j \in DOMAIN sorted : p[i] = p[j] => i = j
         /\ \A k \in similar : \E i \in DOMAIN sorted : p[i] = k
  BY <1>3 DEF Lists
<1>5. sorted \in Seq(Heroes) /\ Len(sorted) \in Nat /\ DOMAIN sorted = 1 .. Len(sorted)
  BY <1>3 DEF Lists
<1>6. IsFiniteSet(similar) /\ Cardinality(similar) = Len(sorted)
  <2> DEFINE n == Len(sorted)
  <2> HIDE DEF n
  <2>0. n \in Nat
    BY <1>5 DEF n
  <2>1. IsFiniteSet(1 .. n) /\ Cardinality(1 .. n) = n
    <3>1. IsFiniteSet(1 .. n) /\ Cardinality(1 .. n) = IF 1 > n THEN 0 ELSE n - 1 + 1
      BY ONLY <2>0, FS_Interval
    <3> QED
      BY ONLY <2>0, <3>1
  <2>2. ExistsBijection(DOMAIN sorted, similar)
    BY <1>4 DEF ExistsBijection, Bijection, Injection, Surjection, IsInjective
  <2> QED
    BY <1>5, <2>1, <2>2, FS_Bijection DEF n
<1> DEFINE m == IF Len(sorted) > Limit THEN Limit ELSE Len(sorted)
<1>7. m \in Nat /\ m <= Len(sorted) /\ (m = Limit \/ m = Len(sorted))
  BY <1>5 DEF Limit
<1>8. shown \in Seq(Heroes) /\ Len(shown) = m /\ DOMAIN shown = 1 .. m
      /\ \A i \in 1 .. m : shown[i] = sorted[i] /\ i \in DOMAIN sorted
  <2>1. CASE Len(sorted) > Limit
    <3>1. SubSeq(sorted, 1, Limit) \in Seq(Heroes) /\ Len(SubSeq(sorted, 1, Limit)) = Limit
          /\ \A i \in 1 .. Limit : SubSeq(sorted, 1, Limit)[i] = sorted[i] /\ i \in DOMAIN sorted
      BY <1>5, <2>1 DEF Limit
    <3> QED
      BY <1>1, <2>1, <3>1
  <2>2. CASE ~(Len(sorted) > Limit)
    BY <1>1, <1>5, <2>2
  <2> QED
    BY <2>1, <2>2
<1>8a. Len(shown) = m /\ DOMAIN shown = 1 .. m /\ \A i \in 1 .. m : shown[i] = sorted[i]
  BY <1>8
<1>9. Len(shown) = IF Cardinality(similar) > Limit THEN Limit ELSE Cardinality(similar)
  BY <1>6, <1>8
<1> HIDE DEF m
<1>10. ASSUME NEW i \in DOMAIN shown
       PROVE  Cardinality({j \in DOMAIN shown : shown[j] = shown[i]})
                 <= Cardinality({k \in similar : heroes[k] = shown[i]})
  <2> DEFINE A == {j \in DOMAIN shown : shown[j] = shown[i]}
             B == {k \in similar : heroes[k] = shown[i]}
             q == [j \in A |-> p[j]]
  <2>1. \A j \in A : j \in DOMAIN sorted /\ p[j] \in B
    BY <1>4, <1>8
  <2>2. q \in [A -> B] /\ \A j \in A : q[j] = p[j]
    BY <2>1
  <2>3. B \in SUBSET similar
    OBVIOUS
  <2> HIDE DEF A, B, q
  <2>4. q \in Injection(A, B)
    BY <1>4, <2>1, <2>2 DEF Injection, IsInjective
  <2>5. IsFiniteSet(B)
    BY <1>6, <2>3, FS_Subset
  <2>6. Cardinality(A) <= Cardinality(B)
    BY <2>4, <2>5, FS_Injection
  <2> QED
    BY <2>6 DEF A, B
<1>11. \A i \in 1 .. Len(shown) - 1 : Rank(shown[i]) >= Rank(shown[i + 1])
  <2> TAKE i \in 1 .. Len(shown) - 1
  <2>1. i \in 1 .. m /\ i + 1 \in 1 .. m /\ i \in 1 .. Len(sorted) - 1
    <3>1. i \in 1 .. m - 1 /\ Len(sorted) \in Nat
      BY <1>5, <1>8a
    <3> QED
      BY ONLY <1>7, <3>1
  <2> QED
    BY <1>3, <1>8, <2>1
<1>12. ASSUME NEW k \in similar
       PROVE  \/ Contains(shown, heroes[k])
              \/ \A j \in DOMAIN shown : Rank(shown[j]) >= Rank(heroes[k])
  <2>1. PICK i \in DOMAIN sorted : p[i] = k /\ sorted[i] = heroes[k]
    BY <1>4
  <2>2. CASE i \in 1 .. m
    <3>1. shown[i] = heroes[k] /\ i \in DOMAIN shown
      BY <1>8, <2>1, <2>2
    <3> QED
      BY <3>1 DEF Contains
  <2>3. CASE i \notin 1 .. m
    <3>1. ASSUME NEW j \in DOMAIN shown
          PROVE  Rank(shown[j]) >= Rank(heroes[k])
      <4>1. j \in DOMAIN sorted /\ j <= i /\ shown[j] = sorted[j]
        <5>1. j \in 1 .. m /\ i \in 1 .. Len(sorted)
          BY <1>5, <1>8a
        <5>2. m \in Nat /\ m <= Len(sorted)
          BY <1>7
        <5>3. j \in Nat /\ 1 <= j /\ j <= m
          BY ONLY <5>1, <5>2
        <5>4. i \in Nat /\ 1 <= i /\ Len(sorted) \in Nat
          BY ONLY <1>5, <5>1
        <5>5. ~(i <= m)
          BY ONLY <2>3, <5>2, <5>4
        <5>6. j \in 1 .. Len(sorted) /\ j <= i
          BY ONLY <5>2, <5>3, <5>4, <5>5
        <5> QED
          BY <1>5, <1>8a, <5>1, <5>6
      <4>2. Rank(sorted[j]) >= Rank(sorted[i])
        BY <1>3, <1>5, <4>1, BestFirst
      <4> QED
        BY <2>1, <4>1, <4>2
    <3> QED
      BY <3>1
  <2> QED
    BY <2>2, <2>3
<1> QED
  BY <1>9, <1>10, <1>11, <1>12 DEF Best, similar

----------------------------------------------------------------------------
(* The screens *)

(* The grid and the cells hold heroes.                                     *)
HoldHeroes == obsHeroes \in Seq(Heroes) /\ items \in Seq(Heroes)

LEMMA HoldHeroesInvariant == DetailSpec => []HoldHeroes
<1>1. DetailInit => HoldHeroes
  <2>1. << >> \in Seq(Heroes)
    OBVIOUS
  <2> QED
    BY <2>1, GridsAssumption DEF DetailInit, HoldHeroes
<1>2. HoldHeroes /\ [DetailNext]_detailVars => HoldHeroes'
  BY GridsAssumption DEF HoldHeroes, DetailNext, detailVars, Refill, RedrawGrid, DidHeroTapped, Back
<1> QED
  BY <1>1, <1>2, PTL DEF DetailSpec

(* Whatever is on the grid by the time a hero is tapped, and whichever     *)
(* hero of an older grid it is: the detail screen shows the best similar   *)
(* heroes of the list, best first, three if there are three, each no more  *)
(* often than the list holds it.                                           *)
THEOREM BestSimilarHeroes == DetailSpec => ShowsBestSimilarHeroes
<1>1. HoldHeroes /\ [DetailNext]_detailVars /\ detail' # << >> /\ detail' # detail =>
         Best(obsHeroes, detail'[1], detail'[2])
  <2> SUFFICES ASSUME HoldHeroes, [DetailNext]_detailVars, detail' # << >>, detail' # detail
               PROVE  Best(obsHeroes, detail'[1], detail'[2])
    OBVIOUS
  <2>1. DidHeroTapped
    BY DEF DetailNext, detailVars, Refill, RedrawGrid, Back
  <2>2. PICK i \in DOMAIN items :
           \E similar \in SimilarHeroes(obsHeroes, items[i]) : detail' = << items[i], similar >>
    BY <2>1 DEF DidHeroTapped
  <2>3. PICK similar \in SimilarHeroes(obsHeroes, items[i]) : detail' = << items[i], similar >>
    BY <2>2
  <2>4. items[i] \in Heroes /\ obsHeroes \in Seq(Heroes)
    BY DEF HoldHeroes
  <2>5. Best(obsHeroes, items[i], similar)
    BY <2>4, SimilarHeroesAreBest
  <2> QED
    BY <2>3, <2>5
<1> QED
  BY <1>1, HoldHeroesInvariant, PTL DEF DetailSpec, ShowsBestSimilarHeroes, Best, Similar
=============================================================================
