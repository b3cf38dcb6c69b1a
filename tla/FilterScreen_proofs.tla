------------------------ MODULE FilterScreen_proofs ------------------------
(***************************************************************************)
(* For any number of roles and any order of taps and redraws: "All" stays  *)
(* coherent with the other roles, the buttons show the roles as far as     *)
(* they can, and the screen implements the dialog the hero list relies on. *)
(***************************************************************************)
EXTENDS FilterScreen, TLAPS, FiniteSetTheorems, WellFoundedInduction

----------------------------------------------------------------------------
(* What KeepAt returns: the elements at the places kept, in their order.   *)

Less == {p \in Nat \X Nat : p[1] < p[2]}

(* A non-empty set of naturals has a least element.                        *)
LEMMA LeastNumber ==
    ASSUME NEW T \in SUBSET Nat, T # {}
    PROVE  \E x \in T : \A y \in T : ~(y < x)
<1>1. IsWellFoundedOn(Less, Nat)
  BY NatLessThanWellFounded DEF OpToRel, Less
<1>2. \E x \in T : \A y \in T : ~(<< y, x >> \in Less)
  BY <1>1, WFMin, Zenon
<1> QED
  BY <1>2 DEF Less

(* A set that holds 0 and is closed under +1 up to n holds 0 .. n.         *)
LEMMA UpTo ==
    ASSUME NEW n \in Nat, NEW T, 0 \in T, \A k \in 0 .. n - 1 : k \in T => k + 1 \in T
    PROVE  0 .. n \subseteq T
<1>1. SUFFICES ASSUME 0 .. n \ T # {}
               PROVE  FALSE
  OBVIOUS
<1>2. PICK x \in 0 .. n \ T : \A y \in 0 .. n \ T : ~(y < x)
  <2> 0 .. n \ T \in SUBSET Nat
    OBVIOUS
  <2> QED
    BY <1>1, LeastNumber
<1>3. x # 0 /\ x - 1 \in 0 .. n - 1
  BY <1>2
<1>4. x - 1 \in T
  BY <1>2, <1>3
<1> QED
  BY <1>2, <1>3, <1>4

----------------------------------------------------------------------------
(* KeepAt *)

(* The function KeepAt folds with, on its own.                             *)
KeptStep(s, I, f, k) ==
    IF k = 0 THEN << >> ELSE IF k \in I THEN Append(f[k - 1], s[k]) ELSE f[k - 1]

Kept(s, I) == CHOOSE f : f = [k \in 0 .. Len(s) |-> KeptStep(s, I, f, k)]

(* The recursion of KeepAt has a solution on every prefix.                 *)
LEMMA KeptExists ==
    ASSUME NEW S, NEW s \in Seq(S), NEW I
    PROVE  \A n \in 0 .. Len(s) : \E f : f = [k \in 0 .. n |-> KeptStep(s, I, f, k)]
<1> DEFINE T == {n \in 0 .. Len(s) : \E f : f = [k \in 0 .. n |-> KeptStep(s, I, f, k)]}
<1>1. 0 \in T
  <2> DEFINE f == [k \in 0 .. 0 |-> << >>]
  <2>1. f = [k \in 0 .. 0 |-> KeptStep(s, I, f, k)]
    BY DEF KeptStep
  <2> QED
    BY <2>1
<1>2. ASSUME NEW n \in 0 .. Len(s) - 1, n \in T
      PROVE  n + 1 \in T
  <2>1. PICK f : f = [k \in 0 .. n |-> KeptStep(s, I, f, k)]
    BY <1>2
  <2> DEFINE g == [k \in 0 .. n + 1 |-> IF k = n + 1 THEN KeptStep(s, I, f, k) ELSE f[k]]
  <2>2. \A k \in 0 .. n + 1 : g[k] = KeptStep(s, I, g, k)
    <3>1. TAKE k \in 0 .. n + 1
    <3>2. CASE k = 0
      BY <2>1, <3>2 DEF KeptStep
    <3>3. CASE k # 0
      <4>1. k - 1 \in 0 .. n /\ g[k - 1] = f[k - 1]
        BY <3>3
      <4>2. KeptStep(s, I, g, k) = KeptStep(s, I, f, k)
        BY <3>3, <4>1 DEF KeptStep
      <4>3. g[k] = KeptStep(s, I, f, k)
        BY <2>1
      <4> QED
        BY <4>2, <4>3
    <3> QED
      BY <3>2, <3>3
  <2>3. g = [k \in 0 .. n + 1 |-> KeptStep(s, I, g, k)]
    BY <2>2
  <2>4. \E h : h = [k \in 0 .. n + 1 |-> KeptStep(s, I, h, k)]
    BY <2>3
  <2> QED
    BY <2>4
<1> HIDE DEF T
<1>3. 0 .. Len(s) \subseteq T
  BY <1>1, <1>2, UpTo
<1> QED
  BY <1>3 DEF T

LEMMA KeepAtKept ==
    ASSUME NEW S, NEW s \in Seq(S), NEW I
    PROVE  /\ KeepAt(s, I) = Kept(s, I)[Len(s)]
           /\ Kept(s, I) = [k \in 0 .. Len(s) |-> KeptStep(s, I, Kept(s, I), k)]
<1>1. Kept(s, I) = [k \in 0 .. Len(s) |-> KeptStep(s, I, Kept(s, I), k)]
  BY KeptExists DEF Kept
<1>2. KeepAt(s, I) = Kept(s, I)[Len(s)]
  BY DEF KeepAt, Kept, KeptStep
<1> QED
  BY <1>1, <1>2

(* KeepAt(s, I) lists the places of s that are in I, each once and in      *)
(* order.                                                                  *)
LEMMA KeepAtPlaces ==
    ASSUME NEW S, NEW s \in Seq(S), NEW I
    PROVE  /\ KeepAt(s, I) \in Seq(S)
           /\ \E p \in [DOMAIN KeepAt(s, I) -> I \cap DOMAIN s] :
                 /\ \A i \in DOMAIN KeepAt(s, I) : KeepAt(s, I)[i] = s[p[i]]
                 /\ \A i, j \in DOMAIN KeepAt(s, I) : i < j => p[i] < p[j]
                 /\ \A k \in I \cap DOMAIN s : \E i \in DOMAIN KeepAt(s, I) : p[i] = k
<1> DEFINE f == Kept(s, I)
           Places(n, p) ==
               /\ p \in [1 .. Len(f[n]) -> I \cap 1 .. n]
               /\ \A i \in 1 .. Len(f[n]) : f[n][i] = s[p[i]]
               /\ \A i, j \in 1 .. Len(f[n]) : i < j => p[i] < p[j]
               /\ \A k \in I \cap 1 .. n : \E i \in 1 .. Len(f[n]) : p[i] = k
           Right(n) == f[n] \in Seq(S) /\ \E p : Places(n, p)
           T == {n \in 0 .. Len(s) : Right(n)}
<1>0. /\ f[0] = << >>
      /\ \A n \in 0 .. Len(s) - 1 : f[n + 1] = IF n + 1 \in I THEN Append(f[n], s[n + 1]) ELSE f[n]
  <2>0. f = [k \in 0 .. Len(s) |-> KeptStep(s, I, f, k)]
    BY KeepAtKept
  <2> HIDE DEF f
  <2>1. \A k \in 0 .. Len(s) : f[k] = KeptStep(s, I, f, k)
    BY <2>0
  <2>2. f[0] = << >>
    <3>1. 0 \in 0 .. Len(s)
      OBVIOUS
    <3>2. f[0] = KeptStep(s, I, f, 0)
      BY <2>1, <3>1
    <3> QED
      BY <3>2 DEF KeptStep
  <2>3. ASSUME NEW n \in 0 .. Len(s) - 1
        PROVE  f[n + 1] = IF n + 1 \in I THEN Append(f[n], s[n + 1]) ELSE f[n]
    <3>1. n + 1 \in 0 .. Len(s) /\ n + 1 # 0 /\ (n + 1) - 1 = n
      OBVIOUS
    <3> QED
      BY <2>1, <3>1 DEF KeptStep
  <2> QED
    BY <2>2, <2>3
<1> HIDE DEF f
<1>1. 0 \in T
  <2>1. f[0] = << >> /\ f[0] \in Seq(S) /\ Len(f[0]) = 0
    BY <1>0
  <2>2. 0 \in 0 .. Len(s) /\ 1 .. 0 = {}
    OBVIOUS
  <2>3. Places(0, << >>)
    BY <2>1, <2>2
  <2> QED
    BY <2>1, <2>2, <2>3
<1>2. ASSUME NEW n \in 0 .. Len(s) - 1, Right(n)
      PROVE  Right(n + 1)
  <2> HIDE DEF T
  <2>1. CASE n + 1 \in I
    <3> DEFINE m == Len(f[n])
    <3>0. s[n + 1] \in S
      OBVIOUS
    <3>1. f[n + 1] = Append(f[n], s[n + 1])
      BY <1>0, <2>1
    <3>2. /\ f[n + 1] \in Seq(S) /\ m \in Nat /\ Len(f[n + 1]) = m + 1
          /\ \A i \in 1 .. m : f[n + 1][i] = f[n][i]
          /\ f[n + 1][m + 1] = s[n + 1]
      BY <1>2, <3>0, <3>1
    <3>3. PICK p : Places(n, p)
      BY <1>2
    <3>4. /\ p \in [1 .. m -> I \cap 1 .. n]
          /\ \A i \in 1 .. m : f[n][i] = s[p[i]]
          /\ \A i, j \in 1 .. m : i < j => p[i] < p[j]
          /\ \A k \in I \cap 1 .. n : \E i \in 1 .. m : p[i] = k
      BY <3>3
    <3> DEFINE q == [i \in 1 .. m + 1 |-> IF i = m + 1 THEN n + 1 ELSE p[i]]
    <3> HIDE DEF m, Places
    <3>5. \A i \in 1 .. m + 1 : i # m + 1 => i \in 1 .. m
      BY <3>2
    <3>6. /\ q[m + 1] = n + 1
          /\ \A i \in 1 .. m : q[i] = p[i] /\ p[i] \in I \cap 1 .. n
      BY <3>2, <3>4
    <3>7. q \in [1 .. m + 1 -> I \cap 1 .. n + 1]
      BY <2>1, <3>4, <3>5
    <3> HIDE DEF q
    <3>8. \A i \in 1 .. m + 1 : f[n + 1][i] = s[q[i]]
      BY <3>2, <3>4, <3>5, <3>6
    <3>9. ASSUME NEW i \in 1 .. m + 1, NEW j \in 1 .. m + 1, i < j
          PROVE  q[i] < q[j]
      <4>1. i \in 1 .. m
        BY <3>2, <3>9
      <4>2. CASE j = m + 1
        BY <3>6, <4>1, <4>2
      <4>3. CASE j # m + 1
        BY <3>4, <3>5, <3>6, <3>9, <4>1, <4>3
      <4> QED
        BY <4>2, <4>3
    <3>10. ASSUME NEW k \in I \cap 1 .. n + 1
           PROVE  \E i \in 1 .. m + 1 : q[i] = k
      <4>1. CASE k = n + 1
        BY <3>2, <3>6, <4>1
      <4>2. CASE k # n + 1
        <5>1. k \in I \cap 1 .. n
          BY <4>2
        <5>2. PICK i \in 1 .. m : p[i] = k
          BY <3>4, <5>1
        <5>3. i \in 1 .. m + 1
          BY <3>2
        <5> QED
          BY <3>6, <5>2, <5>3
      <4> QED
        BY <4>1, <4>2
    <3>11. Places(n + 1, q)
      BY <3>2, <3>7, <3>8, <3>9, <3>10 DEF Places
    <3> QED
      BY <3>2, <3>11
  <2>2. CASE n + 1 \notin I
    <3>1. f[n + 1] = f[n]
      BY <1>0, <2>2
    <3>2. I \cap 1 .. n + 1 = I \cap 1 .. n
      BY <2>2
    <3>3. PICK p : Places(n, p)
      BY <1>2
    <3>4. Places(n + 1, p)
      BY <3>1, <3>2, <3>3
    <3> QED
      BY <1>2, <3>1, <3>4
  <2> QED
    BY <2>1, <2>2
<1>3. \A n \in 0 .. Len(s) - 1 : n \in T => n + 1 \in T
  <2> HIDE DEF Right
  <2> QED
    BY <1>2
<1>4. Len(s) \in Nat /\ Len(s) \in 0 .. Len(s) /\ DOMAIN s = 1 .. Len(s)
  OBVIOUS
<1> HIDE DEF Right, T
<1>5. 0 .. Len(s) \subseteq T
  BY <1>1, <1>3, <1>4, UpTo
<1>6. Right(Len(s))
  BY <1>4, <1>5 DEF T
<1>7. KeepAt(s, I) = f[Len(s)]
  BY KeepAtKept DEF f
<1>8. f[Len(s)] \in Seq(S) /\ DOMAIN f[Len(s)] = 1 .. Len(f[Len(s)])
  BY <1>6 DEF Right
<1>9. PICK p : Places(Len(s), p)
  BY <1>6 DEF Right
<1>10. /\ p \in [DOMAIN KeepAt(s, I) -> I \cap DOMAIN s]
       /\ \A i \in DOMAIN KeepAt(s, I) : KeepAt(s, I)[i] = s[p[i]]
       /\ \A i, j \in DOMAIN KeepAt(s, I) : i < j => p[i] < p[j]
       /\ \A k \in I \cap DOMAIN s : \E i \in DOMAIN KeepAt(s, I) : p[i] = k
  BY <1>4, <1>7, <1>8, <1>9
<1> HIDE DEF Places
<1> QED
  BY <1>7, <1>8, <1>10

(* KeepAt(s, I) is a sequence of the elements of s at positions in I, and  *)
(* misses none of them.                                                    *)
LEMMA KeepAtElements ==
    ASSUME NEW S, NEW s \in Seq(S), NEW I
    PROVE  /\ KeepAt(s, I) \in Seq(S)
           /\ \A i \in DOMAIN KeepAt(s, I) : \E k \in I \cap DOMAIN s : KeepAt(s, I)[i] = s[k]
           /\ \A k \in I \cap DOMAIN s : \E i \in DOMAIN KeepAt(s, I) : KeepAt(s, I)[i] = s[k]
<1>1. PICK p \in [DOMAIN KeepAt(s, I) -> I \cap DOMAIN s] :
         /\ \A i \in DOMAIN KeepAt(s, I) : KeepAt(s, I)[i] = s[p[i]]
         /\ \A k \in I \cap DOMAIN s : \E i \in DOMAIN KeepAt(s, I) : p[i] = k
  BY KeepAtPlaces
<1>2. \A i \in DOMAIN KeepAt(s, I) : p[i] \in I \cap DOMAIN s
  OBVIOUS
<1> QED
  BY <1>1, <1>2, KeepAtPlaces

(* The selected filters of a list of role filters are role filters of it,  *)
(* all of them selected; there is one as soon as one is selected, and none  *)
(* is left out unless the first one stands for all.                        *)
LEMMA SelectedFiltersElements ==
    ASSUME NEW roles \in Seq(RoleFilter)
    PROVE  /\ SelectedFilters(roles) \in Seq(RoleFilter)
           /\ \A i \in DOMAIN SelectedFilters(roles) : SelectedFilters(roles)[i].isSelected
           /\ \A i \in DOMAIN SelectedFilters(roles) : \E k \in DOMAIN roles : SelectedFilters(roles)[i] = roles[k]
           /\ Selected(roles) # {} => SelectedFilters(roles) # << >>
           /\ roles # << >> /\ ~roles[1].isSelected =>
                 \A k \in Selected(roles) :
                    \E i \in DOMAIN SelectedFilters(roles) : SelectedFilters(roles)[i] = roles[k]
<1>1. CASE roles = << >>
  BY <1>1 DEF SelectedFilters, Selected
<1>2. CASE roles # << >> /\ roles[1].isSelected
  <2>1. SelectedFilters(roles) = << roles[1] >> /\ roles[1] \in RoleFilter
    BY <1>2 DEF SelectedFilters
  <2>2. 1 \in DOMAIN roles
    BY <1>2
  <2> QED
    BY <1>2, <2>1, <2>2
<1>3. CASE roles # << >> /\ ~roles[1].isSelected
  <2>1. SelectedFilters(roles) = KeepAt(roles, Selected(roles))
    BY <1>3 DEF SelectedFilters
  <2>2. /\ KeepAt(roles, Selected(roles)) \in Seq(RoleFilter)
        /\ \A i \in DOMAIN KeepAt(roles, Selected(roles)) :
              \E k \in Selected(roles) \cap DOMAIN roles : KeepAt(roles, Selected(roles))[i] = roles[k]
        /\ \A k \in Selected(roles) \cap DOMAIN roles :
              \E i \in DOMAIN KeepAt(roles, Selected(roles)) : KeepAt(roles, Selected(roles))[i] = roles[k]
    BY KeepAtElements
  <2>3. \A k \in Selected(roles) : k \in DOMAIN roles /\ roles[k].isSelected
    BY DEF Selected
  <2>4. Selected(roles) # {} => DOMAIN KeepAt(roles, Selected(roles)) # {}
    BY <2>2, <2>3
  <2> QED
    BY <2>1, <2>2, <2>3, <2>4
<1> QED
  BY <1>1, <1>2, <1>3

----------------------------------------------------------------------------
(* The operators *)

LEMMA RoleAt ==
    ASSUME NEW roles \in Seq(RoleFilter), NEW i \in DOMAIN roles
    PROVE  roles[i] \in [name : Roles, isSelected : BOOLEAN]
<1>1. roles[i] \in RoleFilter
  OBVIOUS
<1> QED
  BY <1>1 DEF RoleFilter

LEMMA FlagSet ==
    ASSUME NEW role \in [name : Roles, isSelected : BOOLEAN], NEW flag \in BOOLEAN
    PROVE  /\ [role EXCEPT !.isSelected = flag] = [name |-> role.name, isSelected |-> flag]
           /\ [role EXCEPT !.isSelected = flag] \in [name : Roles, isSelected : BOOLEAN]
           /\ [role EXCEPT !.isSelected = flag].name = role.name
           /\ [role EXCEPT !.isSelected = flag].isSelected = flag
  OBVIOUS

(* A flag read off a role filter.                                          *)
LEMMA FlagTypes ==
    ASSUME NEW roles \in Seq(RoleFilter)
    PROVE  /\ \A i \in DOMAIN roles : roles[i].name \in Roles /\ roles[i].isSelected \in BOOLEAN
           /\ Flags(roles) \in Seq(BOOLEAN) /\ Len(Flags(roles)) = Len(roles)
           /\ DOMAIN Flags(roles) = DOMAIN roles
           /\ \A i \in DOMAIN roles : Flags(roles)[i] = roles[i].isSelected
<1>1. ASSUME NEW i \in DOMAIN roles
      PROVE  roles[i].name \in Roles /\ roles[i].isSelected \in BOOLEAN
  <2>1. roles[i] \in RoleFilter
    OBVIOUS
  <2> QED
    BY <2>1 DEF RoleFilter
<1>2. Len(roles) \in Nat /\ DOMAIN roles = 1 .. Len(roles)
  OBVIOUS
<1> QED
  BY <1>1, <1>2 DEF Flags

(* Tapping "All" gives every role its flag and leaves the names.           *)
LEMMA SetAllIs ==
    ASSUME NEW roles \in Seq(RoleFilter), NEW flag \in BOOLEAN
    PROVE  /\ SetAll(roles, flag) \in Seq(RoleFilter) /\ Len(SetAll(roles, flag)) = Len(roles)
           /\ DOMAIN SetAll(roles, flag) = DOMAIN roles
           /\ \A i \in DOMAIN roles : /\ SetAll(roles, flag)[i].name = roles[i].name
                                      /\ SetAll(roles, flag)[i].isSelected = flag
<1>1. Len(roles) \in Nat /\ DOMAIN roles = 1 .. Len(roles)
  OBVIOUS
<1>2. ASSUME NEW i \in DOMAIN roles
      PROVE  /\ SetAll(roles, flag)[i].name = roles[i].name
             /\ SetAll(roles, flag)[i].isSelected = flag
             /\ SetAll(roles, flag)[i] \in RoleFilter
  <2>1. roles[i] \in [name : Roles, isSelected : BOOLEAN]
    BY RoleAt
  <2>2. SetAll(roles, flag)[i] = [roles[i] EXCEPT !.isSelected = flag]
    BY DEF SetAll
  <2> QED
    BY <2>1, <2>2, FlagSet DEF RoleFilter
<1>3. DOMAIN SetAll(roles, flag) = DOMAIN roles
  BY DEF SetAll
<1>4. SetAll(roles, flag) = [i \in 1 .. Len(roles) |-> SetAll(roles, flag)[i]]
  BY <1>1 DEF SetAll
<1>5. SetAll(roles, flag) \in Seq(RoleFilter) /\ Len(SetAll(roles, flag)) = Len(roles)
  <2> DEFINE all == SetAll(roles, flag)
  <2>1. \A i \in 1 .. Len(roles) : all[i] \in RoleFilter
    BY <1>1, <1>2
  <2> HIDE DEF all
  <2>2. all = [i \in 1 .. Len(roles) |-> all[i]]
    BY <1>4 DEF all
  <2>3. all \in Seq(RoleFilter) /\ Len(all) = Len(roles)
    BY <1>1, <2>1, <2>2
  <2> QED
    BY <2>3 DEF all
<1> QED
  BY <1>2, <1>3, <1>5

(* As many positions of 2 .. n as there are: all of them.                  *)
LEMMA EveryPosition ==
    ASSUME NEW n \in Nat, n >= 1, NEW I \in SUBSET (2 .. n), Cardinality(I) = n - 1
    PROVE  I = 2 .. n
<1>1. IsFiniteSet(2 .. n) /\ Cardinality(2 .. n) = n - 1
  BY FS_Interval
<1> QED
  BY <1>1, FS_Subset

(* Tapping another role sets its flag alone and leaves the names; "All" is *)
(* selected after it exactly when every other role is.                     *)
LEMMA SetOneIs ==
    ASSUME NEW roles \in Seq(RoleFilter), NEW index \in DOMAIN roles, index # 1, NEW flag \in BOOLEAN
    PROVE  /\ SetOne(roles, index, flag) \in Seq(RoleFilter)
           /\ Len(SetOne(roles, index, flag)) = Len(roles)
           /\ DOMAIN SetOne(roles, index, flag) = DOMAIN roles
           /\ \A i \in DOMAIN roles : SetOne(roles, index, flag)[i].name = roles[i].name
           /\ SetOne(roles, index, flag)[index].isSelected = flag
           /\ \A i \in 2 .. Len(roles) :
                 i # index => SetOne(roles, index, flag)[i].isSelected = roles[i].isSelected
           /\ SetOne(roles, index, flag)[1].isSelected =>
                 \A i \in 2 .. Len(roles) : SetOne(roles, index, flag)[i].isSelected
<1> DEFINE n == Len(roles)
           one == [roles EXCEPT ![index].isSelected = flag, ![1].isSelected = FALSE]
           every == Cardinality(Selected(one)) = n - 1
           next == [one EXCEPT ![1].isSelected = every]
<1>1. n \in Nat /\ n >= 2 /\ DOMAIN roles = 1 .. n /\ 1 \in 1 .. n /\ index \in 1 .. n /\ index # 1
  OBVIOUS
<1>2. \A i \in 1 .. n : roles[i] \in [name : Roles, isSelected : BOOLEAN]
  BY <1>1, RoleAt
<1>3. /\ DOMAIN one = 1 .. n
      /\ one[1] = [name |-> roles[1].name, isSelected |-> FALSE]
      /\ one[index] = [name |-> roles[index].name, isSelected |-> flag]
      /\ \A i \in 2 .. n : i # index => one[i] = roles[i]
  <2> DEFINE first == [roles EXCEPT ![index].isSelected = flag]
  <2>1. /\ DOMAIN first = 1 .. n
        /\ first[index] = [roles[index] EXCEPT !.isSelected = flag]
        /\ \A i \in 1 .. n : i # index => first[i] = roles[i]
    BY <1>1
  <2>2. one = [first EXCEPT ![1].isSelected = FALSE]
    OBVIOUS
  <2> HIDE DEF first, one
  <2>3. /\ DOMAIN one = 1 .. n
        /\ \A i \in 1 .. n : i # 1 => one[i] = first[i]
    BY <2>1, <2>2
  <2>4. one[1] = [first[1] EXCEPT !.isSelected = FALSE]
    BY <1>1, <2>1, <2>2
  <2>5. first[1] = roles[1]
    BY <1>1, <2>1
  <2>6. one[1] = [name |-> roles[1].name, isSelected |-> FALSE]
    BY <1>1, <1>2, <2>4, <2>5, FlagSet
  <2>7. one[index] = [name |-> roles[index].name, isSelected |-> flag]
    BY <1>1, <1>2, <2>1, <2>3, FlagSet
  <2> QED
    BY <2>1, <2>3, <2>6, <2>7
<1>4. every \in BOOLEAN
  OBVIOUS
<1>5. every => \A i \in 2 .. n : one[i].isSelected
  <2> DEFINE I == Selected(one)
  <2>1. I \in SUBSET (2 .. n)
    BY <1>1, <1>3 DEF Selected
  <2>2. ASSUME every
        PROVE  I = 2 .. n
    <3>1. Cardinality(I) = n - 1
      BY <2>2
    <3>2. n \in Nat /\ n >= 1
      BY <1>1
    <3> HIDE DEF I, n
    <3> QED
      BY ONLY <2>1, <3>1, <3>2, EveryPosition
  <2> QED
    BY <2>2 DEF Selected
<1> HIDE DEF one, every
<1>6. /\ DOMAIN next = 1 .. n
      /\ next[1] = [name |-> roles[1].name, isSelected |-> every]
      /\ \A i \in 2 .. n : next[i] = one[i]
  BY <1>1, <1>3
<1>7. \A i \in 1 .. n : next[i] \in RoleFilter /\ next[i].name = roles[i].name
  BY <1>1, <1>2, <1>3, <1>4, <1>6 DEF RoleFilter
<1>8. next = [i \in 1 .. n |-> next[i]]
  BY <1>6
<1> HIDE DEF next
<1>9. next \in Seq(RoleFilter) /\ Len(next) = n
  BY <1>1, <1>6, <1>7, <1>8
<1>10. /\ next[index].isSelected = flag
       /\ \A i \in 2 .. n : i # index => next[i].isSelected = roles[i].isSelected
  BY <1>1, <1>3, <1>6
<1>11. next[1].isSelected => \A i \in 2 .. n : next[i].isSelected
  BY <1>5, <1>6
<1>12. SetOne(roles, index, flag) = next
  BY DEF SetOne, next, every, one
<1> QED
  BY <1>1, <1>6, <1>7, <1>9, <1>10, <1>11, <1>12

----------------------------------------------------------------------------
(* The steps *)

LEMMA TapIs ==
    ASSUME TypeOK, NEW index \in DOMAIN buttons, ButtonTapped(index)
    PROVE  /\ obsRoles' \in Seq(RoleFilter) /\ Len(obsRoles') = Len(obsRoles)
           /\ Names(obsRoles') = Names(obsRoles)
           /\ AllCoherent'
           /\ buttons' \in Seq(BOOLEAN) /\ Len(buttons') = Len(buttons)
           /\ index # 1 => \A i \in 2 .. Len(obsRoles) : buttons[i] = obsRoles[i].isSelected
                              => buttons'[i] = obsRoles'[i].isSelected
           /\ pending' = TRUE
           /\ allTapped' \in BOOLEAN /\ (~allTapped' => index # 1 /\ ~allTapped)
           /\ UNCHANGED << screen, saved >>
<1> DEFINE n == Len(obsRoles)
           flag == ~buttons[index]
<1>1. /\ obsRoles \in Seq(RoleFilter) /\ n \in Nat /\ n >= 1 /\ DOMAIN obsRoles = 1 .. n
      /\ buttons \in Seq(BOOLEAN) /\ DOMAIN buttons = 1 .. n /\ Len(buttons) = n
      /\ index \in 1 .. n /\ pending \in BOOLEAN /\ allTapped \in BOOLEAN
  BY DEF TypeOK
<1>2. flag \in BOOLEAN
  OBVIOUS
<1>3. /\ buttons' = [buttons EXCEPT ![index] = flag]
      /\ obsRoles' = IF index = 1 THEN SetAll(obsRoles, flag) ELSE SetOne(obsRoles, index, flag)
      /\ UNCHANGED << screen, saved >>
  <2>1. buttons' = [buttons EXCEPT ![index] = flag]
    BY DEF ButtonTapped
  <2>2. buttons'[index] = flag
    BY <1>1, <2>1
  <2>3. ~(index > n)
    BY <1>1
  <2> HIDE DEF flag
  <2> QED
    BY <2>1, <2>2, <2>3 DEF ButtonTapped, DidRoleButtonTapped
<1>4. pending' = TRUE
  <2>1. pending' = (pending \/ index <= n) /\ index <= n
    BY <1>1 DEF ButtonTapped, DidRoleButtonTapped
  <2> QED
    BY <2>1
<1>5. allTapped' \in BOOLEAN /\ (~allTapped' => index # 1 /\ ~allTapped)
  BY <1>1 DEF ButtonTapped
<1> HIDE DEF flag
<1>6. /\ buttons' \in Seq(BOOLEAN) /\ Len(buttons') = n
      /\ \A i \in 1 .. n : buttons'[i] = IF i = index THEN flag ELSE buttons[i]
  BY <1>1, <1>2, <1>3
<1>7. CASE index = 1
  <2>1. /\ obsRoles' \in Seq(RoleFilter) /\ Len(obsRoles') = n /\ DOMAIN obsRoles' = DOMAIN obsRoles
        /\ \A i \in 1 .. n : obsRoles'[i].name = obsRoles[i].name /\ obsRoles'[i].isSelected = flag
    <3> DEFINE all == SetAll(obsRoles, flag)
    <3>1. /\ all \in Seq(RoleFilter) /\ Len(all) = Len(obsRoles) /\ DOMAIN all = DOMAIN obsRoles
          /\ \A i \in DOMAIN obsRoles : all[i].name = obsRoles[i].name /\ all[i].isSelected = flag
      BY <1>1, <1>2, SetAllIs
    <3>2. obsRoles' = all
      BY <1>3, <1>7
    <3> HIDE DEF all
    <3> QED
      BY <1>1, <3>1, <3>2
  <2>3. Names(obsRoles') = Names(obsRoles)
    BY <1>1, <2>1 DEF Names
  <2>4. AllCoherent'
    BY <1>1, <2>1 DEF AllCoherent
  <2> QED
    BY <1>1, <1>3, <1>4, <1>5, <1>6, <1>7, <2>1, <2>3, <2>4
<1>8. CASE index # 1
  <2>1. obsRoles' = SetOne(obsRoles, index, flag)
    BY <1>1, <1>3, <1>8
  <2>2. /\ obsRoles' \in Seq(RoleFilter) /\ Len(obsRoles') = n
        /\ DOMAIN obsRoles' = DOMAIN obsRoles
        /\ \A i \in DOMAIN obsRoles : obsRoles'[i].name = obsRoles[i].name
        /\ obsRoles'[index].isSelected = flag
        /\ \A i \in 2 .. n : i # index => obsRoles'[i].isSelected = obsRoles[i].isSelected
        /\ obsRoles'[1].isSelected => \A i \in 2 .. n : obsRoles'[i].isSelected
    <3> DEFINE one == SetOne(obsRoles, index, flag)
    <3>1. /\ one \in Seq(RoleFilter) /\ Len(one) = Len(obsRoles) /\ DOMAIN one = DOMAIN obsRoles
          /\ \A i \in DOMAIN obsRoles : one[i].name = obsRoles[i].name
          /\ one[index].isSelected = flag
          /\ \A i \in 2 .. Len(obsRoles) : i # index => one[i].isSelected = obsRoles[i].isSelected
          /\ one[1].isSelected => \A i \in 2 .. Len(obsRoles) : one[i].isSelected
      <4>1. obsRoles \in Seq(RoleFilter) /\ index \in DOMAIN obsRoles /\ index # 1 /\ flag \in BOOLEAN
        BY <1>1, <1>2, <1>8
      <4> QED
        BY ONLY <4>1, SetOneIs
    <3>2. obsRoles' = one
      BY <2>1
    <3> HIDE DEF one
    <3> QED
      BY <3>1, <3>2
  <2>3. Names(obsRoles') = Names(obsRoles)
    BY <2>2 DEF Names
  <2>4. AllCoherent'
    BY <2>2 DEF AllCoherent
  <2>5. ASSUME NEW i \in 2 .. n, buttons[i] = obsRoles[i].isSelected
        PROVE  buttons'[i] = obsRoles'[i].isSelected
    BY <1>1, <1>6, <2>2, <2>5
  <2> QED
    BY <1>1, <1>3, <1>4, <1>5, <1>6, <2>2, <2>3, <2>4, <2>5
<1> QED
  BY <1>7, <1>8

(* The invariant every step of the screen keeps.                           *)
ScreenInv == TypeOK /\ AllCoherent /\ ButtonsShowRoles

LEMMA ScreenInitInv == Init => ScreenInv
<1> SUFFICES ASSUME Init
             PROVE  ScreenInv
  OBVIOUS
<1>1. /\ obsRoles \in Seq(RoleFilter) /\ Len(obsRoles) >= 1
      /\ obsRoles[1].isSelected => \A i \in 2 .. Len(obsRoles) : ~obsRoles[i].isSelected
  BY OpeningsAssumption DEF Init
<1>2. buttons = << >> /\ << >> \in Seq(BOOLEAN) /\ << >> \in Seq(RoleFilter) /\ Len(<< >>) = 0
  BY DEF Init
<1>3. /\ pending \in BOOLEAN /\ allTapped \in BOOLEAN
      /\ screen \in {"open", "alert", "dismissed"} /\ saved \in Seq(RoleFilter)
  BY <1>2 DEF Init
<1>4. TypeOK
  BY <1>1, <1>2, <1>3 DEF TypeOK
<1>5. AllCoherent /\ ButtonsShowRoles
  BY <1>1, <1>2 DEF AllCoherent, ButtonsShowRoles
<1> QED
  BY <1>4, <1>5 DEF ScreenInv

LEMMA ScreenNextInv ==
    ASSUME ScreenInv, [Next]_vars
    PROVE  ScreenInv'
<1>1. CASE Redraw
  <2>1. /\ buttons' = Flags(obsRoles) /\ pending' = FALSE /\ allTapped' = FALSE
        /\ UNCHANGED << obsRoles, screen, saved >>
    BY <1>1 DEF Redraw
  <2>2. /\ Flags(obsRoles) \in Seq(BOOLEAN) /\ Len(Flags(obsRoles)) = Len(obsRoles)
        /\ \A i \in DOMAIN obsRoles : Flags(obsRoles)[i] = obsRoles[i].isSelected
    BY FlagTypes DEF ScreenInv, TypeOK
  <2>3. TypeOK'
    BY <2>1, <2>2 DEF ScreenInv, TypeOK
  <2>4. AllCoherent'
    BY <2>1 DEF ScreenInv, AllCoherent
  <2>5. ButtonsShowRoles'
    <3>1. Flags(obsRoles)' = Flags(obsRoles)
      BY <2>1 DEF Flags
    <3>2. 2 .. Len(obsRoles) \subseteq DOMAIN obsRoles
      BY DEF ScreenInv, TypeOK
    <3> QED
      BY <2>1, <2>2, <3>1, <3>2 DEF ButtonsShowRoles
  <2> QED
    BY <2>3, <2>4, <2>5 DEF ScreenInv
<1>2. ASSUME NEW index \in DOMAIN buttons, ButtonTapped(index)
      PROVE  ScreenInv'
  <2>1. /\ obsRoles' \in Seq(RoleFilter) /\ Len(obsRoles') = Len(obsRoles)
        /\ AllCoherent'
        /\ buttons' \in Seq(BOOLEAN) /\ Len(buttons') = Len(buttons)
        /\ index # 1 => \A i \in 2 .. Len(obsRoles) : buttons[i] = obsRoles[i].isSelected
                           => buttons'[i] = obsRoles'[i].isSelected
        /\ pending' = TRUE
        /\ allTapped' \in BOOLEAN /\ (~allTapped' => index # 1 /\ ~allTapped)
        /\ UNCHANGED << screen, saved >>
    BY <1>2, TapIs DEF ScreenInv
  <2>2. TypeOK'
    BY <2>1 DEF ScreenInv, TypeOK
  <2>3. ButtonsShowRoles'
    <3>1. buttons # << >>
      BY <1>2
    <3> QED
      BY <2>1, <3>1 DEF ScreenInv, ButtonsShowRoles
  <2> QED
    BY <2>1, <2>2, <2>3 DEF ScreenInv
<1>3. CASE SaveButtonTapped
  <2>1. UNCHANGED << obsRoles, buttons, pending, allTapped >>
    BY <1>3 DEF SaveButtonTapped
  <2>2. screen' \in {"open", "alert", "dismissed"} /\ saved' \in Seq(RoleFilter)
    BY <1>3, SelectedFiltersElements DEF SaveButtonTapped, ScreenInv, TypeOK
  <2>3. TypeOK'
    BY <2>1, <2>2 DEF ScreenInv, TypeOK
  <2>4. AllCoherent' /\ ButtonsShowRoles'
    BY <2>1 DEF ScreenInv, AllCoherent, ButtonsShowRoles, Flags
  <2> QED
    BY <2>3, <2>4 DEF ScreenInv
<1>4. CASE AlertClosed \/ CloseButtonTapped \/ UNCHANGED vars
  <2>1. /\ UNCHANGED << obsRoles, buttons, pending, allTapped, saved >>
        /\ screen' \in {"open", "alert", "dismissed"}
    BY <1>4 DEF AlertClosed, CloseButtonTapped, vars, ScreenInv, TypeOK
  <2>2. TypeOK'
    BY <2>1 DEF ScreenInv, TypeOK
  <2>3. AllCoherent' /\ ButtonsShowRoles'
    BY <2>1 DEF ScreenInv, AllCoherent, ButtonsShowRoles, Flags
  <2> QED
    BY <2>2, <2>3 DEF ScreenInv
<1> QED
  BY <1>1, <1>2, <1>3, <1>4 DEF Next

LEMMA ScreenInvariant == Spec => []ScreenInv
  BY ScreenInitInv, ScreenNextInv, PTL DEF Spec

(* "All" is never selected along with some of the other roles only.        *)
THEOREM AllStaysCoherent == Spec => []AllCoherent
<1>1. ScreenInv => AllCoherent
  BY DEF ScreenInv
<1> QED
  BY <1>1, ScreenInvariant, PTL

(* The buttons show the roles, but for an update that is queued.           *)
THEOREM ButtonsFollowRoles == Spec => []ButtonsShowRoles
<1>1. ScreenInv => ButtonsShowRoles
  BY DEF ScreenInv
<1> QED
  BY <1>1, ScreenInvariant, PTL

(* The roles, the buttons and the screen keep their types.                 *)
THEOREM ScreenTypeCorrect == Spec => []TypeOK
<1>1. ScreenInv => TypeOK
  BY DEF ScreenInv
<1> QED
  BY <1>1, ScreenInvariant, PTL

----------------------------------------------------------------------------
(* The refinement *)

(* The selected filters of a list, when there are any, are a legal         *)
(* selection of its names.                                                 *)
LEMMA SelectedFiltersLegal ==
    ASSUME NEW roles \in Seq(RoleFilter), SelectedFilters(roles) # << >>
    PROVE  SelectedFilters(roles) \in LegalSelections(Names(roles))
<1> DEFINE names == Names(roles)
           flagged(I) == [i \in DOMAIN names |-> [name |-> names[i], isSelected |-> i \in I]]
           S == Selected(roles)
<1>1. DOMAIN names = DOMAIN roles /\ \A i \in DOMAIN roles : names[i] = roles[i].name
  BY DEF Names
<1>2. S \in SUBSET DOMAIN names
  BY <1>1 DEF Selected
<1>3. S # {}
  <2>1. SelectedFilters(roles) \in Seq(RoleFilter)
    BY SelectedFiltersElements
  <2>2. 1 \in DOMAIN SelectedFilters(roles)
    BY <2>1
  <2>3. /\ \A i \in DOMAIN SelectedFilters(roles) : SelectedFilters(roles)[i].isSelected
        /\ \A i \in DOMAIN SelectedFilters(roles) : \E k \in DOMAIN roles : SelectedFilters(roles)[i] = roles[k]
    BY SelectedFiltersElements
  <2>4. \E k \in DOMAIN roles : roles[k].isSelected
    BY <2>2, <2>3
  <2> QED
    BY <2>4 DEF Selected
<1>4. flagged(S) = roles
  <2>1. ASSUME NEW i \in DOMAIN roles
        PROVE  [name |-> roles[i].name, isSelected |-> i \in S] = roles[i]
    <3>1. roles[i] \in [name : Roles, isSelected : BOOLEAN]
      BY RoleAt
    <3>2. (i \in S) = roles[i].isSelected
      BY <3>1 DEF Selected
    <3> HIDE DEF S
    <3> QED
      BY <3>1, <3>2
  <2>2. roles = [i \in DOMAIN roles |-> roles[i]]
    OBVIOUS
  <2> HIDE DEF S
  <2> QED
    BY <1>1, <2>1, <2>2
<1>5. SelectedFilters(flagged(S)) \in LegalSelections(names)
  <2> HIDE DEF S, names
  <2> QED
    BY <1>2, <1>3 DEF LegalSelections
<1> QED
  BY <1>4, <1>5

(* The dialog's operators are those of the same catalogue.                 *)
LEMMA DialogOperators ==
    /\ \A filters : Dialog!Names(filters) = Names(filters)
    /\ \A names : Dialog!LegalSelections(names) = LegalSelections(names)
<1>1. \A filters : Dialog!Names(filters) = Names(filters)
  BY DEF Dialog!Names, Names
<1>2. \A filters : Dialog!Selected(filters) = Selected(filters)
  BY DEF Dialog!Selected, Selected
<1>3. \A s, I : Dialog!KeepAt(s, I) = KeepAt(s, I)
  BY DEF Dialog!KeepAt, KeepAt
<1>4. \A roles : Dialog!SelectedFilters(roles) = SelectedFilters(roles)
  BY <1>2, <1>3 DEF Dialog!SelectedFilters, SelectedFilters
<1>5. \A names : Dialog!LegalSelections(names) = LegalSelections(names)
  BY <1>4 DEF Dialog!LegalSelections, LegalSelections
<1> QED
  BY <1>1, <1>5

(* A tap is no step of the dialog; saving and closing are its two steps.   *)
LEMMA DialogStep ==
    ASSUME ScreenInv, [Next]_vars
    PROVE  [Dialog!Next]_(Dialog!dialogVars)
<1>1. CASE Redraw \/ AlertClosed \/ UNCHANGED vars
  <2>1. /\ UNCHANGED << obsRoles, saved >>
        /\ (screen # "dismissed") <=> (screen' # "dismissed")
    BY <1>1 DEF Redraw, AlertClosed, vars
  <2> QED
    BY <2>1 DEF Dialog!dialogVars, Names
<1>2. ASSUME NEW index \in DOMAIN buttons, ButtonTapped(index)
      PROVE  UNCHANGED Dialog!dialogVars
  <2>1. Names(obsRoles') = Names(obsRoles) /\ UNCHANGED << screen, saved >>
    BY <1>2, TapIs DEF ScreenInv
  <2> QED
    BY <2>1 DEF Dialog!dialogVars, Names
<1>3. CASE SaveButtonTapped
  <2>1. CASE Len(SelectedFilters(obsRoles)) > 0
    <3>1. /\ screen = "open" /\ screen' = "dismissed"
          /\ saved' = SelectedFilters(obsRoles) /\ obsRoles' = obsRoles
      BY <1>3, <2>1 DEF SaveButtonTapped
    <3>2. SelectedFilters(obsRoles) # << >>
      BY <2>1
    <3>3. saved' \in LegalSelections(Names(obsRoles))
      BY <3>1, <3>2, SelectedFiltersLegal DEF ScreenInv, TypeOK
    <3>4. (screen # "dismissed") /\ (screen' # "dismissed") = FALSE
      BY <3>1
    <3>5. Names(obsRoles)' = Names(obsRoles)
      BY <3>1 DEF Names
    <3>6. Dialog!Save
      BY <3>3, <3>4, <3>5, DialogOperators DEF Dialog!Save
    <3> QED
      BY <3>6 DEF Dialog!Next
  <2>2. CASE ~(Len(SelectedFilters(obsRoles)) > 0)
    <3>1. screen = "open" /\ screen' = "alert" /\ UNCHANGED << obsRoles, saved >>
      BY <1>3, <2>2 DEF SaveButtonTapped
    <3> QED
      BY <3>1 DEF Dialog!dialogVars, Names
  <2> QED
    BY <2>1, <2>2
<1>4. CASE CloseButtonTapped
  <2>1. screen = "open" /\ screen' = "dismissed" /\ UNCHANGED << obsRoles, saved >>
    BY <1>4 DEF CloseButtonTapped
  <2>2. Dialog!Close
    BY <2>1 DEF Dialog!Close, Names
  <2> QED
    BY <2>2 DEF Dialog!Next
<1> QED
  BY <1>1, <1>2, <1>3, <1>4 DEF Next

(* The filter screen is the dialog the hero list relies on: it hands back  *)
(* one legal selection of the names it was opened with, or nothing.        *)
THEOREM ScreenImplementsDialog == Spec => ImplementsDialog
<1>1. Init => Dialog!Init
  <2> SUFFICES ASSUME Init
               PROVE  Dialog!Init
    OBVIOUS
  <2>1. (screen # "dismissed") = TRUE
    BY DEF Init
  <2>2. \E roles \in Openings : Names(obsRoles) = Names(roles)
    BY DEF Init
  <2>3. saved = << >>
    BY DEF Init
  <2> QED
    BY <2>1, <2>2, <2>3, DialogOperators DEF Dialog!Init
<1> QED
  BY <1>1, ScreenInvariant, DialogStep, PTL DEF Spec, ImplementsDialog, Dialog!Spec
============================================================================
