--------------------------- MODULE SimilarHeroes ---------------------------
(***************************************************************************)
(* Tapping a hero of the grid: the cell passes the hero it was drawn with, *)
(* the interactor looks for similar ones among the heroes it holds by now, *)
(* and both go to the detail screen.                                       *)
(***************************************************************************)
EXTENDS HeroCatalog, Integers

CONSTANT Grids  \* the lists of heroes a response, the store or a filter may show

ASSUME GridsAssumption == Grids \subseteq Seq(Heroes)

VARIABLES
    obsHeroes,  \* HeroListInteractor.obsHeroes
    items,      \* GridCollectionViewCell.items
    detail      \* the hero and the similar ones on the detail screen, or << >>

detailVars == << obsHeroes, items, detail >>

Limit == 3

(* The heroes left by the filter on id and attribute.                      *)
SameAttr(heroes, hero) ==
    KeepAt(heroes, {i \in DOMAIN heroes : /\ heroes[i].id # hero.id
                                          /\ heroes[i].primaryAttr = hero.primaryAttr})

(* ... and by one filter for each of the first n roles of the hero.        *)
WithRoles(heroes, hero, n) ==
    LET left[k \in 0 .. n] ==
            IF k = 0 THEN SameAttr(heroes, hero)
            ELSE KeepAt(left[k - 1],
                        {i \in DOMAIN left[k - 1] : HasRole(left[k - 1][i], hero.roles[k])})
    IN  left[n]

(* Candidates with a plausible bug: only the first role counts.  Used by   *)
(* no specification, only to show that the property can fail.              *)
CandidatesByFirstRole(heroes, hero) ==
    WithRoles(heroes, hero, IF hero.roles = << >> THEN 0 ELSE 1)

Candidates(heroes, hero) == WithRoles(heroes, hero, Len(hero.roles))

(* What heroes of this attribute are ranked by.                            *)
Rank(h) ==
    IF h.primaryAttr = "agi" THEN h.moveSpeed
    ELSE IF h.primaryAttr = "str" THEN h.baseAttackMax
    ELSE h.baseMana

ASSUME RankAssumption == \A hero \in Heroes : Rank(hero) \in Int

(* Swift's sort promises no order between heroes of equal rank.            *)
SortedByRank(heroes) ==
    {sorted \in {[i \in DOMAIN heroes |-> heroes[p[i]]] :
                    p \in Bijection(DOMAIN heroes, DOMAIN heroes)} :
        \A i \in 1 .. Len(sorted) - 1 : Rank(sorted[i]) >= Rank(sorted[i + 1])}

SimilarHeroes(heroes, hero) ==
    {IF Len(sorted) > Limit THEN SubSeq(sorted, 1, Limit) ELSE sorted :
        sorted \in SortedByRank(Candidates(heroes, hero))}

DetailInit ==
    /\ obsHeroes \in Grids
    /\ items = << >>
    /\ detail = << >>

(* A response, a reload from the store or a saved filter.                  *)
Refill ==
    /\ obsHeroes' \in Grids \ {obsHeroes}
    /\ UNCHANGED << items, detail >>

(* The list adapter's queued update gives the cell the heroes of now.      *)
RedrawGrid ==
    /\ items # obsHeroes
    /\ items' = obsHeroes
    /\ UNCHANGED << obsHeroes, detail >>

DidHeroTapped ==
    /\ detail = << >>
    /\ \E i \in DOMAIN items :
          \E similar \in SimilarHeroes(obsHeroes, items[i]) :
              detail' = << items[i], similar >>
    /\ UNCHANGED << obsHeroes, items >>

Back ==
    /\ detail # << >>
    /\ detail' = << >>
    /\ UNCHANGED << obsHeroes, items >>

DetailNext == Refill \/ RedrawGrid \/ DidHeroTapped \/ Back

DetailSpec == DetailInit /\ [][DetailNext]_detailVars
----------------------------------------------------------------------------
(* A hero is similar to another one if it is not the same one, has its     *)
(* attribute and plays at least its roles.                                 *)
IsSimilar(h, hero) ==
    /\ h.id # hero.id
    /\ h.primaryAttr = hero.primaryAttr
    /\ ToSet(hero.roles) \subseteq ToSet(h.roles)

(* The detail screen shows the best similar heroes there are when the hero *)
(* is tapped: only similar ones, best first, three of them if there are    *)
(* three, none left out that ranks above one shown - for a hero that may   *)
(* no longer be in the list, and in a list that may hold a hero twice.     *)
ShowsBestSimilarHeroes ==
    [][detail' # << >> /\ detail' # detail =>
          LET hero == detail'[1]
              shown == detail'[2]
              similar == {i \in DOMAIN obsHeroes : IsSimilar(obsHeroes[i], hero)}
              places(h) == Cardinality({i \in similar : obsHeroes[i] = h})
          IN  /\ Len(shown) = IF Cardinality(similar) > Limit THEN Limit ELSE Cardinality(similar)
              /\ \A i \in DOMAIN shown :
                    Cardinality({j \in DOMAIN shown : shown[j] = shown[i]}) <= places(shown[i])
              /\ \A i \in 1 .. Len(shown) - 1 : Rank(shown[i]) >= Rank(shown[i + 1])
              /\ \A i \in similar : \/ Contains(shown, obsHeroes[i])
                                    \/ \A j \in DOMAIN shown : Rank(shown[j]) >= Rank(obsHeroes[i])]_detailVars
============================================================================
