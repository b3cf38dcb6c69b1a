---------------------------- MODULE HeroCatalog ----------------------------
(***************************************************************************)
(* The values HeroQ works with and the pure functions its interactors      *)
(* apply to them: Hero, RoleFilter, getRoles, filterHeroes' union and      *)
(* getSelectedFilters.                                                     *)
(*                                                                         *)
(* A hero is a record with (at least) an id and a sequence of role names.  *)
(* A role filter keeps its name and isSelected; its id is abstracted,      *)
(* because the code only ever asks whether the id is 0, and getRoles gives *)
(* id 0 to the filter named "All" and to no other one.                     *)
(***************************************************************************)
EXTENDS Naturals, FiniteSets, Sequences, SequencesExt

CONSTANTS
    Heroes,     \* the heroes the API may ever serve
    All,        \* the name of the filter that selects every hero
    RoleOrder   \* every role name, All included, in alphabetical order

(* The names the API serves all sort after "All", and the code relies on   *)
(* it: position 0 of the sorted list is taken to be the "All" filter.      *)
ASSUME RoleOrderAssumption ==
    /\ RoleOrder \in Seq(ToSet(RoleOrder))
    /\ RoleOrder # << >>
    /\ RoleOrder[1] = All
    /\ \A i, j \in DOMAIN RoleOrder : RoleOrder[i] = RoleOrder[j] => i = j

Roles == ToSet(RoleOrder)

ASSUME HeroesAssumption == \A hero \in Heroes : hero.roles \in Seq(Roles)

RoleFilter == [name : Roles, isSelected : BOOLEAN]

(* The elements of s at the positions in I, in order: what Swift's filter  *)
(* leaves of an array.                                                     *)
KeepAt(s, I) ==
    LET kept[k \in 0 .. Len(s)] ==
            IF k = 0 THEN << >>
            ELSE IF k \in I THEN Append(kept[k - 1], s[k])
            ELSE kept[k - 1]
    IN  kept[Len(s)]

HasRole(hero, name) == name \in ToSet(hero.roles)

(* The heroes of each role in turn, appended, then made unique by id.      *)
(* Place k of the concatenation is hero (k-1) mod n under role             *)
(* (k-1) div n; it stays if the hero has that role and no earlier place    *)
(* that stays holds the same id.                                           *)
UnionOfRoles(heroes, filters) ==
    LET n == Len(heroes)
        places == 1 .. Len(filters) * n
        hero(k) == heroes[((k - 1) % n) + 1]
        role(k) == filters[((k - 1) \div n) + 1]
        found == {k \in places : HasRole(hero(k), role(k).name)}
    IN  KeepAt([k \in places |-> hero(k)],
               {k \in found : \A j \in found : hero(j).id = hero(k).id => k <= j})

IsAllSelected(filters) == filters[1].name = All /\ filters[1].isSelected

(* What filterHeroes puts on the grid for a non-empty selection.           *)
FilterResult(heroes, filters) ==
    IF IsAllSelected(filters) THEN heroes ELSE UnionOfRoles(heroes, filters)

(* The names getRoles offers: "All" and every role of some hero, sorted.   *)
OfferedNames(heroes) ==
    KeepAt(RoleOrder,
           {k \in DOMAIN RoleOrder :
               \/ RoleOrder[k] = All
               \/ \E i \in DOMAIN heroes : HasRole(heroes[i], RoleOrder[k])})

(* getRoles with a plausible bug: the first role is always selected.  Used *)
(* by no specification, only to show that a property can fail.             *)
GetRolesFirstSelected(heroes, active) ==
    LET names == OfferedNames(heroes)
        isActive(name) == \E j \in DOMAIN active : active[j].name = name /\ active[j].isSelected
    IN  [i \in DOMAIN names |-> [name |-> names[i], isSelected |-> i = 1 \/ isActive(names[i])]]

(* getRoles: the offered names, those of the active filters selected; with *)
(* no active filter the first one is.                                      *)
GetRoles(heroes, active) ==
    LET names == OfferedNames(heroes)
        isActive(name) == \E j \in DOMAIN active : active[j].name = name /\ active[j].isSelected
    IN  [i \in DOMAIN names |->
            [name |-> names[i],
             isSelected |-> IF active = << >> THEN i = 1 ELSE isActive(names[i])]]

Selected(filters) == {i \in DOMAIN filters : filters[i].isSelected}

(* getSelectedFilters: "All" alone when it is selected, otherwise the      *)
(* selected filters in list order.                                         *)
SelectedFilters(roles) ==
    IF roles = << >> THEN << >>
    ELSE IF roles[1].isSelected THEN << roles[1] >>
    ELSE KeepAt(roles, Selected(roles))

Names(filters) == [i \in DOMAIN filters |-> filters[i].name]

(* What a filter screen offering `names` can hand back: the flags are the  *)
(* user's, and at least one of them is set.                                *)
LegalSelections(names) ==
    LET flagged(I) == [i \in DOMAIN names |-> [name |-> names[i], isSelected |-> i \in I]]
    IN  {SelectedFilters(flagged(I)) : I \in (SUBSET DOMAIN names) \ {{}}}
============================================================================
