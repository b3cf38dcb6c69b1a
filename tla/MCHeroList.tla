----------------------------- MODULE MCHeroList -----------------------------
(***************************************************************************)
(* HeroList on three versions of a small catalogue: the second drops one   *)
(* hero, gives another hero other roles and brings a third role in, so     *)
(* that a filter saved after the change can name roles nobody has; the     *)
(* third is empty.                                                         *)
(***************************************************************************)
EXTENDS HeroList

Hero(id, rev, roles) == [id |-> id, rev |-> rev, roles |-> roles]

MCRoleOrder == << "All", "Carry", "Nuker", "Pusher" >>

MCCatalogues ==
    << << Hero(1, 1, << "Carry" >>), Hero(2, 1, << "Nuker", "Carry" >>) >>,
       << Hero(2, 2, << "Pusher", "Nuker" >>) >>,
       << >> >>

MCHeroes == UNION {ToSet(MCCatalogues[v]) : v \in DOMAIN MCCatalogues}
============================================================================
