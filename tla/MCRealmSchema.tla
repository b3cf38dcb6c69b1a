--------------------------- MODULE MCRealmSchema ---------------------------
(* Two Realms of the program and one of its extension.  In version 1 there *)
(* are tables T and U.  In version 2 one of the configurations has another *)
(* column in U; the other does without U, and where T is there it raises   *)
(* the version alone.                                                      *)
EXTENDS RealmSchema, TLC

CONSTANTS First, Second, Extension

MCProcess == [a \in Accessors |-> IF a = Extension THEN "extension" ELSE "app"]
Ta == << "T", "a" >>
Ua == << "U", "a" >>
Ub == << "U", "b" >>
MCFields == {Ta, Ua, Ub}
MCTargets == {[version |-> 1, schema |-> {Ta, Ua}],
              [version |-> 2, schema |-> {Ub}],
              [version |-> 2, schema |-> {Ta}]}
MCSymmetry == Permutations({First, Second})
MCContents == [version : {0, 1, 2}, schema : SUBSET MCFields]
=============================================================================
