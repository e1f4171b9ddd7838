---------------------------- MODULE MCValkeyAdapter ----------------------------
(* Values of ValkeyAdapter's constants for TLC. *)
EXTENDS ValkeyAdapter, TLC
CONSTANTS c1, c2, ann, x, y

(* All rows, those of a parent, the one with an email, and both at once. *)
SomeWheres == {{IdsKey}, {<<"owner", ann>>}, {<<"owner", Nobody>>, <<"email", y>>}}
AnnsRow == {[owner |-> ann, email |-> x]}
SomePatches == {[owner |-> Nobody], [email |-> y]}
Symmetry == Permutations(Clients)
===============================================================================
