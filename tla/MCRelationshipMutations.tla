------------------------ MODULE MCRelationshipMutations ------------------------
(* Values of RelationshipMutations' constants for TLC. *)
EXTENDS RelationshipMutations, TLC
CONSTANTS s1, s2, t1, t2, t3, x, y

(* One verb with a filter for some rows or for all, or two verbs in a row. *)
Some(v) ==
  CASE v = "create" -> [where |-> {}, to |-> x]
    [] v = "update" -> [where |-> {x}, to |-> y]
    [] OTHER -> [where |-> {x}, to |-> Nothing]
All(v) == [Some(v) EXCEPT !.where = {x, y}]
Empty(v) == [Some(v) EXCEPT !.to = Nothing]

SomeInputs ==
  {[v \in V |-> Some(v)] : V \in {W \in SUBSET Verbs : Cardinality(W) \in 1..2}} \cup
  {[v \in {w} |-> All(v)] : w \in Verbs} \cup
  {[v \in {w} |-> Empty(v)] : w \in {"create", "update"}}

Symmetry == {p @@ q : p \in Permutations(Sources), q \in Permutations(Targets)}
===============================================================================
