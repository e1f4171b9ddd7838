------------------------- MODULE MCOrmizeTransaction -------------------------
(* Values of OrmizeTransaction's constants for TLC. *)
EXTENDS OrmizeTransaction, TLC

CONSTANTS sql, kv, rest, b1, b2

Body(first, second) == [work |-> (b1 :> first) @@ (b2 :> second), awaits |-> {b1, b2}]

(* The second branch is called and not awaited. *)
LetGo(first, second) == [Body(first, second) EXCEPT !.awaits = {b1}]

(* Two concurrent mutations on the same adapters. *)
SameAdapters == {Body({sql, kv}, {sql, kv})}

(* And a body that awaits every mutation, over three adapters; one of the  *)
(* two branches beside an adapter without transactions; and bodies that    *)
(* let a mutation go, on an adapter they work on themselves.               *)
Bodies == SameAdapters \cup
  {Body({sql, kv, rest}, {}), Body({rest, sql}, {kv}), LetGo({sql, kv}, {sql})}
===============================================================================
