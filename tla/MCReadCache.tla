------------------------------ MODULE MCReadCache ------------------------------
(* Values of ReadCache's constants for TLC. *)
EXTENDS ReadCache, TLC

CONSTANTS r1, r2, w1, w2, Post, Tag, postsWithTags

(* findAll of Post with its tags eager-loaded. *)
PostTags == [s \in Shapes |-> {Post, Tag}]

(* A mutation of Tag inside a coordinated unit of work and one of Post outside. *)
TagAndPost == (w1 :> {Tag}) @@ (w2 :> {Post})
UnitAndPlain == (w1 :> "unit") @@ (w2 :> "plain")
===============================================================================
