--------------------------- MODULE FrontDoorsProofs ---------------------------
(***************************************************************************)
(* Proofs about FrontDoors, for any bag, models, options and requests of   *)
(* any door: whatever fails, crashes, times out and runs again, nothing is *)
(* written or shown past the gates, and a caller is told what happened.    *)
(* And about the lists that are read through them (Pages, as OpaqueValues  *)
(* has it), for any rows, sizes and requests: a page says the truth, and a *)
(* client that goes on from page to page sees every row once.              *)
(***************************************************************************)
EXTENDS FrontDoors, OpaqueValues, FiniteSetTheorems, SequenceTheorems, WellFoundedInduction, TLAPS

-------------------------------------------------------------------------------
(* The verdict of a list of guards *)

Errors == {"read-only", "not found", "forbidden", "denied-field", "unscoped-mutation",
           "validation", "context"}
GuardSet == [passes : BOOLEAN, error : Errors]
Passing(guards) == \A i \in DOMAIN guards : guards[i].passes

(* Every set of numbers with a member has a least one.                     *)
LEMMA LeastMember ==
  ASSUME NEW S \in SUBSET Nat, S # {}
  PROVE  \E n \in S : \A k \in S : ~ (k < n)
<1> DEFINE R == {p \in Nat \X Nat : p[1] < p[2]}
<1>1. OpToRel(<, Nat) = R BY Zenon DEF OpToRel
<1>2. IsWellFoundedOn(R, Nat) BY <1>1, NatLessThanWellFounded, Zenon
<1> HIDE DEF R
<1>3. PICK n \in S : \A k \in S : <<k, n>> \notin R BY <1>2, WFMin
<1>4. \A k \in S : k < n => <<k, n>> \in R BY DEF R
<1> QED BY <1>3, <1>4

(* A call is let through exactly when every guard passes: there is a first *)
(* guard to fail otherwise, and its error is what the caller is told.      *)
LEMMA VerdictOfGuards ==
  ASSUME NEW guards \in Seq(GuardSet)
  PROVE  /\ Verdict(guards) \in Errors \cup {"ok"}
         /\ Verdict(guards) = "ok" => Passing(guards)
<1>1. "ok" \notin Errors BY DEF Errors
<1>2. CASE Passing(guards) BY <1>2 DEF Passing, Verdict
<1>3. CASE ~ Passing(guards)
  <2> DEFINE S == {i \in DOMAIN guards : ~ guards[i].passes}
             First(i) == ~ guards[i].passes /\ \A j \in 1 .. i - 1 : guards[j].passes
  <2>1. S \in SUBSET Nat /\ S # {} /\ DOMAIN guards = 1 .. Len(guards) BY <1>3 DEF Passing
  <2>2. PICK i \in S : \A j \in S : ~ (j < i) BY <2>1, LeastMember
  <2>3. i \in DOMAIN guards /\ First(i) BY <2>1, <2>2
  <2>4. \A k \in DOMAIN guards : guards[k].error \in Errors
    <3>1. \A k \in DOMAIN guards : guards[k] \in GuardSet OBVIOUS
    <3>2. \A g \in GuardSet : g.error \in Errors BY DEF GuardSet
    <3> QED BY <3>1, <3>2
  <2>5. Verdict(guards) = guards[CHOOSE k \in DOMAIN guards : First(k)].error
    BY <1>3 DEF Verdict, Passing
  <2> HIDE DEF First
  <2>6. (CHOOSE k \in DOMAIN guards : First(k)) \in DOMAIN guards BY <2>3, Zenon
  <2>7. Verdict(guards) \in Errors BY <2>4, <2>5, <2>6
  <2> QED BY <1>1, <2>7
<1> QED BY <1>2, <1>3

LEMMA PassingBoth ==
  ASSUME NEW g \in Seq(GuardSet), NEW h \in Seq(GuardSet)
  PROVE  g \o h \in Seq(GuardSet) /\ (Passing(g \o h) => Passing(g) /\ Passing(h))
<1>1. /\ g \o h \in Seq(GuardSet) /\ Len(g \o h) = Len(g) + Len(h)
      /\ \A i \in 1 .. Len(g) + Len(h) : (g \o h)[i] = IF i <= Len(g) THEN g[i] ELSE h[i - Len(g)]
  BY ConcatProperties
<1>2. ASSUME Passing(g \o h), NEW i \in 1 .. Len(g) PROVE g[i].passes
  BY <1>1, <1>2 DEF Passing
<1>3. ASSUME Passing(g \o h), NEW i \in 1 .. Len(h) PROVE h[i].passes
  <2>1. i + Len(g) \in 1 .. Len(g) + Len(h) /\ ~ (i + Len(g) <= Len(g)) /\ i + Len(g) - Len(g) = i
    OBVIOUS
  <2>2. (g \o h)[i + Len(g)] = h[i] BY <1>1, <2>1
  <2>3. i + Len(g) \in DOMAIN (g \o h) BY <1>1, <2>1
  <2> QED BY <1>3, <2>2, <2>3 DEF Passing
<1> QED BY <1>1, <1>2, <1>3 DEF Passing

-------------------------------------------------------------------------------
(* What the guards of a door let through *)

(* The deployment and the request are among those there may be.            *)
Fixed == \E c \in Cases : deployment = c[1] /\ request = c[2]

LEMMA Sent ==
  ASSUME Fixed
  PROVE  /\ deployment.door \in {"nestize", "temporalize"}
         /\ {deployment.readOnly, deployment.validate, deployment.classMethods,
             deployment.instanceMethods} \subseteq BOOLEAN
         /\ request.op \in IF deployment.door = "nestize" THEN Routes ELSE Activities
         /\ M \in Models
         /\ Absence \cap (Columns[M] \cup DOMAIN Relations[M]) = {}
BY FrontDoorsAssumption DEF Fixed, M

LEMMA GuardIsOne ==
  ASSUME NEW p \in BOOLEAN, NEW e \in Errors
  PROVE  Guard(p, e) \in GuardSet /\ (Guard(p, e).passes <=> p)
BY DEF Guard, GuardSet

LEMMA GuardsAreGuards ==
  ASSUME Fixed
  PROVE  /\ ModelKnown \in GuardSet /\ (ModelKnown.passes => IsModelAllowed(Bag, M))
         /\ MutationAllowed \in GuardSet
         /\ MutationAllowed.passes => IsMutationAllowed(Bag, M, Kind[request.op])
         /\ UmbrellaAllowed \in GuardSet /\ (UmbrellaAllowed.passes => IsAllowed(Bag["mutation"], M))
         /\ RelationKnown \in GuardSet
         /\ RelationKnown.passes =>
              /\ deployment.includeRelations /\ request.relation \in DOMAIN Relations[M]
              /\ IsRelationshipAllowed(Bag, M, request.relation)
         /\ ReadOnly \in GuardSet /\ (ReadOnly.passes => ~ deployment.readOnly)
         /\ Scoping \in GuardSet /\ (Scoping.passes => request.where.given \/ request.all)
         /\ Filter \in GuardSet
         /\ Filter.passes => \A f \in request.where.fields : IsFieldExposed(Ignored[M], Bag, M, f)
         /\ Order \in GuardSet
         /\ Order.passes => \A f \in request.order : IsFieldExposed(Ignored[M], Bag, M, f)
         /\ Paged \in GuardSet
         /\ Valid("create") \in GuardSet /\ Valid("update") \in GuardSet
         /\ Guard(deployment.classMethods, "not found") \in GuardSet
         /\ Guard(deployment.instanceMethods, "not found") \in GuardSet
<1>1. {"read-only", "not found", "forbidden", "denied-field", "unscoped-mutation", "validation",
       "context"} \subseteq Errors
  BY DEF Errors
<1>2. \A p, a : IsAllowed(p, a) \in BOOLEAN BY DEF IsAllowed
<1>3. ModelKnown \in GuardSet /\ (ModelKnown.passes => IsModelAllowed(Bag, M))
  BY <1>1, <1>2, GuardIsOne DEF ModelKnown, IsModelAllowed
<1>4. MutationAllowed \in GuardSet
      /\ (MutationAllowed.passes => IsMutationAllowed(Bag, M, Kind[request.op]))
  BY <1>1, <1>2, GuardIsOne DEF MutationAllowed, IsMutationAllowed
<1>5. UmbrellaAllowed \in GuardSet /\ (UmbrellaAllowed.passes => IsAllowed(Bag["mutation"], M))
  BY <1>1, <1>2, GuardIsOne DEF UmbrellaAllowed
<1>6. RelationKnown \in GuardSet
      /\ (RelationKnown.passes => /\ deployment.includeRelations /\ request.relation \in DOMAIN Relations[M]
                                  /\ IsRelationshipAllowed(Bag, M, request.relation))
  <2> DEFINE p == /\ deployment.includeRelations /\ request.relation \in DOMAIN Relations[M]
                  /\ IsRelationshipAllowed(Bag, M, request.relation)
  <2>1. p \in BOOLEAN OBVIOUS
  <2>2. RelationKnown = Guard(p, "not found") BY DEF RelationKnown
  <2> QED BY <1>1, <2>1, <2>2, GuardIsOne
<1>7. ReadOnly \in GuardSet /\ (ReadOnly.passes => ~ deployment.readOnly)
  <2>1. (~ deployment.readOnly) \in BOOLEAN OBVIOUS
  <2> QED BY <1>1, <2>1, GuardIsOne DEF ReadOnly, Writable
<1>8. Scoping \in GuardSet /\ (Scoping.passes => request.where.given \/ request.all)
  <2>1. (request.where.given \/ request.all) \in BOOLEAN OBVIOUS
  <2> QED BY <1>1, <2>1, GuardIsOne DEF Scoping, ScopedMutation
<1>9. Filter \in GuardSet
      /\ (Filter.passes => \A f \in request.where.fields : IsFieldExposed(Ignored[M], Bag, M, f))
  <2> DEFINE p == \A f \in request.where.fields : IsFieldExposed(Ignored[M], Bag, M, f)
  <2>1. p \in BOOLEAN OBVIOUS
  <2>2. Filter = Guard(p, "denied-field") BY DEF Filter, FilterAllowed
  <2> QED BY <1>1, <2>1, <2>2, GuardIsOne
<1>10. Order \in GuardSet
       /\ (Order.passes => \A f \in request.order : IsFieldExposed(Ignored[M], Bag, M, f))
  <2> DEFINE p == \A f \in request.order : IsFieldExposed(Ignored[M], Bag, M, f)
  <2>1. p \in BOOLEAN OBVIOUS
  <2>2. Order = Guard(p, "denied-field") BY DEF Order, OrderAllowed
  <2> QED BY <1>1, <2>1, <2>2, GuardIsOne
<1>11. Paged \in GuardSet
  <2>1. (request.limit > 0) \in BOOLEAN OBVIOUS
  <2> QED BY <1>1, <2>1, GuardIsOne DEF Paged
<1>12. \A k : Valid(k) \in GuardSet
  <2> TAKE k
  <2>1. ValidInput(Bag, M, k, request.input) \in BOOLEAN BY DEF ValidInput
  <2> QED BY <1>1, <2>1, GuardIsOne DEF Valid
<1>13. /\ Guard(deployment.classMethods, "not found") \in GuardSet
       /\ Guard(deployment.instanceMethods, "not found") \in GuardSet
  BY <1>1, Sent, GuardIsOne
<1> QED BY <1>3, <1>4, <1>5, <1>6, <1>7, <1>8, <1>9, <1>10, <1>11, <1>12, <1>13

LEMMA MethodGuard ==
  /\ MethodAllowed \in GuardSet
  /\ MethodAllowed.passes /\ request.op = "transform" =>
       IsMutationInstanceMethodAllowed(Bag, M, request.method)
  /\ MethodAllowed.passes /\ request.op = "classMutation" =>
       IsClassMethodAllowed(Bag, M, request.method, "mutations")
<1>1. "forbidden" \in Errors BY DEF Errors
<1>2. /\ IsMutationInstanceMethodAllowed(Bag, M, request.method) \in BOOLEAN
      /\ IsQueryInstanceMethodAllowed(Bag, M, request.method) \in BOOLEAN
      /\ \A target : IsClassMethodAllowed(Bag, M, request.method, target) \in BOOLEAN
  BY DEF IsMutationInstanceMethodAllowed, IsQueryInstanceMethodAllowed, IsClassMethodAllowed, IsAllowed
<1>3. CASE request.op \in {"classQuery", "classMutation"}
  <2>1. MethodAllowed = Guard(IsClassMethodAllowed(Bag, M, request.method, MethodTarget), "forbidden")
    BY <1>3 DEF MethodAllowed
  <2>2. request.op = "classMutation" => MethodTarget = "mutations" BY DEF MethodTarget
  <2> QED BY <1>1, <1>2, <1>3, <2>1, <2>2, GuardIsOne
<1>4. CASE request.op = "transform"
  <2>1. MethodAllowed = Guard(IsMutationInstanceMethodAllowed(Bag, M, request.method), "forbidden")
    BY <1>4 DEF MethodAllowed
  <2> QED BY <1>1, <1>2, <1>4, <2>1, GuardIsOne
<1>5. CASE request.op \notin {"classQuery", "classMutation", "transform"}
  <2>1. MethodAllowed = Guard(IsQueryInstanceMethodAllowed(Bag, M, request.method), "forbidden")
    BY <1>5 DEF MethodAllowed
  <2> QED BY <1>1, <1>2, <1>5, <2>1, GuardIsOne
<1> QED BY <1>3, <1>4, <1>5

(* What a list of guards is made of, and what its passing says.            *)
LEMMA Passing1 ==
  ASSUME NEW a \in GuardSet
  PROVE  /\ <<a>> \in Seq(GuardSet)
         /\ Passing(<<a>>) => a.passes
BY DEF Passing

LEMMA Passing2 ==
  ASSUME NEW a \in GuardSet, NEW b \in GuardSet
  PROVE  /\ <<a, b>> \in Seq(GuardSet)
         /\ Passing(<<a, b>>) => a.passes /\ b.passes
BY DEF Passing

LEMMA Passing3 ==
  ASSUME NEW a \in GuardSet, NEW b \in GuardSet, NEW c \in GuardSet
  PROVE  /\ <<a, b, c>> \in Seq(GuardSet)
         /\ Passing(<<a, b, c>>) => a.passes /\ b.passes /\ c.passes
BY DEF Passing

LEMMA Passing4 ==
  ASSUME NEW a \in GuardSet, NEW b \in GuardSet, NEW c \in GuardSet, NEW d \in GuardSet
  PROVE  /\ <<a, b, c, d>> \in Seq(GuardSet)
         /\ Passing(<<a, b, c, d>>) => a.passes /\ b.passes /\ c.passes /\ d.passes
BY DEF Passing

LEMMA Passing5 ==
  ASSUME NEW a \in GuardSet, NEW b \in GuardSet, NEW c \in GuardSet, NEW d \in GuardSet,
         NEW e \in GuardSet
  PROVE  /\ <<a, b, c, d, e>> \in Seq(GuardSet)
         /\ Passing(<<a, b, c, d, e>>) => a.passes /\ b.passes /\ c.passes /\ d.passes /\ e.passes
BY DEF Passing

LEMMA Passing7 ==
  ASSUME NEW a \in GuardSet, NEW b \in GuardSet, NEW c \in GuardSet, NEW d \in GuardSet,
         NEW e \in GuardSet, NEW f \in GuardSet, NEW g \in GuardSet
  PROVE  /\ <<a, b, c, d, e, f, g>> \in Seq(GuardSet)
         /\ Passing(<<a, b, c, d, e, f, g>>) => a.passes /\ b.passes /\ c.passes /\ d.passes /\ e.passes /\ f.passes /\ g.passes
BY DEF Passing

(* The gates an operation is behind, whatever the door.                    *)
GatesPassed ==
  /\ ModelKnown.passes
  /\ request.op \in EngineWrites /\ ~ OnlyFinds => ReadOnly.passes /\ MutationAllowed.passes
  /\ request.op = "classMutation" => ReadOnly.passes
  /\ request.op \in EngineWrites /\ deployment.door = "temporalize" => UmbrellaAllowed.passes
  /\ request.op \in {"update", "destroy", "remove", "select"} =>
       Filter.passes /\ (OnlyFinds \/ Scoping.passes)
  /\ request.op \in {"relationGet", "relationMutate", "relationRemove"} => RelationKnown.passes
  /\ request.op \in {"transform", "classMutation"} => MethodAllowed.passes
  /\ request.op \in {"list", "count"} => Filter.passes /\ Order.passes

LEMMA NestizeAsks ==
  ASSUME Fixed, deployment.door = "nestize"
  PROVE  NestizeGuards \in Seq(GuardSet) /\ (Passing(NestizeGuards) => GatesPassed)
<1> USE DEF GatesPassed
<1>1. request.op \in Routes BY Sent
<1>a. {ModelKnown, MutationAllowed, RelationKnown, ReadOnly, Scoping, Filter, Order, Paged,
       Valid("create"), Valid("update"), MethodAllowed,
       Guard(deployment.classMethods, "not found"),
       Guard(deployment.instanceMethods, "not found")} \subseteq GuardSet
  BY GuardsAreGuards, MethodGuard
<1>b. EngineWrites = {"create", "update", "destroy", "remove", "select", "transform",
                      "relationMutate", "relationRemove"}
  BY DEF EngineWrites, Kind
<1>2. CASE request.op \in {"list", "count"}
  <2>1. NestizeGuards = <<ModelKnown, Paged, Filter, Order>> BY <1>2 DEF NestizeGuards
  <2> QED BY <1>a, <1>b, <1>2, <2>1, Passing4
<1>3. CASE request.op = "findByPk"
  <2>1. NestizeGuards = <<ModelKnown>> BY <1>3 DEF NestizeGuards
  <2> QED BY <1>a, <1>b, <1>3, <2>1, Passing1
<1>4. CASE request.op = "create"
  <2>1. NestizeGuards = <<ReadOnly, ModelKnown, MutationAllowed, Valid("create")>>
    BY <1>4 DEF NestizeGuards
  <2> QED BY <1>a, <1>b, <1>4, <2>1, Passing4
<1>5. CASE request.op = "update"
  <2>1. NestizeGuards =
          <<ReadOnly, ModelKnown, MutationAllowed, Valid("update"), Filter, Scoping, Paged>>
    BY <1>5 DEF NestizeGuards
  <2> QED BY <1>a, <1>b, <1>5, <2>1, Passing7
<1>6. CASE request.op = "remove"
  <2>1. NestizeGuards = <<ReadOnly, ModelKnown, MutationAllowed, Filter, Scoping>>
    BY <1>6 DEF NestizeGuards
  <2> QED BY <1>a, <1>b, <1>6, <2>1, Passing5
<1>7. CASE request.op = "select"
  <2>1. CASE OnlyFinds
    <3>1. NestizeGuards = <<ModelKnown, Filter>> BY <1>7, <2>1 DEF NestizeGuards
    <3> QED BY <1>a, <1>b, <1>7, <2>1, <3>1, Passing2
  <2>2. CASE ~ OnlyFinds
    <3>1. NestizeGuards = <<ModelKnown, Filter, ReadOnly, MutationAllowed, Scoping>>
      BY <1>7, <2>2 DEF NestizeGuards
    <3> QED BY <1>a, <1>b, <1>7, <2>2, <3>1, Passing5
  <2> QED BY <2>1, <2>2
<1>8. CASE request.op = "relationGet"
  <2>1. NestizeGuards = <<ModelKnown, RelationKnown, Paged>> BY <1>8 DEF NestizeGuards
  <2> QED BY <1>a, <1>b, <1>8, <2>1, Passing3
<1>9. CASE request.op \in {"relationMutate", "relationRemove"}
  <2>1. NestizeGuards = <<ReadOnly, ModelKnown, RelationKnown, MutationAllowed>>
    BY <1>9 DEF NestizeGuards
  <2> QED BY <1>a, <1>b, <1>9, <2>1, Passing4
<1>10. CASE request.op = "classQuery"
  <2>1. NestizeGuards = <<ModelKnown, Guard(deployment.classMethods, "not found"), MethodAllowed>>
    BY <1>10 DEF NestizeGuards
  <2> QED BY <1>a, <1>b, <1>10, <2>1, Passing3
<1>11. CASE request.op = "classMutation"
  <2>1. NestizeGuards =
          <<ModelKnown, ReadOnly, Guard(deployment.classMethods, "not found"), MethodAllowed>>
    BY <1>11 DEF NestizeGuards
  <2> QED BY <1>a, <1>b, <1>11, <2>1, Passing4
<1>12. CASE request.op = "instanceMethod"
  <2>1. NestizeGuards = <<ModelKnown, Guard(deployment.instanceMethods, "not found"), MethodAllowed>>
    BY <1>12 DEF NestizeGuards
  <2> QED BY <1>a, <1>b, <1>12, <2>1, Passing3
<1>13. CASE request.op = "transform"
  <2>1. NestizeGuards = <<ModelKnown, Guard(deployment.instanceMethods, "not found"), MethodAllowed,
                          ReadOnly, MutationAllowed>>
    BY <1>13 DEF NestizeGuards
  <2> QED BY <1>a, <1>b, <1>13, <2>1, Passing5
<1> QED BY <1>1, <1>2, <1>3, <1>4, <1>5, <1>6, <1>7, <1>8, <1>9, <1>10, <1>11, <1>12, <1>13 DEF Routes

LEMMA ActivitiesAsk ==
  ASSUME Fixed, deployment.door = "temporalize"
  PROVE  ActivityGuards \in Seq(GuardSet) /\ (Passing(ActivityGuards) => GatesPassed)
<1> USE DEF GatesPassed
<1>1. request.op \in Activities BY Sent
<1>a. {ModelKnown, MutationAllowed, UmbrellaAllowed, ReadOnly, Scoping, Filter, Order, Paged,
       Valid("create"), Valid("update"), MethodAllowed} \subseteq GuardSet
  BY GuardsAreGuards, MethodGuard
<1>b. EngineWrites = {"create", "update", "destroy", "remove", "select", "transform",
                      "relationMutate", "relationRemove"}
  BY DEF EngineWrites, Kind
<1>c. /\ <<ModelKnown>> \in Seq(GuardSet) /\ (Passing(<<ModelKnown>>) => ModelKnown.passes)
      /\ Mutable \in Seq(GuardSet)
      /\ Passing(Mutable) => ReadOnly.passes /\ UmbrellaAllowed.passes /\ MutationAllowed.passes
  BY <1>a, Passing1, Passing3 DEF Mutable
<1>d. /\ <<ModelKnown>> \o Mutable \in Seq(GuardSet)
      /\ Passing(<<ModelKnown>> \o Mutable) =>
           ModelKnown.passes /\ ReadOnly.passes /\ UmbrellaAllowed.passes /\ MutationAllowed.passes
  BY <1>c, PassingBoth
<1>e. ASSUME NEW k \in {"create", "update"}
      PROVE  (IF deployment.validate THEN <<Valid(k)>> ELSE <<>>) \in Seq(GuardSet)
  <2>1. <<>> \in Seq(GuardSet) /\ <<Valid(k)>> \in Seq(GuardSet) BY <1>a, <1>e, Passing1
  <2> QED BY <2>1
<1>2. CASE request.op \in {"list", "count"}
  <2>1. ActivityGuards = <<ModelKnown, Paged, Filter, Order>> BY <1>2 DEF ActivityGuards
  <2> QED BY <1>a, <1>b, <1>2, <2>1, Passing4
<1>3. CASE request.op = "findByPk"
  <2>1. ActivityGuards = <<ModelKnown>> BY <1>3 DEF ActivityGuards
  <2> QED BY <1>b, <1>c, <1>3, <2>1
<1>4. CASE request.op = "create"
  <2> DEFINE v == IF deployment.validate THEN <<Valid("create")>> ELSE <<>>
  <2>1. ActivityGuards = (<<ModelKnown>> \o Mutable) \o v BY <1>4 DEF ActivityGuards
  <2>2. v \in Seq(GuardSet) BY <1>e
  <2> HIDE DEF v
  <2> QED BY <1>b, <1>d, <1>4, <2>1, <2>2, PassingBoth
<1>5. CASE request.op = "update"
  <2> DEFINE v == IF deployment.validate THEN <<Valid("update")>> ELSE <<>>
             g == (<<ModelKnown>> \o Mutable) \o <<Scoping, Filter, Paged>>
  <2>1. ActivityGuards = g \o v BY <1>5 DEF ActivityGuards
  <2>2. v \in Seq(GuardSet) BY <1>e
  <2>3. /\ g \in Seq(GuardSet)
        /\ Passing(g) => Passing(<<ModelKnown>> \o Mutable) /\ Passing(<<Scoping, Filter, Paged>>)
    BY <1>a, <1>d, Passing3, PassingBoth
  <2>4. Passing(<<Scoping, Filter, Paged>>) => Scoping.passes /\ Filter.passes BY <1>a, Passing3
  <2> HIDE DEF v, g
  <2> QED BY <1>b, <1>d, <1>5, <2>1, <2>2, <2>3, <2>4, PassingBoth
<1>6. CASE request.op = "destroy"
  <2>1. ActivityGuards = (<<ModelKnown>> \o Mutable) \o <<Scoping, Filter>> BY <1>6 DEF ActivityGuards
  <2>2. <<Scoping, Filter>> \in Seq(GuardSet)
        /\ (Passing(<<Scoping, Filter>>) => Scoping.passes /\ Filter.passes)
    BY <1>a, Passing2
  <2> QED BY <1>b, <1>d, <1>6, <2>1, <2>2, PassingBoth
<1>7. CASE request.op = "select"
  <2>1. ActivityGuards = (<<ModelKnown>> \o Mutable) \o <<Scoping, Filter, Paged>>
    BY <1>7 DEF ActivityGuards
  <2>2. <<Scoping, Filter, Paged>> \in Seq(GuardSet)
        /\ (Passing(<<Scoping, Filter, Paged>>) => Scoping.passes /\ Filter.passes)
    BY <1>a, Passing3
  <2> QED BY <1>b, <1>d, <1>7, <2>1, <2>2, PassingBoth
<1>8. CASE request.op = "classMutation"
  <2>1. ActivityGuards = <<ModelKnown, ReadOnly, MethodAllowed>> BY <1>8 DEF ActivityGuards
  <2> QED BY <1>a, <1>b, <1>8, <2>1, Passing3
<1>9. CASE request.op = "instanceMethod"
  <2>1. ActivityGuards = <<ModelKnown, MethodAllowed>> BY <1>9 DEF ActivityGuards
  <2> QED BY <1>a, <1>b, <1>9, <2>1, Passing2
<1>10. CASE request.op = "transform"
  <2>1. ActivityGuards = <<ModelKnown, MethodAllowed>> \o Mutable BY <1>10 DEF ActivityGuards
  <2>2. <<ModelKnown, MethodAllowed>> \in Seq(GuardSet)
        /\ (Passing(<<ModelKnown, MethodAllowed>>) => ModelKnown.passes /\ MethodAllowed.passes)
    BY <1>a, Passing2
  <2> QED BY <1>b, <1>c, <1>10, <2>1, <2>2, PassingBoth
<1> QED BY <1>1, <1>2, <1>3, <1>4, <1>5, <1>6, <1>7, <1>8, <1>9, <1>10 DEF Activities

(* A call that is not refused has passed the gates of its operation.       *)
LEMMA NotRefused ==
  ASSUME Fixed
  PROVE  Refusal \in Errors \cup {"ok"} /\ (Refusal = "ok" => GatesPassed)
<1>1. CASE deployment.door = "nestize"
  BY <1>1, NestizeAsks, VerdictOfGuards DEF Refusal
<1>2. CASE deployment.door = "temporalize"
  <2>1. ActivityGuards \in Seq(GuardSet) /\ (Passing(ActivityGuards) => GatesPassed)
    BY <1>2, ActivitiesAsk
  <2>2. "context" \in Errors /\ (request.context = "caller") \in BOOLEAN BY DEF Errors
  <2>3. ContextGiven \in Seq(GuardSet) BY <2>2, GuardIsOne, Passing1 DEF ContextGiven
  <2>4. /\ ContextGiven \o ActivityGuards \in Seq(GuardSet)
        /\ Passing(ContextGiven \o ActivityGuards) => Passing(ActivityGuards)
    BY <2>1, <2>3, PassingBoth
  <2>5. Refusal = Verdict(ContextGiven \o ActivityGuards) BY <1>2 DEF Refusal
  <2> QED BY <2>1, <2>4, <2>5, VerdictOfGuards
<1> QED BY <1>1, <1>2, Sent

-------------------------------------------------------------------------------
(* The invariant *)

Types ==
  /\ attempts \in Seq(Attempt) /\ Len(attempts) <= MaxAttempts
  /\ effects \in [Writes -> Nat] /\ changes \subseteq Changes
  /\ faults \in 0 .. MaxFaults
  /\ flow \in {"sent", "queued", "running", "done", "error", "no task queue"} \cup Errors

(* An attempt is over when it has a result, and writes only if let through. *)
Works ==
  \A i \in DOMAIN attempts :
    /\ attempts[i].is = "working" <=> attempts[i].result = "none"
    /\ attempts[i].wrote \subseteq WritesOf
    /\ attempts[i].wrote # {} \/ attempts[i].result = "done" => Refusal = "ok"
    /\ attempts[i].result = "done" => attempts[i].wrote = WritesOf

(* The attempts by which a write took effect: those that were committed,   *)
(* or that got as far as the write where nothing holds it.                 *)
Effective(w) ==
  {i \in DOMAIN attempts : IF InTransaction THEN attempts[i].result = "done" /\ w \in WritesOf
                           ELSE w \in attempts[i].wrote}
Counted == \A w \in Writes : effects[w] = Cardinality(Effective(w))

(* Every attempt but the first has a fault before it, and so has the next  *)
(* one, whenever there will be a next one.                                 *)
Excused ==
  /\ flow \in {"sent", "no task queue"} => attempts = <<>>
  /\ Len(attempts) <= 1 + faults
  /\ flow = "queued" => Len(attempts) <= faults
  /\ flow = "running" =>
       Len(attempts) # 0 /\ (attempts[Len(attempts)].is = "over" => Len(attempts) <= faults)

Told ==
  /\ flow = "done" => \E i \in DOMAIN attempts : attempts[i].result = "done"
  /\ flow \in Errors => Refusal # "ok"

Inv == Fixed /\ Types /\ Works /\ Counted /\ Excused /\ Told

-------------------------------------------------------------------------------
(* What a step does to the attempts *)

(* What is asked and who answers do not change.                            *)
LEMMA Unchanging ==
  ASSUME UNCHANGED <<deployment, request>>
  PROVE  /\ Fixed' <=> Fixed
         /\ Refusal' = Refusal /\ WritesOf' = WritesOf /\ Changes' = Changes
         /\ InTransaction' <=> InTransaction
<1>1. WritesOf' = WritesOf /\ (InTransaction' <=> InTransaction) /\ (Fixed' <=> Fixed)
  BY DEF WritesOf, InTransaction, OnlyFinds, Fixed
<1>2. Refusal' = Refusal
  BY DEF Refusal, NestizeGuards, ActivityGuards, ContextGiven, Mutable, ModelKnown, MutationAllowed,
         UmbrellaAllowed, Valid, Paged, RelationKnown, MethodAllowed, MethodTarget, ReadOnly, Scoping,
         Filter, Order, OnlyFinds, Bag, M
<1>3. Changes' = Changes BY DEF Changes, OwnChange, NestedChange, Rehooked, Input, Unparsed, Nested, LedTo, Bag, M
<1> QED BY <1>1, <1>2, <1>3

LEMMA StepKeepsTheCase ==
  ASSUME [Next]_vars PROVE UNCHANGED <<deployment, request>>
BY DEF Next, Progress, Send, PickUp, GiveUpTheDead, Refuse, Finish, Commit, Write, TimesOut,
       AdapterFails, WorkerCrashes, vars

LEMMA AttemptEnds ==
  ASSUME Inv, NEW i, Working(i), NEW r \in {"done", "failed", "refused"}, Over(i, r)
  PROVE  /\ attempts' \in Seq(Attempt) /\ Len(attempts') = Len(attempts)
         /\ DOMAIN attempts' = DOMAIN attempts /\ i \in DOMAIN attempts
         /\ attempts[i].result = "none" /\ attempts[i].wrote \subseteq Writes
         /\ attempts'[i].is = "over" /\ attempts'[i].wrote = attempts[i].wrote
         /\ attempts'[i].result = r
         /\ \A j \in DOMAIN attempts : j # i => attempts'[j] = attempts[j]
<1> DEFINE a == [[attempts[i] EXCEPT !.is = "over"] EXCEPT !.result = r]
<1>1. i \in DOMAIN attempts /\ attempts \in Seq(Attempt) BY DEF Working, Inv, Types
<1>2. attempts[i] \in Attempt BY <1>1
<1>3. a \in Attempt /\ attempts[i].wrote \subseteq Writes BY <1>2 DEF Attempt
<1>4. a.is = "over" /\ a.wrote = attempts[i].wrote /\ a.result = r BY <1>2 DEF Attempt
<1>5. attempts' = [attempts EXCEPT ![i] = a] BY <1>1 DEF Over
<1>6. attempts[i].result = "none" BY <1>1 DEF Working, Inv, Works
<1> HIDE DEF a
<1>7. /\ attempts' \in Seq(Attempt) /\ Len(attempts') = Len(attempts)
      /\ DOMAIN attempts' = DOMAIN attempts /\ attempts'[i] = a
      /\ \A j \in DOMAIN attempts : j # i => attempts'[j] = attempts[j]
  BY <1>1, <1>3, <1>5
<1> QED BY <1>1, <1>3, <1>4, <1>6, <1>7

(* An attempt that ends without a commit takes nothing into effect.        *)
LEMMA EndsInVain ==
  ASSUME Inv, UNCHANGED <<deployment, request, effects, changes>>,
         NEW i, Working(i), NEW r \in {"failed", "refused"}, Over(i, r)
  PROVE  Works' /\ Counted'
<1>1. /\ DOMAIN attempts' = DOMAIN attempts /\ i \in DOMAIN attempts /\ attempts[i].result = "none"
      /\ attempts'[i].is = "over" /\ attempts'[i].wrote = attempts[i].wrote /\ attempts'[i].result = r
      /\ \A j \in DOMAIN attempts : j # i => attempts'[j] = attempts[j]
  BY AttemptEnds
<1>2. Refusal' = Refusal /\ WritesOf' = WritesOf /\ (InTransaction' <=> InTransaction) BY Unchanging
<1>3. Works' BY <1>1, <1>2 DEF Inv, Works
<1>4. \A j \in DOMAIN attempts : /\ attempts'[j].wrote = attempts[j].wrote
                                 /\ attempts'[j].result = "done" <=> attempts[j].result = "done"
  BY <1>1
<1>5. \A w : Effective(w)' = Effective(w) BY <1>1, <1>2, <1>4 DEF Effective
<1> QED BY <1>3, <1>5 DEF Inv, Counted

(* What a commit takes into effect is what its attempt wrote.              *)
LEMMA EndsInEffect ==
  ASSUME Inv, NEW i, Commit(i)
  PROVE  /\ Works' /\ Counted' /\ effects' \in [Writes -> Nat] /\ changes' \subseteq Changes'
         /\ attempts' \in Seq(Attempt) /\ Len(attempts') = Len(attempts)
         /\ i \in DOMAIN attempts' /\ attempts'[i].result = "done" /\ attempts'[i].is = "over"
         /\ \A j \in DOMAIN attempts : j # i => attempts'[j] = attempts[j]
<1>1. Working(i) /\ Over(i, "done") /\ Refusal = "ok" /\ attempts[i].wrote = WritesOf
      /\ UNCHANGED <<deployment, request>>
  BY DEF Commit
<1>2. /\ DOMAIN attempts' = DOMAIN attempts /\ i \in DOMAIN attempts /\ attempts[i].result = "none"
      /\ attempts'[i].is = "over" /\ attempts'[i].wrote = attempts[i].wrote
      /\ attempts'[i].result = "done"
      /\ \A j \in DOMAIN attempts : j # i => attempts'[j] = attempts[j]
      /\ attempts' \in Seq(Attempt) /\ Len(attempts') = Len(attempts)
  BY <1>1, AttemptEnds
<1>3. /\ Refusal' = Refusal /\ WritesOf' = WritesOf /\ Changes' = Changes
      /\ InTransaction' <=> InTransaction
  BY <1>1, Unchanging
<1>4. Works' BY <1>1, <1>2, <1>3 DEF Inv, Works
<1>5. changes' \subseteq Changes' /\ effects' \in [Writes -> Nat]
  <2>1. changes \subseteq Changes /\ effects \in [Writes -> Nat] BY DEF Inv, Types
  <2> QED BY <1>3, <2>1 DEF Commit
<1>6. ASSUME NEW w \in Writes PROVE effects'[w] = Cardinality(Effective(w)')
  <2>1. effects[w] = Cardinality(Effective(w)) /\ effects[w] \in Nat BY DEF Inv, Counted, Types
  <2>2. IsFiniteSet(Effective(w))
    <3>1. attempts \in Seq(Attempt) BY DEF Inv, Types
    <3>2. Len(attempts) \in Nat /\ DOMAIN attempts = 1 .. Len(attempts) BY <3>1
    <3>3. IsFiniteSet(1 .. Len(attempts)) BY <3>2, FS_Interval
    <3>4. Effective(w) \subseteq 1 .. Len(attempts) BY <3>2 DEF Effective
    <3> QED BY <3>3, <3>4, FS_Subset
  <2>3. CASE InTransaction /\ w \in WritesOf
    <3>1. i \notin Effective(w) /\ Effective(w)' = Effective(w) \cup {i}
      BY <1>2, <1>3, <2>3 DEF Effective
    <3> DEFINE E == Effective(w)
    <3>2. Cardinality(E \cup {i}) = Cardinality(E) + 1
      <4> HIDE DEF E
      <4>1. i \notin E BY <3>1 DEF E
      <4>2. IsFiniteSet(E) BY <2>2 DEF E
      <4> QED BY <4>1, <4>2, FS_AddElement
    <3>3. effects'[w] = effects[w] + 1 BY <2>3 DEF Commit
    <3> QED BY <2>1, <3>1, <3>2, <3>3
  <2>4. CASE InTransaction /\ w \notin WritesOf
    <3>1. Effective(w)' = Effective(w) BY <1>2, <1>3, <2>4 DEF Effective
    <3>2. effects'[w] = effects[w] BY <2>1, <2>4 DEF Commit
    <3> QED BY <2>1, <3>1, <3>2
  <2>5. CASE ~ InTransaction
    <3>1. \A j \in DOMAIN attempts : attempts'[j].wrote = attempts[j].wrote BY <1>2
    <3>2. Effective(w)' = Effective(w) BY <1>2, <1>3, <2>5, <3>1 DEF Effective
    <3>3. effects'[w] = effects[w] BY <2>5 DEF Commit
    <3> QED BY <2>1, <3>2, <3>3
  <2> QED BY <2>3, <2>4, <2>5
<1> QED BY <1>2, <1>4, <1>5, <1>6 DEF Counted

-------------------------------------------------------------------------------
(* Each step *)

Names == {"sent", "queued", "running", "done", "error", "no task queue"}

LEMMA NamesAreNoErrors == \A x \in Names : x \notin Errors
BY DEF Names, Errors

LEMMA Numbers ==
  ASSUME Inv
  PROVE  /\ attempts \in Seq(Attempt) /\ Len(attempts) \in Nat /\ DOMAIN attempts = 1 .. Len(attempts)
         /\ faults \in Nat /\ MaxFaults \in Nat /\ faults <= MaxFaults /\ MaxAttempts = MaxFaults + 1
         /\ Len(attempts) <= 1 + faults
<1>1. attempts \in Seq(Attempt) /\ faults \in 0 .. MaxFaults BY DEF Inv, Types
<1>2. MaxFaults \in Nat BY FrontDoorsAssumption
<1>3. Len(attempts) <= 1 + faults BY DEF Inv, Excused
<1> QED BY <1>1, <1>2, <1>3 DEF MaxAttempts

LEMMA NoAttempts == DOMAIN <<>> = {} /\ Len(<<>>) = 0 /\ <<>> \in Seq(Attempt)
OBVIOUS

LEMMA SendStep == ASSUME Inv, Send PROVE Inv'
<1>1. UNCHANGED <<deployment, request, effects, changes, faults>> /\ flow = "sent" BY DEF Send
<1>2. /\ Fixed' <=> Fixed
      /\ Refusal' = Refusal /\ WritesOf' = WritesOf /\ Changes' = Changes
      /\ InTransaction' <=> InTransaction
  BY <1>1, Unchanging
<1>3. attempts = <<>> /\ faults \in Nat BY <1>1, Numbers DEF Inv, Excused
<1>4. \A w : Effective(w) = {} BY <1>3, NoAttempts DEF Effective
<1>5. NewAttempt \in Attempt /\ NewAttempt.is = "working" /\ NewAttempt.result = "none" /\ NewAttempt.wrote = {}
  BY DEF NewAttempt, Attempt
<1>6. CASE attempts' = <<NewAttempt>> /\ flow' = "running"
  <2>1. attempts' \in Seq(Attempt) /\ Len(attempts') = 1 /\ DOMAIN attempts' = {1} /\ attempts'[1] = NewAttempt
    BY <1>5, <1>6
  <2>2. Works' BY <1>2, <1>5, <2>1 DEF Works
  <2>3. \A w : Effective(w)' = {} BY <1>2, <1>5, <2>1 DEF Effective
  <2>4. Counted' BY <1>1, <1>4, <2>3 DEF Inv, Counted
  <2>5. Excused' /\ Told' BY <1>1, <1>3, <1>5, <1>6, <2>1 DEF Excused, Told, Errors
  <2>6. Types' BY <1>1, <1>2, <1>6, <2>1, FrontDoorsAssumption DEF Inv, Types, MaxAttempts
  <2> QED BY <1>2, <2>2, <2>4, <2>5, <2>6 DEF Inv
<1>7. CASE attempts' = <<>> /\ flow' \in {"queued", "no task queue"}
  <2>1. Works' BY <1>7, NoAttempts DEF Works
  <2>2. \A w : Effective(w)' = {} BY <1>7, NoAttempts DEF Effective
  <2>3. Counted' BY <1>1, <1>4, <2>2 DEF Inv, Counted
  <2>4. Excused'
    <3>1. Len(attempts') = 0 /\ attempts' = <<>> /\ flow' # "running" BY <1>7, NoAttempts
    <3>2. 0 <= 1 + faults' /\ 0 <= faults' BY <1>1, <1>3
    <3> QED BY <3>1, <3>2 DEF Excused
  <2>a. Told'
    <3>1. flow' # "done" /\ flow' \notin Errors BY <1>7, NamesAreNoErrors DEF Names
    <3> QED BY <3>1 DEF Told
  <2>5. Types' BY <1>1, <1>2, <1>3, <1>7 DEF Inv, Types
  <2> QED BY <1>2, <2>1, <2>3, <2>4, <2>a, <2>5 DEF Inv
<1> QED BY <1>6, <1>7 DEF Send

LEMMA PickUpStep == ASSUME Inv, PickUp PROVE Inv'
<1>1. UNCHANGED <<deployment, request, effects, changes, faults>> /\ flow = "queued" /\ flow' = "running"
      /\ attempts' = Append(attempts, NewAttempt) /\ Len(attempts) < MaxAttempts
  BY DEF PickUp
<1>2. /\ Fixed' <=> Fixed
      /\ Refusal' = Refusal /\ WritesOf' = WritesOf /\ Changes' = Changes
      /\ InTransaction' <=> InTransaction
  BY <1>1, Unchanging
<1>3. NewAttempt \in Attempt /\ NewAttempt.is = "working" /\ NewAttempt.result = "none" /\ NewAttempt.wrote = {}
  BY DEF NewAttempt, Attempt
<1>4. attempts \in Seq(Attempt) /\ Len(attempts) \in Nat /\ DOMAIN attempts = 1 .. Len(attempts)
  BY Numbers
<1>5. /\ attempts' \in Seq(Attempt) /\ Len(attempts') = Len(attempts) + 1
      /\ DOMAIN attempts' = 1 .. Len(attempts) + 1 /\ attempts'[Len(attempts) + 1] = NewAttempt
      /\ \A j \in DOMAIN attempts : attempts'[j] = attempts[j]
  BY <1>1, <1>3, <1>4
<1>6. \A j \in DOMAIN attempts' : j \in DOMAIN attempts \/ attempts'[j] = NewAttempt
  BY <1>4, <1>5
<1>7. DOMAIN attempts \subseteq DOMAIN attempts' BY <1>4, <1>5
<1>8. Works' BY <1>2, <1>3, <1>5, <1>6 DEF Inv, Works
<1>9. \A w : Effective(w)' = Effective(w) BY <1>2, <1>3, <1>5, <1>6, <1>7 DEF Effective
<1>10. Counted' BY <1>1, <1>9 DEF Inv, Counted
<1>11. Excused' /\ Told'
  <2>1. Len(attempts) <= faults /\ faults \in Nat
    BY <1>1, Numbers DEF Inv, Excused
  <2> QED BY <1>1, <1>3, <1>4, <1>5, <2>1 DEF Excused, Told, Errors
<1>12. Types'
  <2>1. MaxAttempts \in Nat BY FrontDoorsAssumption DEF MaxAttempts
  <2> QED BY <1>1, <1>2, <1>4, <1>5, <2>1 DEF Inv, Types, MaxAttempts
<1> QED BY <1>2, <1>8, <1>10, <1>11, <1>12 DEF Inv

(* An attempt that ends leaves the caller with its answer, or waiting for  *)
(* the next one, and the next one has a fault to its account.              *)
LEMMA AnswerStep ==
  ASSUME Inv, NEW i, i \in DOMAIN attempts, attempts' \in Seq(Attempt), Len(attempts') = Len(attempts),
         attempts'[i].is = "over", \A j \in DOMAIN attempts : j # i => attempts'[j] = attempts[j],
         attempts[i].result = "none", attempts[i].is = "working",
         faults' \in 0 .. MaxFaults, faults <= faults',
         \/ flow' = flow /\ (~ Current(i) \/ faults' = faults + 1)
         \/ Current(i) /\ flow' \in {"done", "error"} \cup Errors
         \/ Current(i) /\ flow' = "queued" /\ faults' = faults + 1
  PROVE  Excused' /\ flow' \in Names \cup Errors
<1>1. /\ attempts \in Seq(Attempt) /\ Len(attempts) \in Nat /\ DOMAIN attempts = 1 .. Len(attempts)
      /\ faults \in Nat /\ faults' \in Nat /\ Len(attempts) <= 1 + faults
  BY Numbers
<1>2. flow \in Names \cup Errors /\ flow' \in Names \cup Errors BY DEF Inv, Types, Names
<1>3. Len(attempts) <= 1 + faults' BY <1>1
<1>4. attempts # <<>> /\ Len(attempts) # 0 BY <1>1
<1>5. flow' \notin {"sent", "no task queue"}
  BY <1>4, NamesAreNoErrors DEF Inv, Excused, Names
<1>6. flow' = "queued" => Len(attempts) <= faults'
  <2>1. flow = "queued" => Len(attempts) <= faults BY DEF Inv, Excused
  <2>2. "queued" \notin {"done", "error"} \cup Errors BY DEF Errors
  <2> QED BY <1>1, <2>1, <2>2
<1>7. flow' = "running" =>
        Len(attempts) # 0 /\ (attempts'[Len(attempts)].is = "over" => Len(attempts) <= faults')
  <2> HAVE flow' = "running"
  <2>1. flow = "running" /\ (i # Len(attempts) \/ faults' = faults + 1)
    BY NamesAreNoErrors DEF Names, Current
  <2>2. attempts[Len(attempts)].is = "over" => Len(attempts) <= faults BY <2>1 DEF Inv, Excused
  <2>3. i # Len(attempts) => attempts'[Len(attempts)] = attempts[Len(attempts)] BY <1>1, <1>4
  <2> QED BY <1>1, <1>4, <2>1, <2>2, <2>3
<1> QED BY <1>2, <1>3, <1>5, <1>6, <1>7 DEF Excused

LEMMA RefuseStep == ASSUME Inv, NEW i, Refuse(i) PROVE Inv'
<1>1. /\ UNCHANGED <<deployment, request, effects, changes, faults>>
      /\ Working(i) /\ Over(i, "refused") /\ Refusal # "ok"
      /\ flow' = IF Current(i) THEN Refusal ELSE flow
  BY DEF Refuse, RefusedAs
<1>2. /\ Fixed' <=> Fixed
      /\ Refusal' = Refusal /\ WritesOf' = WritesOf /\ Changes' = Changes
      /\ InTransaction' <=> InTransaction
  BY <1>1, Unchanging
<1>3. /\ attempts' \in Seq(Attempt) /\ Len(attempts') = Len(attempts)
      /\ DOMAIN attempts' = DOMAIN attempts /\ i \in DOMAIN attempts
      /\ attempts[i].result = "none" /\ attempts'[i].is = "over"
      /\ attempts'[i].result = "refused"
      /\ \A j \in DOMAIN attempts : j # i => attempts'[j] = attempts[j]
  BY <1>1, AttemptEnds
<1>4. attempts[i].is = "working" BY <1>1 DEF Working
<1>5. Works' /\ Counted' BY <1>1, EndsInVain
<1>6. Refusal \in Errors BY <1>1, NotRefused DEF Inv
<1>7. faults' \in 0 .. MaxFaults /\ faults <= faults' BY <1>1, Numbers
<1>8. Excused' /\ flow' \in Names \cup Errors
  <2>1. (~ Current(i) /\ flow' = flow) \/ (Current(i) /\ flow' \in Errors) BY <1>1, <1>6
  <2> QED BY <1>3, <1>4, <1>7, <2>1, AnswerStep
<1>9. Types' BY <1>1, <1>2, <1>3, <1>7, <1>8 DEF Inv, Types, Names, MaxAttempts
<1>10. Told'
  <2>1. \A j \in DOMAIN attempts : attempts[j].result = "done" => attempts'[j].result = "done"
    BY <1>3
  <2>2. flow' = "done" => flow = "done" BY <1>1, <1>6 DEF Errors
  <2>3. flow' \in Errors => Refusal' # "ok" BY <1>1, <1>2
  <2> QED BY <1>3, <2>1, <2>2, <2>3 DEF Inv, Told
<1> QED BY <1>2, <1>5, <1>8, <1>9, <1>10 DEF Inv

LEMMA FinishStep == ASSUME Inv, NEW i, Finish(i) PROVE Inv'
<1>1. /\ Commit(i) /\ faults' = faults /\ flow' = IF Current(i) THEN "done" ELSE flow
      /\ UNCHANGED <<deployment, request>> /\ Working(i) /\ Over(i, "done") /\ Refusal = "ok"
  BY DEF Finish, Commit
<1>2. (Fixed' <=> Fixed) /\ Refusal' = Refusal BY <1>1, Unchanging
<1>3. /\ Works' /\ Counted' /\ effects' \in [Writes -> Nat] /\ changes' \subseteq Changes'
      /\ attempts' \in Seq(Attempt) /\ Len(attempts') = Len(attempts)
      /\ i \in DOMAIN attempts' /\ attempts'[i].result = "done" /\ attempts'[i].is = "over"
      /\ \A j \in DOMAIN attempts : j # i => attempts'[j] = attempts[j]
  BY <1>1, EndsInEffect
<1>4. attempts[i].is = "working" /\ attempts[i].result = "none" /\ i \in DOMAIN attempts
      /\ DOMAIN attempts' = DOMAIN attempts
  BY <1>1, AttemptEnds DEF Working
<1>5. faults' \in 0 .. MaxFaults /\ faults <= faults' BY <1>1, Numbers
<1>6. Excused' /\ flow' \in Names \cup Errors
  <2>1. (~ Current(i) /\ flow' = flow) \/ (Current(i) /\ flow' \in {"done", "error"}) BY <1>1
  <2> QED BY <1>3, <1>4, <1>5, <2>1, AnswerStep
<1>7. Types' BY <1>3, <1>5, <1>6 DEF Inv, Types, Names, MaxAttempts
<1>8. Told'
  <2>1. \E j \in DOMAIN attempts' : attempts'[j].result = "done" BY <1>3
  <2>2. flow' \in Errors => flow \in Errors BY <1>1 DEF Errors
  <2> QED BY <1>2, <2>1, <2>2 DEF Inv, Told
<1> QED BY <1>2, <1>3, <1>6, <1>7, <1>8 DEF Inv

LEMMA AdapterFailsStep == ASSUME Inv, NEW i, AdapterFails(i) PROVE Inv'
<1>1. /\ UNCHANGED <<deployment, request, effects, changes>>
      /\ Working(i) /\ Over(i, "failed") /\ faults < MaxFaults /\ faults' = faults + 1
      /\ (flow' = flow /\ ~ Current(i)) \/ (Current(i) /\ flow' \in {"error", "queued"})
  BY DEF AdapterFails, Fault
<1>2. /\ Fixed' <=> Fixed
      /\ Refusal' = Refusal /\ Changes' = Changes
  BY <1>1, Unchanging
<1>3. /\ attempts' \in Seq(Attempt) /\ Len(attempts') = Len(attempts)
      /\ DOMAIN attempts' = DOMAIN attempts /\ i \in DOMAIN attempts
      /\ attempts[i].result = "none" /\ attempts'[i].is = "over"
      /\ \A j \in DOMAIN attempts : j # i => attempts'[j] = attempts[j]
  BY <1>1, AttemptEnds
<1>4. attempts[i].is = "working" BY <1>1 DEF Working
<1>5. Works' /\ Counted' BY <1>1, EndsInVain
<1>6. faults' \in 0 .. MaxFaults /\ faults <= faults' BY <1>1, Numbers
<1>7. Excused' /\ flow' \in Names \cup Errors BY <1>1, <1>3, <1>4, <1>6, AnswerStep
<1>8. Types' BY <1>1, <1>2, <1>3, <1>6, <1>7 DEF Inv, Types, Names, MaxAttempts
<1>9. Told'
  <2>1. \A j \in DOMAIN attempts : attempts[j].result = "done" => attempts'[j].result = "done"
    BY <1>3
  <2>2. (flow' = "done" => flow = "done") /\ (flow' \in Errors => flow \in Errors)
    BY <1>1 DEF Errors
  <2> QED BY <1>2, <1>3, <2>1, <2>2 DEF Inv, Told
<1> QED BY <1>2, <1>5, <1>7, <1>8, <1>9 DEF Inv

LEMMA WorkerCrashesStep == ASSUME Inv, NEW i, WorkerCrashes(i) PROVE Inv'
<1>1. /\ UNCHANGED <<deployment, request>> /\ Working(i)
      /\ faults < MaxFaults /\ faults' = faults + 1 /\ flow' = flow
      /\ (Over(i, "failed") /\ UNCHANGED <<effects, changes>>) \/ Commit(i)
  BY DEF WorkerCrashes, Fault, Commit
<1>2. /\ Fixed' <=> Fixed
      /\ Refusal' = Refusal /\ Changes' = Changes
  BY <1>1, Unchanging
<1>3. faults' \in 0 .. MaxFaults /\ faults <= faults' BY <1>1, Numbers
<1>4. Over(i, "failed") \/ Over(i, "done") BY <1>1 DEF Commit
<1>5. /\ attempts' \in Seq(Attempt) /\ Len(attempts') = Len(attempts)
      /\ DOMAIN attempts' = DOMAIN attempts /\ i \in DOMAIN attempts
      /\ attempts[i].result = "none" /\ attempts'[i].is = "over"
      /\ \A j \in DOMAIN attempts : j # i => attempts'[j] = attempts[j]
  <2>1. CASE Over(i, "failed") BY <1>1, <2>1, AttemptEnds
  <2>2. CASE Over(i, "done") BY <1>1, <2>2, AttemptEnds
  <2> QED BY <1>4, <2>1, <2>2
<1>6. attempts[i].is = "working" BY <1>1 DEF Working
<1>7. Works' /\ Counted' /\ effects' \in [Writes -> Nat] /\ changes' \subseteq Changes'
  <2>1. CASE Over(i, "failed") /\ UNCHANGED <<effects, changes>>
    <3>1. Works' /\ Counted' BY <1>1, <2>1, EndsInVain
    <3> QED BY <1>2, <2>1, <3>1 DEF Inv, Types
  <2>2. CASE Commit(i) BY <2>2, EndsInEffect
  <2> QED BY <1>1, <2>1, <2>2
<1>8. Excused' /\ flow' \in Names \cup Errors BY <1>1, <1>3, <1>5, <1>6, AnswerStep
<1>9. Types' BY <1>3, <1>5, <1>7, <1>8 DEF Inv, Types, Names, MaxAttempts
<1>10. Told'
  <2>1. \A j \in DOMAIN attempts : attempts[j].result = "done" => attempts'[j].result = "done"
    BY <1>5
  <2> QED BY <1>1, <1>2, <1>5, <2>1 DEF Inv, Told
<1> QED BY <1>2, <1>7, <1>8, <1>9, <1>10 DEF Inv

(* An attempt is given up: the next one is due, for the fault that was.    *)
LEMMA GivenUpStep ==
  ASSUME Inv, GiveUpTheDead \/ TimesOut
  PROVE  Inv'
<1>1. /\ UNCHANGED <<deployment, request, attempts, effects, changes>>
      /\ flow = "running" /\ flow' = "queued"
      /\ \/ faults' = faults /\ ~ Working(Len(attempts))
         \/ faults < MaxFaults /\ faults' = faults + 1
  BY DEF GiveUpTheDead, TimesOut, Fault
<1>2. /\ Fixed' <=> Fixed
      /\ Refusal' = Refusal /\ WritesOf' = WritesOf /\ Changes' = Changes
      /\ InTransaction' <=> InTransaction
  BY <1>1, Unchanging
<1>3. Works' BY <1>1, <1>2 DEF Inv, Works
<1>4. \A w : Effective(w)' = Effective(w) BY <1>1, <1>2 DEF Effective
<1>5. Counted' BY <1>1, <1>4 DEF Inv, Counted
<1>6. Types' BY <1>1, <1>2, Numbers DEF Inv, Types, MaxAttempts
<1>7. Len(attempts) <= faults' /\ Len(attempts) <= 1 + faults'
  <2>1. /\ Len(attempts) \in Nat /\ faults \in Nat /\ Len(attempts) <= 1 + faults
        /\ DOMAIN attempts = 1 .. Len(attempts) /\ attempts \in Seq(Attempt)
    BY Numbers
  <2>2. Len(attempts) # 0 /\ (attempts[Len(attempts)].is = "over" => Len(attempts) <= faults)
    BY <1>1 DEF Inv, Excused
  <2>3. CASE faults' = faults /\ ~ Working(Len(attempts))
    <3>1. Len(attempts) \in DOMAIN attempts BY <2>1, <2>2
    <3>2. attempts[Len(attempts)] \in Attempt BY <2>1, <3>1
    <3>3. attempts[Len(attempts)].is = "over" BY <2>3, <3>1, <3>2 DEF Working, Attempt
    <3> QED BY <2>1, <2>2, <2>3, <3>3
  <2>4. CASE faults' = faults + 1 BY <2>1, <2>4
  <2> QED BY <1>1, <2>3, <2>4
<1>8. Excused' BY <1>1, <1>7 DEF Excused
<1>9. Told' BY <1>1, NamesAreNoErrors DEF Told, Names
<1> QED BY <1>2, <1>3, <1>5, <1>6, <1>8, <1>9 DEF Inv

LEMMA WriteStep == ASSUME Inv, NEW i, NEW w \in Writes, Write(i, w) PROVE Inv'
<1> DEFINE a == [attempts[i] EXCEPT !.wrote = attempts[i].wrote \cup {w}]
<1>1. /\ UNCHANGED <<deployment, request, flow, faults>>
      /\ i \in DOMAIN attempts /\ attempts[i].is = "working" /\ Refusal = "ok"
      /\ w \in WritesOf /\ w \notin attempts[i].wrote
      /\ attempts' = [attempts EXCEPT ![i].wrote = @ \cup {w}]
  BY DEF Write, Working
<1>2. /\ Fixed' <=> Fixed
      /\ Refusal' = Refusal /\ WritesOf' = WritesOf /\ Changes' = Changes
      /\ InTransaction' <=> InTransaction
  BY <1>1, Unchanging
<1>3. attempts \in Seq(Attempt) /\ Len(attempts) \in Nat /\ DOMAIN attempts = 1 .. Len(attempts)
  BY Numbers
<1>4. attempts[i] \in Attempt BY <1>1, <1>3
<1>5. /\ a \in Attempt /\ a.is = attempts[i].is /\ a.result = attempts[i].result
      /\ a.wrote = attempts[i].wrote \cup {w}
  BY <1>4 DEF Attempt
<1>6. attempts' = [attempts EXCEPT ![i] = a] BY <1>1
<1>a. a \in Attempt /\ i \in DOMAIN attempts BY <1>1, <1>5
<1>7. /\ attempts' \in Seq(Attempt) /\ Len(attempts') = Len(attempts)
      /\ DOMAIN attempts' = DOMAIN attempts /\ attempts'[i] = a
      /\ \A j \in DOMAIN attempts : j # i => attempts'[j] = attempts[j]
  <2> HIDE DEF a
  <2> QED BY <1>3, <1>a, <1>6
<1> HIDE DEF a
<1>8. /\ attempts[i].result = "none"
      /\ \A j \in DOMAIN attempts :
           attempts'[j].is = attempts[j].is /\ attempts'[j].result = attempts[j].result
  BY <1>1, <1>5, <1>7 DEF Inv, Works
<1>9. Works'
  <2>1. attempts[i].wrote \subseteq WritesOf BY <1>1 DEF Inv, Works
  <2>2. a.wrote \subseteq WritesOf BY <1>1, <1>5, <2>1
  <2>3. a.is = "working" /\ a.result = "none" BY <1>1, <1>5, <1>8
  <2>4. ASSUME NEW j \in DOMAIN attempts
        PROVE  /\ attempts'[j].is = "working" <=> attempts'[j].result = "none"
               /\ attempts'[j].wrote \subseteq WritesOf
               /\ attempts'[j].wrote # {} \/ attempts'[j].result = "done" => Refusal = "ok"
               /\ attempts'[j].result = "done" => attempts'[j].wrote = WritesOf
    <3>1. CASE j = i BY <1>1, <1>7, <2>2, <2>3, <3>1
    <3>2. CASE j # i BY <1>7, <3>2 DEF Inv, Works
    <3> QED BY <3>1, <3>2
  <2> QED BY <1>2, <1>7, <2>4 DEF Works
<1>10. ASSUME NEW v \in Writes PROVE effects'[v] = Cardinality(Effective(v)')
  <2>1. effects[v] = Cardinality(Effective(v)) /\ effects[v] \in Nat /\ effects \in [Writes -> Nat]
    BY DEF Inv, Counted, Types
  <2>2. CASE InTransaction \/ v # w
    <3>1. effects'[v] = effects[v]
      <4>1. CASE InTransaction BY <4>1 DEF Write
      <4>2. CASE ~ InTransaction /\ v # w BY <2>1, <4>2 DEF Write
      <4> QED BY <2>2, <4>1, <4>2
    <3>2. ASSUME ~ InTransaction, NEW j \in DOMAIN attempts
          PROVE  v \in attempts'[j].wrote <=> v \in attempts[j].wrote
      <4>1. CASE j = i BY <1>5, <1>7, <2>2, <3>2, <4>1
      <4>2. CASE j # i BY <1>7, <4>2
      <4> QED BY <4>1, <4>2
    <3>3. Effective(v)' = Effective(v)
      <4>1. CASE InTransaction BY <1>2, <1>7, <1>8, <4>1 DEF Effective
      <4>2. CASE ~ InTransaction BY <1>2, <1>7, <3>2, <4>2 DEF Effective
      <4> QED BY <4>1, <4>2
    <3> QED BY <2>1, <3>1, <3>3
  <2>3. CASE ~ InTransaction /\ v = w
    <3>1. \A j \in DOMAIN attempts :
            v \in attempts'[j].wrote <=> (v \in attempts[j].wrote \/ j = i)
      <4> TAKE j \in DOMAIN attempts
      <4>1. CASE j = i BY <1>5, <1>7, <2>3, <4>1
      <4>2. CASE j # i BY <1>7, <4>2
      <4> QED BY <4>1, <4>2
    <3>2. i \notin Effective(v) /\ Effective(v)' = Effective(v) \cup {i}
      BY <1>1, <1>2, <1>7, <2>3, <3>1 DEF Effective
    <3>3. IsFiniteSet(Effective(v))
      <4>1. IsFiniteSet(1 .. Len(attempts)) BY <1>3, FS_Interval
      <4>2. Effective(v) \subseteq 1 .. Len(attempts) BY <1>3 DEF Effective
      <4> QED BY <4>1, <4>2, FS_Subset
    <3> DEFINE E == Effective(v)
    <3>4. Cardinality(E \cup {i}) = Cardinality(E) + 1
      <4> HIDE DEF E
      <4>1. i \notin E BY <3>2 DEF E
      <4>2. IsFiniteSet(E) BY <3>3 DEF E
      <4> QED BY <4>1, <4>2, FS_AddElement
    <3>5. effects'[v] = effects[v] + 1 BY <2>1, <2>3 DEF Write
    <3> QED BY <2>1, <3>2, <3>4, <3>5
  <2> QED BY <2>2, <2>3
<1>11. Excused'
  <2>1. Len(attempts) # 0 => attempts'[Len(attempts)].is = attempts[Len(attempts)].is
    BY <1>3, <1>8
  <2>2. Len(attempts) # 0 BY <1>1, <1>3
  <2>3. attempts # <<>> BY <2>2
  <2> QED BY <1>1, <1>7, <2>1, <2>2, <2>3 DEF Inv, Excused
<1>12. Types'
  <2>1. effects' \in [Writes -> Nat] /\ changes' \subseteq Changes
    <3>1. effects \in [Writes -> Nat] /\ changes \subseteq Changes BY DEF Inv, Types
    <3>2. CASE InTransaction BY <3>1, <3>2 DEF Write
    <3>3. CASE ~ InTransaction BY <3>1, <3>3 DEF Write
    <3> QED BY <3>2, <3>3
  <2> QED BY <1>1, <1>2, <1>7, <2>1 DEF Inv, Types, MaxAttempts
<1>13. Told'
  <2>1. \A j \in DOMAIN attempts : attempts[j].result = "done" => attempts'[j].result = "done"
    BY <1>8
  <2> QED BY <1>1, <1>2, <1>7, <2>1 DEF Inv, Told
<1> QED BY <1>2, <1>9, <1>10, <1>11, <1>12, <1>13 DEF Inv, Counted

-------------------------------------------------------------------------------
(* The invariant holds *)

LEMMA InvInit == ASSUME Init PROVE Inv
<1>1. Fixed /\ flow = "sent" /\ attempts = <<>> /\ effects = [w \in Writes |-> 0] /\ changes = {}
      /\ faults = 0
  BY DEF Init, Fixed
<1>2. Types BY <1>1, NoAttempts, FrontDoorsAssumption DEF Types, MaxAttempts
<1>3. Works BY <1>1, NoAttempts DEF Works
<1>4. \A w : Effective(w) = {} BY <1>1, NoAttempts DEF Effective
<1>5. Counted BY <1>1, <1>4, FS_EmptySet DEF Counted
<1>6. Excused BY <1>1, NoAttempts DEF Excused
<1>7. Told BY <1>1, NamesAreNoErrors DEF Told, Names
<1> QED BY <1>1, <1>2, <1>3, <1>5, <1>6, <1>7 DEF Inv

LEMMA StutteringStep == ASSUME Inv, UNCHANGED vars PROVE Inv'
<1>1. UNCHANGED <<deployment, request>> /\ UNCHANGED <<flow, attempts, effects, changes, faults>>
  BY DEF vars
<1>2. /\ Fixed' <=> Fixed
      /\ Refusal' = Refusal /\ WritesOf' = WritesOf /\ Changes' = Changes
      /\ InTransaction' <=> InTransaction
  BY <1>1, Unchanging
<1>3. \A w : Effective(w)' = Effective(w) BY <1>1, <1>2 DEF Effective
<1>4. Types' BY <1>1, <1>2 DEF Inv, Types, MaxAttempts
<1>5. Works' BY <1>1, <1>2 DEF Inv, Works
<1>6. Counted' BY <1>1, <1>3 DEF Inv, Counted
<1>7. Excused' BY <1>1 DEF Inv, Excused
<1>8. Told' BY <1>1, <1>2 DEF Inv, Told
<1> QED BY <1>2, <1>4, <1>5, <1>6, <1>7, <1>8 DEF Inv

LEMMA InvStep == ASSUME Inv, [Next]_vars PROVE Inv'
<1>1. CASE Send BY <1>1, SendStep
<1>2. CASE PickUp BY <1>2, PickUpStep
<1>3. CASE GiveUpTheDead \/ TimesOut BY <1>3, GivenUpStep
<1>4. ASSUME NEW i \in 1 .. MaxAttempts, Refuse(i) PROVE Inv' BY <1>4, RefuseStep
<1>5. ASSUME NEW i \in 1 .. MaxAttempts, Finish(i) PROVE Inv' BY <1>5, FinishStep
<1>6. ASSUME NEW i \in 1 .. MaxAttempts, NEW w \in Writes, Write(i, w) PROVE Inv' BY <1>6, WriteStep
<1>7. ASSUME NEW i \in 1 .. MaxAttempts, AdapterFails(i) PROVE Inv' BY <1>7, AdapterFailsStep
<1>8. ASSUME NEW i \in 1 .. MaxAttempts, WorkerCrashes(i) PROVE Inv' BY <1>8, WorkerCrashesStep
<1>9. CASE UNCHANGED vars BY <1>9, StutteringStep
<1> QED BY <1>1, <1>2, <1>3, <1>4, <1>5, <1>6, <1>7, <1>8, <1>9 DEF Next, Progress

LEMMA Invariance == Spec => []Inv
<1>1. Init => Inv BY InvInit
<1>2. Inv /\ [Next]_vars => Inv' BY InvStep
<1> QED BY <1>1, <1>2, PTL DEF Spec

-------------------------------------------------------------------------------
(* What follows from it *)

(* No write takes effect more often than there were attempts.              *)
LEMMA EffectsAreAttempts ==
  ASSUME Inv, NEW w \in Writes
  PROVE  /\ effects[w] \in Nat /\ effects[w] <= Len(attempts)
         /\ effects[w] > 0 <=> Effective(w) # {}
<1>1. Len(attempts) \in Nat /\ DOMAIN attempts = 1 .. Len(attempts) BY Numbers
<1>2. IsFiniteSet(1 .. Len(attempts)) /\ Cardinality(1 .. Len(attempts)) = Len(attempts)
  <2> DEFINE n == Len(attempts)
  <2>1. n \in Nat BY <1>1
  <2> HIDE DEF n
  <2>2. /\ IsFiniteSet(1 .. n)
        /\ Cardinality(1 .. n) = IF 1 > n THEN 0 ELSE n - 1 + 1
    BY <2>1, FS_Interval
  <2>3. Cardinality(1 .. n) = n BY <2>1, <2>2
  <2> QED BY <2>2, <2>3 DEF n
<1>3. Effective(w) \subseteq 1 .. Len(attempts) BY <1>1 DEF Effective
<1>4. IsFiniteSet(Effective(w)) /\ Cardinality(Effective(w)) <= Len(attempts)
  BY <1>2, <1>3, FS_Subset
<1>5. effects[w] = Cardinality(Effective(w)) /\ effects[w] \in Nat BY DEF Inv, Counted, Types
<1>6. Cardinality(Effective(w)) = 0 <=> Effective(w) = {} BY <1>4, FS_EmptySet
<1> QED BY <1>4, <1>5, <1>6

(* What had an effect was let through.                                     *)
LEMMA EffectsWereAllowed ==
  ASSUME Inv, HadEffect
  PROVE  Refusal = "ok" /\ GatesPassed /\ WritesOf # {}
<1>1. PICK w \in Writes : effects[w] > 0 BY DEF HadEffect
<1>2. PICK i \in DOMAIN attempts : IF InTransaction THEN attempts[i].result = "done" /\ w \in WritesOf
                                   ELSE w \in attempts[i].wrote
  BY <1>1, EffectsAreAttempts DEF Effective
<1>3. Refusal = "ok" /\ WritesOf # {} BY <1>2 DEF Inv, Works
<1> QED BY <1>3, NotRefused DEF Inv

(* What a write may change: columns of a model, of the model itself or     *)
(* along a body the input nests; and none that only the program writes,    *)
(* but by an update a hook goes through.                                   *)
LEMMA WhatChanges ==
  ASSUME Fixed, NEW c \in Changes
  PROVE  /\ c.of \in Models /\ c.columns \subseteq Columns[c.of]
         /\ \/ /\ request.op \in {"create", "update"} /\ c.path = <<>> /\ c.columns \subseteq Input
               /\ \A f \in c.columns : IsStructurallyWritable(Meta[f])
            \/ \E n \in Nested :
                 /\ c.path = n.path /\ c.columns \subseteq n.columns
                 /\ \A f \in c.columns : IsStructurallyWritable(Meta[f]) \/ Rehooked(c.verb, c.of)
<1>1. ASSUME NEW m, NEW columns
      PROVE  /\ Kept(m, columns) \subseteq Columns[m] /\ Kept(m, columns) \subseteq columns
             /\ \A f \in Kept(m, columns) : IsStructurallyWritable(Meta[f])
  BY DEF Kept
<1>2. CASE request.op \in {"create", "update"} /\ c = OwnChange
  <2>1. c.path = <<>> /\ c.of = M /\ c.columns = Kept(M, Input) BY <1>2 DEF OwnChange
  <2>2. M \in Models BY Sent
  <2> QED BY <1>1, <1>2, <2>1, <2>2
<1>3. ASSUME NEW n \in Nested, NEW m \in LedTo(n.path), c = NestedChange(n, m)
      PROVE  /\ c.of \in Models /\ c.path = n.path
             /\ c.columns \subseteq Columns[c.of] /\ c.columns \subseteq n.columns
             /\ \A f \in c.columns : IsStructurallyWritable(Meta[f]) \/ Rehooked(c.verb, c.of)
  <2>1. /\ c.path = n.path /\ c.of = m /\ c.verb = n.verb
        /\ c.columns = IF Rehooked(n.verb, m) THEN n.columns \cap Columns[m] ELSE Kept(m, n.columns)
    BY <1>3 DEF NestedChange
  <2>2. m \in Models BY DEF LedTo
  <2> QED BY <1>1, <2>1, <2>2
<1>4. \/ request.op \in {"create", "update"} /\ c = OwnChange
      \/ \E n \in Nested : \E m \in LedTo(n.path) : c = NestedChange(n, m)
  BY Zenon DEF Changes
<1> QED BY <1>2, <1>3, <1>4

(* By what way a nested body comes: by the relation a route checked, or    *)
(* with a select or an input nobody parses.                                *)
LEMMA HowItIsNested ==
  ASSUME Fixed, NEW n \in Nested
  PROVE  \/ request.op = "relationMutate" /\ n.path # <<>> /\ n.path[1] = request.relation
         \/ request.op = "relationRemove" /\ n.path # <<>> /\ n.columns = {}
         \/ /\ request.op = "select" \/ (request.op \in {"create", "update"} /\ Unparsed)
            /\ n.path # <<>>
<1>1. request.relation \in STRING
      /\ \A b \in request.input.nested :
           /\ b \in [path : Seq(STRING), verb : {"create", "update"}, columns : SUBSET AllColumns]
           /\ b.path = <<>> => request.op = "relationMutate"
  BY FrontDoorsAssumption DEF Fixed
<1>2. CASE request.op = "relationMutate"
  <2>1. PICK b \in request.input.nested :
          n = [b EXCEPT !.path = <<request.relation>> \o b.path]
    BY <1>2 DEF Nested
  <2>2. b.path \in Seq(STRING) /\ n.path = <<request.relation>> \o b.path BY <1>1, <2>1
  <2>3. n.path # <<>> /\ n.path[1] = request.relation BY <1>1, <2>2
  <2> QED BY <1>2, <2>3
<1>3. CASE request.op = "relationRemove"
  <2>1. n = [path |-> <<request.relation>>, verb |-> "remove", columns |-> {}] BY <1>3 DEF Nested
  <2> QED BY <1>3, <2>1
<1>4. CASE request.op = "select" \/ (request.op \in {"create", "update"} /\ Unparsed)
  <2>1. n \in request.input.nested BY <1>4 DEF Nested
  <2> QED BY <1>1, <1>4, <2>1
<1>5. CASE ~ (\/ request.op \in {"relationMutate", "relationRemove", "select"}
              \/ (request.op \in {"create", "update"} /\ Unparsed))
  <2>1. Nested = {} BY <1>5 DEF Nested
  <2> QED BY <2>1
<1> QED BY <1>2, <1>3, <1>4, <1>5

(* The variables keep to their ranges: no write takes effect more often    *)
(* than the activity may run, and no column is set that no model has.      *)
THEOREM TypeCorrect == Spec => []TypeOK
<1>1. ASSUME Inv PROVE TypeOK
  <2>1. flow \in {"sent", "queued", "running", "done", "error", "no task queue", "read-only",
                  "not found", "forbidden", "denied-field", "unscoped-mutation", "validation", "context"}
    BY <1>1 DEF Inv, Types, Errors
  <2>2. \A i \in DOMAIN attempts : attempts[i] \in Attempt BY <1>1, Numbers
  <2>3. effects \in [Writes -> 0 .. MaxAttempts]
    <3>a. effects \in [Writes -> Nat] /\ Len(attempts) <= MaxAttempts BY <1>1 DEF Inv, Types
    <3>b. MaxAttempts \in Nat BY FrontDoorsAssumption DEF MaxAttempts
    <3>1. effects \in [Writes -> Nat] /\ Len(attempts) <= MaxAttempts /\ MaxAttempts \in Nat
      BY <3>a, <3>b
    <3>2. \A w \in Writes : effects[w] \in 0 .. MaxAttempts
      BY <1>1, <3>1, EffectsAreAttempts, Numbers
    <3> QED BY <3>1, <3>2
  <2>4. \A c \in changes : c.of \in Models /\ c.columns \subseteq Columns[c.of]
    <3>1. changes \subseteq Changes /\ Fixed BY <1>1 DEF Inv, Types
    <3> QED BY <3>1, WhatChanges
  <2> QED BY <2>1, <2>2, <2>3, <2>4 DEF TypeOK
<1> QED BY <1>1, Invariance, PTL

(* A shape that is given is never taken for a missing one.                 *)
LEMMA ShapesAreGiven ==
  ASSUME NEW m \in Models, NEW bag, IsModelAllowed(bag, m), NEW relations, NEW kind
  PROVE  /\ EntityShape(bag, m, relations) # Absence
         /\ \A k \in EntityShape(bag, m, relations) :
              \/ k \in Columns[m] /\ IsFieldExposed(Ignored[m], bag, m, k)
              \/ k \in DOMAIN Relations[m] /\ IsRelationshipAllowed(bag, m, k)
         /\ IsMutationAllowed(bag, m, kind) =>
              /\ InputShape(bag, m, kind) # Absence
              /\ \A f \in InputShape(bag, m, kind) :
                   IsInputFieldWritable(bag, m, f, kind, Meta[f]) /\ f \notin Ignored[m]
<1>1. "no schema" \notin Columns[m] /\ "no schema" \notin DOMAIN Relations[m] /\ "no schema" \in Absence
  BY FrontDoorsAssumption DEF Absence
<1>2. EntityShape(bag, m, relations) =
        {f \in Columns[m] \ Ignored[m] : IsFieldAllowed(bag, m, f)}
        \cup {r \in DOMAIN Relations[m] : relations /\ IsRelationshipAllowed(bag, m, r)}
  BY DEF EntityShape
<1>3. IsMutationAllowed(bag, m, kind) =>
        InputShape(bag, m, kind) =
          {f \in Columns[m] \ Ignored[m] : IsInputFieldWritable(bag, m, f, kind, Meta[f])}
  BY DEF InputShape
<1>4. "no schema" \notin EntityShape(bag, m, relations) BY <1>1, <1>2
<1>5. IsMutationAllowed(bag, m, kind) => "no schema" \notin InputShape(bag, m, kind) BY <1>1, <1>3
<1> QED BY <1>1, <1>2, <1>3, <1>4, <1>5 DEF IsFieldExposed

LEMMA WritesPermitted == ASSUME Inv PROVE WritesPassTheGates
<1> SUFFICES ASSUME HadEffect PROVE WritesPassTheGates BY DEF WritesPassTheGates
<1>1. GatesPassed /\ WritesOf # {} BY EffectsWereAllowed
<1>2. ~ OnlyFinds BY <1>1 DEF WritesOf
<1>3. Fixed /\ changes \subseteq Changes BY DEF Inv, Types
<1>4. M \in Models /\ IsModelAllowed(Bag, M) BY <1>1, <1>3, Sent, GuardsAreGuards DEF GatesPassed
<1>5. request.op \in EngineWrites \cup {"classMutation"} => ~ deployment.readOnly
  BY <1>1, <1>2, <1>3, GuardsAreGuards DEF GatesPassed
<1>6. request.op \in EngineWrites =>
         /\ IsMutationAllowed(Bag, M, Kind[request.op])
         /\ deployment.door = "temporalize" => IsAllowed(Bag["mutation"], M)
  BY <1>1, <1>2, <1>3, GuardsAreGuards DEF GatesPassed
<1>7. request.op \in {"update", "destroy", "remove", "select"} =>
         /\ request.where.given \/ request.all
         /\ \A f \in request.where.fields : IsFieldExposed(Ignored[M], Bag, M, f)
  BY <1>1, <1>2, <1>3, GuardsAreGuards DEF GatesPassed
<1>8. {"create", "update", "remove", "select"} \subseteq EngineWrites /\ Kind["create"] = "create"
      /\ Kind["update"] = "update"
  BY DEF EngineWrites, Kind
<1>9. request.op \in {"create", "update"} =>
         /\ InputShape(Bag, M, Kind[request.op]) # Absence
         /\ \A f \in InputShape(Bag, M, Kind[request.op]) :
              IsInputFieldWritable(Bag, M, f, Kind[request.op], Meta[f]) /\ f \notin Ignored[M]
  BY <1>4, <1>6, <1>8, ShapesAreGiven
<1>10. ASSUME NEW c \in changes, NEW f \in c.columns
       PROVE  /\ IsStructurallyWritable(Meta[f]) \/ (c.path # <<>> /\ Rehooked(c.verb, c.of))
              /\ c.path = <<>> /\ ~ Unparsed =>
                   IsInputFieldWritable(Bag, M, f, Kind[request.op], Meta[f]) /\ f \notin Ignored[M]
              /\ c.path # <<>> =>
                   \/ request.op = "relationMutate" /\ c.path[1] = request.relation
                   \/ request.op = "select" \/ (request.op \in {"create", "update"} /\ Unparsed)
  <2>1. c \in Changes BY <1>3
  <2> DEFINE Own == /\ request.op \in {"create", "update"} /\ c.path = <<>> /\ c.columns \subseteq Input
                    /\ \A g \in c.columns : IsStructurallyWritable(Meta[g])
             Below(n) == /\ c.path = n.path /\ c.columns \subseteq n.columns
                         /\ \A g \in c.columns : IsStructurallyWritable(Meta[g]) \/ Rehooked(c.verb, c.of)
  <2>2. Own \/ \E n \in Nested : Below(n) BY <1>3, <2>1, WhatChanges
  <2>3. CASE Own
    <3>1. ASSUME ~ Unparsed
          PROVE  IsInputFieldWritable(Bag, M, f, Kind[request.op], Meta[f]) /\ f \notin Ignored[M]
      <4>1. Input = Parsed(Bag, M, Kind[request.op], request.input) BY <2>3, <3>1 DEF Input
      <4>2. Input \subseteq InputShape(Bag, M, Kind[request.op]) BY <1>9, <2>3, <4>1 DEF Parsed
      <4> QED BY <1>9, <2>3, <4>2
    <3> QED BY <2>3, <3>1
  <2>4. ASSUME NEW n \in Nested, Below(n)
        PROVE  /\ c.path # <<>> /\ (IsStructurallyWritable(Meta[f]) \/ Rehooked(c.verb, c.of))
               /\ \/ request.op = "relationMutate" /\ c.path[1] = request.relation
                  \/ request.op = "select" \/ (request.op \in {"create", "update"} /\ Unparsed)
    BY <1>3, <2>4, HowItIsNested
  <2>5. CASE \E n \in Nested : Below(n) BY <2>4, <2>5
  <2> QED BY <2>2, <2>3, <2>5
<1>11. deployment.door = "nestize" /\ request.op \in {"create", "update", "remove", "select"} =>
         request.op \in Advertised
  <2> HAVE deployment.door = "nestize" /\ request.op \in {"create", "update", "remove", "select"}
  <2>1. ~ deployment.readOnly BY <1>5, <1>8
  <2>2. CASE request.op \in {"remove", "select"} BY <1>4, <2>1, <2>2 DEF Advertised
  <2>3. CASE request.op \in {"create", "update"}
    <3>1. InputShape(Bag, M, request.op) # Absence BY <1>8, <1>9, <2>3
    <3> QED BY <1>4, <2>1, <2>3, <3>1 DEF Advertised
  <2> QED BY <2>2, <2>3
<1>12. request.op \in {"relationMutate", "relationRemove"} => request.relation \in AdvertisedRelations
  BY <1>1, <1>3, GuardsAreGuards DEF GatesPassed, AdvertisedRelations
<1>13. /\ request.op = "transform" => IsMutationInstanceMethodAllowed(Bag, M, request.method)
       /\ request.op = "classMutation" => IsClassMethodAllowed(Bag, M, request.method, "mutations")
  BY <1>1, MethodGuard DEF GatesPassed
<1> QED BY <1>4, <1>5, <1>6, <1>7, <1>10, <1>11, <1>12, <1>13 DEF WritesPassTheGates

LEMMA NothingLeaks == ASSUME Inv PROVE NothingHiddenLeaves
<1> SUFFICES ASSUME flow = "done" PROVE NothingHiddenLeaves BY DEF NothingHiddenLeaves
<1>1. PICK i \in DOMAIN attempts : attempts[i].result = "done" BY DEF Inv, Told
<1>2. Fixed /\ Refusal = "ok" BY <1>1 DEF Inv, Works
<1>3. GatesPassed BY <1>2, NotRefused
<1>4. request.op = "relationGet" =>
        /\ deployment.includeRelations /\ request.relation \in DOMAIN Relations[M]
        /\ IsRelationshipAllowed(Bag, M, request.relation)
  BY <1>2, <1>3, GuardsAreGuards DEF GatesPassed
<1>5. request.op = "relationGet" => request.relation \in AdvertisedRelations
  BY <1>4 DEF AdvertisedRelations
<1>6. Shown \in Models BY <1>2, <1>4, Sent, FrontDoorsAssumption DEF Shown
<1>7. ASSUME IsModelAllowed(Bag, Shown), NEW k \in Answer
      PROVE  \/ k \in Columns[Shown] /\ IsFieldExposed(Ignored[Shown], Bag, Shown, k)
             \/ k \in DOMAIN Relations[Shown] /\ IsRelationshipAllowed(Bag, Shown, k)
  <2> DEFINE shape == EntityShape(Bag, Shown, deployment.door = "nestize" \/ deployment.includeRelations)
  <2>1. Answer = {} \/ Answer = Project(WholeRow(Shown), shape) BY DEF Answer
  <2>2. shape # Absence BY <1>6, <1>7, ShapesAreGiven
  <2>3. k \in shape BY <1>7, <2>1, <2>2 DEF Project
  <2> QED BY <1>6, <1>7, <2>3, ShapesAreGiven
<1>8. request.op \in {"list", "count", "select"} =>
        \A f \in request.where.fields : IsFieldExposed(Ignored[M], Bag, M, f)
  BY <1>2, <1>3, GuardsAreGuards DEF GatesPassed
<1>9. request.op \in {"list", "count"} => \A f \in request.order : IsFieldExposed(Ignored[M], Bag, M, f)
  BY <1>2, <1>3, GuardsAreGuards DEF GatesPassed
<1> QED BY <1>5, <1>7, <1>8, <1>9 DEF NothingHiddenLeaves

(* By whatever door and operation, and however often it ran again: nothing *)
(* takes effect but past the gates the door has for it, with the columns   *)
(* the bag or, further down, the engine lets be set; and nothing the bag   *)
(* hides is shown, or found by where the filter is asked about.            *)
THEOREM NothingPastTheGatesHolds == Spec => []NothingPastTheGates
<1>1. Inv => NothingPastTheGates BY WritesPermitted, NothingLeaks DEF NothingPastTheGates
<1> QED BY <1>1, Invariance, PTL

(* What the caller is told is what happened: nothing after a refusal, all  *)
(* of it after a success, no halves of what a transaction holds, and no    *)
(* write more often than there were faults to excuse it.                   *)
THEOREM ToldTheTruth == Spec => []ToldWhatHappened
<1>1. ASSUME Inv PROVE ToldWhatHappened
  <2>1. ~ Waiting /\ flow \notin {"done", "error"} => ~ HadEffect
    <3> SUFFICES ASSUME ~ Waiting, flow \notin {"done", "error"}, HadEffect PROVE FALSE OBVIOUS
    <3>1. Refusal = "ok" BY <1>1, EffectsWereAllowed
    <3>2. flow = "no task queue" BY <1>1, <3>1 DEF Inv, Types, Told, Waiting
    <3>3. attempts = <<>> BY <1>1, <3>2 DEF Inv, Excused
    <3>4. \A w : Effective(w) = {} BY <3>3, NoAttempts DEF Effective
    <3> QED BY <1>1, <3>4, EffectsAreAttempts DEF HadEffect
  <2>2. flow = "done" => \A w \in WritesOf : effects[w] > 0
    <3> SUFFICES ASSUME flow = "done", NEW w \in WritesOf PROVE effects[w] > 0 OBVIOUS
    <3>1. PICK i \in DOMAIN attempts : attempts[i].result = "done" BY <1>1 DEF Inv, Told
    <3>2. attempts[i].wrote = WritesOf BY <1>1, <3>1 DEF Inv, Works
    <3>3. i \in Effective(w) BY <3>1, <3>2 DEF Effective
    <3>4. w \in Writes BY DEF WritesOf
    <3> QED BY <1>1, <3>3, <3>4, EffectsAreAttempts
  <2>3. InTransaction => effects[1] = effects[2]
    <3> HAVE InTransaction
    <3>1. 1 \in Writes /\ 2 \in Writes /\ (1 \in WritesOf <=> 2 \in WritesOf) BY DEF Writes, WritesOf
    <3>2. Effective(1) = Effective(2) BY <3>1 DEF Effective
    <3> QED BY <1>1, <3>1, <3>2 DEF Inv, Counted
  <2>4. Len(attempts) <= 1 + faults BY <1>1, Numbers
  <2>5. \A w \in Writes : effects[w] <= 1 + faults BY <1>1, Numbers, EffectsAreAttempts
  <2> QED BY <2>1, <2>2, <2>3, <2>4, <2>5 DEF ToldWhatHappened
<1> QED BY <1>1, Invariance, PTL

-------------------------------------------------------------------------------
(* Numbers in order. *)

Below(S, x) == {y \in S : y < x}
Increasing(s) == \A i, j \in DOMAIN s : i < j => s[i] < s[j]

\* The rank of a number is below the size of the set, and grows with it.
LEMMA BelowGrows ==
  ASSUME NEW S \in SUBSET Int, IsFiniteSet(S), NEW x \in S
  PROVE  /\ Cardinality(Below(S, x)) \in 0 .. Cardinality(S) - 1
         /\ \A y \in S : x < y => Cardinality(Below(S, x)) < Cardinality(Below(S, y))
<1>1. ASSUME NEW T \in SUBSET S, x \in T, Below(S, x) \subseteq T
      PROVE  Cardinality(T) \in Nat /\ Cardinality(Below(S, x)) \in Nat /\ Cardinality(Below(S, x)) < Cardinality(T)
  <2>1. IsFiniteSet(T) BY FS_Subset
  <2>2. Cardinality(T) \in Nat BY <2>1, FS_CardinalityType
  <2>3. IsFiniteSet(Below(S, x)) BY <1>1, <2>1, FS_Subset
  <2>4. Cardinality(Below(S, x)) \in Nat BY <2>3, FS_CardinalityType
  <2>5. x \notin Below(S, x) BY DEF Below
  <2>6. Cardinality(Below(S, x)) <= Cardinality(T) /\ (Cardinality(T) = Cardinality(Below(S, x)) => T = Below(S, x))
    BY <1>1, <2>1, FS_Subset
  <2> QED BY <1>1, <2>2, <2>4, <2>5, <2>6
<1>2. Cardinality(Below(S, x)) \in 0 .. Cardinality(S) - 1
  <2>1. Below(S, x) \subseteq S BY DEF Below
  <2>2. Cardinality(S) \in Nat /\ Cardinality(Below(S, x)) \in Nat /\ Cardinality(Below(S, x)) < Cardinality(S)
    BY <1>1, <2>1
  <2> QED BY <2>2
<1>3. ASSUME NEW y \in S, x < y
      PROVE  Cardinality(Below(S, x)) < Cardinality(Below(S, y))
  <2>1. Below(S, y) \in SUBSET S /\ x \in Below(S, y) BY <1>3 DEF Below
  <2>2. Below(S, x) \subseteq Below(S, y)
    <3> SUFFICES ASSUME NEW z \in S, z < x PROVE z < y BY DEF Below
    <3> QED BY <1>3
  <2> QED BY <1>1, <2>1, <2>2
<1> QED BY <1>2, <1>3

\* The instance counts as the module does.
LEMMA CursorsCardinality == ASSUME NEW S PROVE Cursors!Cardinality(S) = Cardinality(S)
BY Zenon DEF Cursors!Cardinality, Cardinality, Cursors!IsFiniteSet, IsFiniteSet

\* Every rank is taken, by one number only.
LEMMA InOrderByRank ==
  ASSUME NEW S, NEW s, s = Cursors!InOrder(S)
  PROVE  /\ s = [i \in 1 .. Cardinality(S) |-> s[i]]
         /\ \A i \in 1 .. Cardinality(S), x \in S :
              Cardinality(Below(S, x)) = i - 1 => s[i] \in S /\ Cardinality(Below(S, s[i])) = i - 1
<1>1. Cursors!Cardinality(S) = Cardinality(S) BY CursorsCardinality
<1>2. s = [i \in 1 .. Cardinality(S) |-> s[i]]
  <2> DEFINE at(i) == CHOOSE x \in S : Cursors!Cardinality({y \in S : y < x}) = i - 1
  <2>1. s = [i \in 1 .. Cardinality(S) |-> at(i)] BY <1>1, Zenon DEF Cursors!InOrder
  <2> HIDE DEF at
  <2> QED BY <2>1
<1>3. ASSUME NEW i \in 1 .. Cardinality(S), NEW x \in S, Cardinality(Below(S, x)) = i - 1
      PROVE  s[i] \in S /\ Cardinality(Below(S, s[i])) = i - 1
  <2>1. s[i] = CHOOSE z \in S : Cursors!Cardinality({y \in S : y < z}) = i - 1 BY <1>1 DEF Cursors!InOrder
  <2>2. Cursors!Cardinality({y \in S : y < x}) = i - 1 BY <1>3, CursorsCardinality DEF Below
  <2>3. s[i] \in S /\ Cursors!Cardinality({y \in S : y < s[i]}) = i - 1 BY <2>1, <2>2
  <2> QED BY <2>3, CursorsCardinality DEF Below
<1> QED BY <1>2, <1>3

(* The members of a finite set, each once, in ascending order. *)
LEMMA InOrderIs ==
  ASSUME NEW S \in SUBSET Int, IsFiniteSet(S), NEW s, s = Cursors!InOrder(S)
  PROVE  /\ s \in Seq(S) /\ Len(s) = Cardinality(S) /\ DOMAIN s = 1 .. Len(s)
         /\ Increasing(s) /\ {s[i] : i \in DOMAIN s} = S
<1> DEFINE n == Cardinality(S)
           rank == [x \in S |-> Cardinality(Below(S, x)) + 1]
<1>1. n \in Nat BY FS_CardinalityType
<1>2. \A x \in S : Cardinality(Below(S, x)) \in 0 .. n - 1 BY BelowGrows
<1> HIDE DEF n
<1>3. rank \in [S -> 1 .. n] BY <1>1, <1>2
<1>4. \A x, y \in S : x < y => rank[x] < rank[y]
  <2> TAKE x, y \in S
  <2>1. Cardinality(Below(S, x)) \in Int /\ Cardinality(Below(S, y)) \in Int BY <1>1, <1>2
  <2>2. x < y => Cardinality(Below(S, x)) < Cardinality(Below(S, y)) BY BelowGrows
  <2> QED BY <2>1, <2>2
<1>5. \A x, y \in S : rank[x] = rank[y] => x = y
  <2> TAKE x, y \in S
  <2>1. x \in Int /\ y \in Int /\ rank[x] \in Int /\ rank[y] \in Int BY <1>1, <1>3
  <2>2. x < y \/ y < x \/ x = y BY <2>1
  <2> QED BY <1>4, <2>1, <2>2
<1>6. rank \in Injection(S, 1 .. n) BY <1>3, <1>5 DEF Injection, IsInjective
<1>7. IsFiniteSet(1 .. n) /\ Cardinality(1 .. n) = n BY <1>1, FS_Interval
<1>8. rank \in Surjection(S, 1 .. n) BY <1>6, <1>7, FS_Injection DEF n
<1>9. \A i \in 1 .. n : \E x \in S : rank[x] = i BY <1>8 DEF Surjection
<1>10. ASSUME NEW i \in 1 .. n
       PROVE  s[i] \in S /\ rank[s[i]] = i
  <2>2. PICK x \in S : rank[x] = i BY <1>9
  <2>3. Cardinality(Below(S, x)) = i - 1 BY <1>1, <1>2, <2>2
  <2>4. s[i] \in S /\ Cardinality(Below(S, s[i])) = i - 1 BY <2>3, InOrderByRank DEF n
  <2> QED BY <1>1, <2>4
<1>11. s = [i \in 1 .. n |-> s[i]] BY InOrderByRank DEF n
<1>12. s \in Seq(S) /\ Len(s) = n /\ DOMAIN s = 1 .. n
  <2>1. \A i \in 1 .. n : s[i] \in S BY <1>10
  <2>2. s \in [1 .. n -> S] BY <1>11, <2>1
  <2> QED BY <1>1, <2>2
<1>13. Increasing(s)
  <2> SUFFICES ASSUME NEW i \in 1 .. n, NEW j \in 1 .. n, i < j PROVE s[i] < s[j]
    BY <1>12 DEF Increasing
  <2>1. s[i] \in S /\ rank[s[i]] = i /\ s[j] \in S /\ rank[s[j]] = j BY <1>10
  <2>2. s[i] \in Int /\ s[j] \in Int BY <2>1
  <2>3. s[j] < s[i] => j < i BY <1>4, <2>1
  <2>4. ~ (s[j] < s[i]) /\ s[i] # s[j] BY <1>1, <2>1, <2>3
  <2> QED BY <2>2, <2>4
<1>14. \A x \in S : s[rank[x]] = x BY <1>3, <1>5, <1>10
<1>15. {s[i] : i \in DOMAIN s} = S
  <2>1. \A x \in S : rank[x] \in DOMAIN s /\ s[rank[x]] = x BY <1>3, <1>12, <1>14
  <2>2. \A i \in DOMAIN s : s[i] \in S BY <1>10, <1>12
  <2> HIDE DEF rank
  <2> QED BY <2>1, <2>2
<1> QED BY <1>12, <1>13, <1>15 DEF n

(* There is one such sequence. *)
LEMMA OnlyInOrder ==
  ASSUME NEW S \in SUBSET Int, NEW s \in Seq(S), Increasing(s), {s[i] : i \in DOMAIN s} = S
  PROVE  IsFiniteSet(S) /\ s = Cursors!InOrder(S)
<1> DEFINE n == Len(s)
<1>1. n \in Nat /\ DOMAIN s = 1 .. n /\ s \in [1 .. n -> S] BY LenProperties
<1> HIDE DEF n
<1>2. ASSUME NEW i \in 1 .. n, NEW j \in 1 .. n
      PROVE  s[i] \in S /\ s[i] \in Int /\ (i < j => s[i] < s[j]) /\ (s[i] < s[j] => i < j) /\ (s[i] = s[j] => i = j)
  <2>1. s[i] \in S /\ s[i] \in Int /\ s[j] \in Int BY <1>1
  <2>2. (i < j => s[i] < s[j]) /\ (j < i => s[j] < s[i]) BY <1>1 DEF Increasing
  <2>3. i < j \/ j < i \/ i = j BY <1>1
  <2> QED BY <2>1, <2>2, <2>3
<1>3. \A m \in 0 .. n : IsFiniteSet({s[i] : i \in 1 .. m}) /\ Cardinality({s[i] : i \in 1 .. m}) = m
  <2> TAKE m \in 0 .. n
  <2> DEFINE T == {s[i] : i \in 1 .. m}
             f == [i \in 1 .. m |-> s[i]]
  <2>1. 1 .. m \subseteq 1 .. n BY <1>1
  <2>2. f \in [1 .. m -> T] /\ (\A i, j \in 1 .. m : f[i] = f[j] => i = j) /\ \A t \in T : \E i \in 1 .. m : f[i] = t
    BY <1>2, <2>1
  <2>3. f \in Bijection(1 .. m, T) BY <2>2 DEF Bijection, Injection, Surjection, IsInjective
  <2>4. IsFiniteSet(1 .. m) /\ Cardinality(1 .. m) = m BY FS_Interval, <1>1
  <2>5. ExistsBijection(1 .. m, T) BY <2>3 DEF ExistsBijection
  <2>6. IsFiniteSet(T) /\ Cardinality(T) = m
    <3> HIDE DEF T, f
    <3> QED BY <2>4, <2>5, FS_Bijection
  <2> QED BY <2>6
<1>4. S = {s[i] : i \in 1 .. n} BY <1>1
<1>5. IsFiniteSet(S) /\ Cardinality(S) = n
  <2>1. n \in 0 .. n BY <1>1
  <2> QED BY <1>3, <1>4, <2>1
<1>6. ASSUME NEW i \in 1 .. n PROVE Cardinality(Below(S, s[i])) = i - 1
  <2>1. Below(S, s[i]) = {s[j] : j \in 1 .. i - 1}
    <3>1. \A y : y \in Below(S, s[i]) <=> \E j \in 1 .. n : y = s[j] /\ s[j] < s[i] BY <1>4 DEF Below
    <3>2. \A j \in 1 .. n : s[j] < s[i] <=> j \in 1 .. i - 1 BY <1>1, <1>2
    <3>3. 1 .. i - 1 \subseteq 1 .. n BY <1>1
    <3> QED BY <3>1, <3>2, <3>3
  <2>2. i - 1 \in 0 .. n BY <1>1
  <2> QED BY <1>3, <2>1, <2>2
<1>7. \A i, j \in 1 .. n : Cardinality(Below(S, s[j])) = i - 1 => j = i
  <2> TAKE i, j \in 1 .. n
  <2>1. Cardinality(Below(S, s[j])) = j - 1 BY <1>6
  <2> QED BY <1>1, <2>1
<1> DEFINE t == Cursors!InOrder(S)
<1>8. /\ t = [i \in 1 .. n |-> t[i]]
      /\ \A i \in 1 .. n, x \in S :
           Cardinality(Below(S, x)) = i - 1 => t[i] \in S /\ Cardinality(Below(S, t[i])) = i - 1
  BY <1>5, InOrderByRank
<1> HIDE DEF t
<1>9. ASSUME NEW i \in 1 .. n PROVE t[i] = s[i]
  <2>1. t[i] \in S /\ Cardinality(Below(S, t[i])) = i - 1 BY <1>2, <1>6, <1>8
  <2>2. PICK j \in 1 .. n : t[i] = s[j] BY <1>4, <2>1
  <2> QED BY <1>7, <2>1, <2>2
<1>10. s = [i \in 1 .. n |-> s[i]] BY <1>1
<1>11. s = t BY <1>8, <1>9, <1>10
<1> QED BY <1>5, <1>11 DEF t

-------------------------------------------------------------------------------
(* The window a page's arguments ask for. *)

Args == [first : Int, last : Int, after : Int, before : Int]
Fits(a, q) ==
  /\ a \in Args /\ {a.after, a.before} \subseteq Nat \cup {Cursors!None} /\ Cursors!OneWindow(a, q)
  /\ q.road # "rest" => a = Cursors!AskedOf(q)

From(a, n) ==
  IF a.after # Cursors!None THEN a.after + 1
  ELSE IF a.before # Cursors!None THEN Cursors!Greatest(0, a.before - Cursors!SizeOf(a))
  ELSE IF a.last # Cursors!None THEN Cursors!Greatest(0, n - Cursors!SizeOf(a)) ELSE 0
Upto(a) == IF a.before = Cursors!None THEN Cursors!SizeOf(a) ELSE Cursors!Least(Cursors!SizeOf(a), a.before)
Page(list, a) == Cursors!Slice(list, From(a, Len(list)), Upto(a))

\* A page holds a row, and no more than the largest page there may be.
LEMMA SizeIs ==
  ASSUME NEW a \in Args
  PROVE  Cursors!SizeOf(a) \in 1 .. MaxPageSize
BY PagesAssumption DEF Args, Cursors!SizeOf, Cursors!SizeGiven, Cursors!ClampPageSize, Cursors!Least, Cursors!None

\* A window lies at a position; only "last" alone needs the length of the list.
LEMMA WindowIs ==
  ASSUME NEW a \in Args, {a.after, a.before} \subseteq Nat \cup {Cursors!None}, NEW n \in Nat
  PROVE  /\ Upto(a) \in Nat /\ From(a, n) \in Nat
         /\ ~ Cursors!LastOnly(a) => From(a, n) = From(a, 0) /\ (a.after = Cursors!None \/ a.before = Cursors!None => From(a, n) = Cursors!CursorOffset(a))
         /\ (a.before # 0 => Upto(a) > 0)
<1>1. Cursors!SizeOf(a) \in Nat /\ Cursors!SizeOf(a) > 0 BY SizeIs, PagesAssumption
<1>2. a.after \in Int /\ a.before \in Int /\ a.last \in Int BY DEF Args
<1>3. a.after # Cursors!None => a.after \in Nat OBVIOUS
<1>4. a.before # Cursors!None => a.before \in Nat OBVIOUS
<1> QED BY <1>1, <1>2, <1>3, <1>4
        DEF Upto, From, Cursors!LastOnly, Cursors!CursorOffset, Cursors!Greatest, Cursors!Least, Cursors!None

(* The three plans, and the cut in memory, are one window. *)
LEMMA PlansAgree ==
  ASSUME NEW a, NEW q, Fits(a, q), NEW n \in Nat
  PROVE  /\ Cursors!CountsBefore(q, a) <=> Cursors!LastOnly(a)
         /\ Cursors!LastOnly(a) => /\ Cursors!ClampPageSize(a.last) = Cursors!SizeOf(a) /\ Upto(a) = Cursors!SizeOf(a)
                                   /\ From(a, n) = Cursors!Greatest(0, n - Cursors!SizeOf(a))
         /\ Cursors!RootPlan(a).limit = Upto(a)
         /\ ~ Cursors!LastOnly(a) => Cursors!RootPlan(a).offset = From(a, 0) /\ Cursors!CursorOffset(a) = From(a, 0)
         /\ From(a, n) = Cursors!PageOffset(a, n)
<1>1. Cursors!SizeOf(a) \in Nat /\ Cursors!SizeOf(a) > 0 BY SizeIs, PagesAssumption DEF Fits
<1>2. a.after \in Int /\ a.before \in Int /\ a.last \in Int BY DEF Args, Fits
<1>3. (a.after # Cursors!None => a.after \in Nat) /\ (a.before # Cursors!None => a.before \in Nat) BY DEF Fits
<1>4. (a.first = Cursors!None \/ a.last = Cursors!None) /\ (a.after = Cursors!None \/ a.before = Cursors!None)
  BY DEF Fits, Cursors!OneWindow
<1>5. a.last # Cursors!None => Cursors!ClampPageSize(a.last) = Cursors!SizeOf(a)
  BY <1>4 DEF Cursors!SizeOf, Cursors!SizeGiven
<1>6. Cursors!CountsBefore(q, a) <=> Cursors!LastOnly(a)
  BY <1>4 DEF Cursors!CountsBefore, Cursors!LastOnly
<1>7. Cursors!LastOnly(a) => Upto(a) = Cursors!SizeOf(a) /\ From(a, n) = Cursors!Greatest(0, n - Cursors!SizeOf(a))
  BY DEF Cursors!LastOnly, Upto, From
<1>8. Cursors!RootPlan(a).limit = Upto(a) /\ Cursors!RootPlan(a).offset = Cursors!CursorOffset(a)
  BY DEF Cursors!RootPlan, Upto
<1>9. ~ Cursors!LastOnly(a) => Cursors!CursorOffset(a) = From(a, 0)
  BY <1>4 DEF Cursors!LastOnly, Cursors!CursorOffset, From
<1>10. From(a, n) = Cursors!PageOffset(a, n)
  <2>1. Cursors!LastOnly(a) => Cursors!ClampPageSize(a.last) = Cursors!SizeOf(a) BY <1>5 DEF Cursors!LastOnly
  <2>2. CASE a.before = Cursors!None BY <1>1, <1>2, <1>3, <1>4, <1>5, <2>2 DEF From, Cursors!PageOffset
  <2>3. CASE a.before # Cursors!None
    BY <1>1, <1>2, <1>3, <1>4, <2>3 DEF From, Cursors!PageOffset, Cursors!Greatest, Cursors!Least
  <2> QED BY <2>2, <2>3
<1> QED BY <1>5, <1>6, <1>7, <1>8, <1>9, <1>10 DEF Cursors!LastOnly

\* A relationship's plan, with the size written back and clamped again, is the same window.
LEMMA RelationsAgree ==
  ASSUME NEW a, NEW q, Fits(a, q), ~ Cursors!Root(q), ~ q.countOnly
  PROVE  /\ Cursors!RelationPlan(a).limit = Upto(a)
         /\ Cursors!RelationPlan(a).offset = Cursors!CursorOffset(a)
         /\ Cursors!Paginated(a)
         /\ Cursors!SizeGiven(Cursors!RelationArgs(a)) # Cursors!None
<1>1. Cursors!SizeOf(a) \in 1 .. MaxPageSize /\ MaxPageSize \in Nat BY SizeIs, PagesAssumption DEF Fits
<1>2. a \in Args /\ Cursors!SizeGiven(a) # Cursors!None /\ (a.first = Cursors!None \/ a.last = Cursors!None)
  BY DEF Fits, Cursors!OneWindow
<1>3. a.before # Cursors!None => a.before \in Nat /\ a.before > 0 BY DEF Fits, Cursors!OneWindow
<1>4. Cursors!SizeOf(Cursors!RelationArgs(a)) = Upto(a) /\ Cursors!SizeGiven(Cursors!RelationArgs(a)) # Cursors!None
  <2>1. CASE a.before = Cursors!None BY <1>2, <2>1 DEF Upto, Cursors!RelationArgs
  <2>2. CASE a.before # Cursors!None
    <3> DEFINE c == Cursors!Least(Cursors!SizeOf(a), a.before)
    <3>1. c \in 1 .. MaxPageSize BY <1>1, <1>3, <2>2 DEF Cursors!Least
    <3> HIDE DEF c
    <3>2. Cursors!ClampPageSize(c) = c BY <1>1, <3>1 DEF Cursors!ClampPageSize, Cursors!Least
    <3>3. Cursors!SizeGiven(Cursors!RelationArgs(a)) = c
      <4>1. Cursors!RelationArgs(a) = IF a.first # Cursors!None THEN [a EXCEPT !.first = c] ELSE [a EXCEPT !.last = c]
        BY <2>2 DEF Cursors!RelationArgs, c
      <4>2. c # Cursors!None BY <3>1 DEF Cursors!None
      <4> QED BY <1>2, <4>1, <4>2 DEF Args, Cursors!SizeGiven
    <3>4. Upto(a) = c BY <2>2 DEF Upto, c
    <3> QED BY <3>1, <3>2, <3>3, <3>4 DEF Cursors!SizeOf, Cursors!None
  <2> QED BY <2>1, <2>2
<1>5. Cursors!RelationPlan(a).limit = Cursors!SizeOf(Cursors!RelationArgs(a)) BY <1>2 DEF Cursors!RelationPlan
<1>6. Cursors!Paginated(a) BY <1>2 DEF Cursors!SizeGiven, Cursors!Paginated
<1> QED BY <1>4, <1>5, <1>6 DEF Cursors!RelationPlan

\* So is the window that goes into the parent's query, and the cut of what came without one.
LEMMA PreloadsAgree ==
  ASSUME NEW a, NEW q, Fits(a, q), Cursors!Preloaded(q, a)
  PROVE  /\ ~ Cursors!Root(q) /\ ~ q.countOnly
         /\ Cursors!Separate(q, a) => /\ ~ Cursors!LastOnly(a)
                                      /\ Cursors!SeparatePlan(a).limit = Upto(a)
                                      /\ Cursors!SeparatePlan(a).offset = From(a, 0)
         /\ ~ Cursors!Separate(q, a) => Cursors!SizeGiven(Cursors!RelationArgs(a)) = Upto(a)
<1>1. q.road = "eager" /\ ~ Cursors!Root(q) /\ ~ q.countOnly BY DEF Cursors!Preloaded, Cursors!Root
<1>2. Cursors!SizeOf(a) \in 1 .. MaxPageSize /\ MaxPageSize \in Nat BY SizeIs, PagesAssumption DEF Fits
<1>3. a.before # Cursors!None => a.before \in Nat /\ a.before > 0 BY <1>1 DEF Fits, Cursors!OneWindow
<1>4. Cursors!Paginated(a) BY <1>1, RelationsAgree
<1>5. ASSUME Cursors!Separate(q, a) PROVE ~ Cursors!LastOnly(a)
  <2>1. Cursors!LastOnly(a) => a.first = Cursors!None BY DEF Fits, Cursors!OneWindow, Cursors!LastOnly
  <2>2. q.separate \/ a.last <= 0 => ~ Cursors!LastOnly(a) BY <1>1 DEF Fits, Cursors!OneWindow
  <2>3. a.last \in Int BY DEF Fits, Args
  <2>4. q.separate \/ ~ (Cursors!LastOnly(a) /\ a.last > 0 /\ a.first = Cursors!None) BY <1>5 DEF Cursors!Separate
  <2> QED BY <2>1, <2>2, <2>3, <2>4
<1>6. ASSUME Cursors!Separate(q, a)
      PROVE  Cursors!SeparatePlan(a).limit = Upto(a) /\ Cursors!SeparatePlan(a).offset = From(a, 0)
  <2>1. ~ Cursors!LastOnly(a) BY <1>5, <1>6
  <2>2. a.after \in Int /\ a.before \in Int /\ (a.after = Cursors!None \/ a.before = Cursors!None) BY DEF Fits, Cursors!OneWindow, Args
  <2>3. Cursors!SeparatePlan(a).limit = Upto(a) BY DEF Cursors!SeparatePlan, Upto
  <2>4. Cursors!SeparatePlan(a).offset = IF a.before # Cursors!None THEN Cursors!Greatest(0, a.before - Upto(a)) ELSE a.after + 1
    BY DEF Cursors!SeparatePlan, Upto
  <2>5. CASE a.before = Cursors!None
    <3>1. a.after = Cursors!None => From(a, 0) = 0 BY <2>1, <2>5 DEF Cursors!LastOnly, From
    <3> QED BY <2>2, <2>3, <2>4, <2>5, <3>1 DEF From, Cursors!None
  <2>6. CASE a.before # Cursors!None
    BY <1>2, <1>3, <2>2, <2>3, <2>4, <2>6 DEF From, Upto, Cursors!Greatest, Cursors!Least
  <2> QED BY <2>5, <2>6
<1>7. ASSUME ~ Cursors!Separate(q, a) PROVE Cursors!SizeGiven(Cursors!RelationArgs(a)) = Upto(a)
  <2>1. q.relation = "required" BY <1>4, <1>7 DEF Cursors!Preloaded
  <2>2. Cursors!SizeGiven(a) \in 1 .. MaxPageSize BY <1>1, <2>1 DEF Fits, Cursors!OneWindow
  <2>3. Cursors!SizeOf(a) = Cursors!SizeGiven(a)
    BY <1>2, <2>2 DEF Cursors!SizeOf, Cursors!ClampPageSize, Cursors!Least
  <2>4. CASE a.before = Cursors!None BY <2>3, <2>4 DEF Cursors!RelationArgs, Upto
  <2>5. CASE a.before # Cursors!None
    <3> DEFINE c == Cursors!Least(Cursors!SizeOf(a), a.before)
    <3>1. Cursors!RelationArgs(a) = IF a.first # Cursors!None THEN [a EXCEPT !.first = c] ELSE [a EXCEPT !.last = c]
      BY <2>5 DEF Cursors!RelationArgs
    <3>2. c # Cursors!None /\ Upto(a) = c BY <1>2, <1>3, <2>5 DEF Cursors!None, Cursors!Least, Upto
    <3> HIDE DEF c
    <3>3. a \in Args BY DEF Fits
    <3> QED BY <3>1, <3>2, <3>3 DEF Args, Cursors!SizeGiven
  <2> QED BY <2>4, <2>5
<1> QED BY <1>1, <1>5, <1>6, <1>7

-------------------------------------------------------------------------------
(* What is cut from a list, and what of it is shown. *)

\* LIMIT and OFFSET: how many rows there are, and which.
LEMMA SliceIs ==
  ASSUME NEW list \in Seq(Int), NEW offset \in Nat, NEW limit \in Nat, NEW s, s = Cursors!Slice(list, offset, limit)
  PROVE  /\ s \in Seq(Int) /\ DOMAIN s = 1 .. Len(s)
         /\ Len(s) = IF offset + limit <= Len(list) THEN limit
                     ELSE IF offset <= Len(list) THEN Len(list) - offset ELSE 0
         /\ \A i \in 1 .. Len(s) : s[i] = list[offset + i]
<1> DEFINE to == Cursors!Least(offset + limit, Len(list))
<1>1. Len(list) \in Nat /\ to \in Nat /\ to <= Len(list) /\ to <= offset + limit /\ (to = Len(list) \/ to = offset + limit)
  BY DEF Cursors!Least
<1>2. s = SubSeq(list, offset + 1, to) BY DEF Cursors!Slice
<1> HIDE DEF to
<1>3. \A i \in offset + 1 .. to : list[i] \in Int BY <1>1
<1>4. /\ s \in Seq(Int) /\ Len(s) = IF offset + 1 <= to THEN to - (offset + 1) + 1 ELSE 0
      /\ \A i \in 1 .. to - (offset + 1) + 1 : s[i] = list[offset + 1 + i - 1]
  BY <1>1, <1>2, <1>3, SubSeqProperties
<1>5. DOMAIN s = 1 .. Len(s) BY <1>4, LenProperties
<1>6. \A i \in 1 .. Len(s) : s[i] = list[offset + i]
  <2> TAKE i \in 1 .. Len(s)
  <2>1. i \in 1 .. to - (offset + 1) + 1 /\ offset + 1 + i - 1 = offset + i BY <1>1, <1>4
  <2> QED BY <1>4, <2>1
<1>7. Len(s) = IF offset + limit <= Len(list) THEN limit
               ELSE IF offset <= Len(list) THEN Len(list) - offset ELSE 0
  BY <1>1, <1>4
<1> QED BY <1>4, <1>5, <1>6, <1>7

\* One row of it.
LEMMA SliceRow ==
  ASSUME NEW list \in Seq(Int), NEW offset \in Nat, NEW limit \in Nat, NEW s, s = Cursors!Slice(list, offset, limit),
         NEW i \in 1 .. Len(s)
  PROVE  s[i] = list[offset + i]
<1> DEFINE to == Cursors!Least(offset + limit, Len(list))
<1>1. Len(list) \in Nat /\ to \in Nat /\ to <= Len(list) BY DEF Cursors!Least
<1>2. s = SubSeq(list, offset + 1, to) BY DEF Cursors!Slice
<1> HIDE DEF to
<1>3. \A j \in offset + 1 .. to : list[j] \in Int BY <1>1
<1>4. /\ Len(s) = IF offset + 1 <= to THEN to - (offset + 1) + 1 ELSE 0
      /\ \A j \in 1 .. to - (offset + 1) + 1 : s[j] = list[offset + 1 + j - 1]
  BY <1>1, <1>2, <1>3, SubSeqProperties
<1>5. i \in 1 .. to - (offset + 1) + 1 /\ offset + 1 + i - 1 = offset + i BY <1>1, <1>4
<1>6. s[i] = list[offset + 1 + i - 1] BY <1>4, <1>5
<1> QED BY <1>5, <1>6

Unveiled(rows) == {i \in DOMAIN rows : rows[i] \notin Veiled}
Edges == [row : Int, index : Int, cursor : Cursors!SentCursors]

\* The edges of a page: the rows that are not withheld, in order, at their positions.
LEMMA PositionedIs ==
  ASSUME NEW rows \in Seq(Int), NEW offset \in Nat, Head(codecs) \in {"old", "new"},
         NEW edges, edges = Cursors!Positioned(rows, offset), NEW shown, shown = Cursors!InOrder(Unveiled(rows))
  PROVE  /\ edges \in Seq(Edges) /\ DOMAIN edges = 1 .. Len(edges)
         /\ shown \in Seq(Unveiled(rows)) /\ DOMAIN shown = DOMAIN edges /\ Increasing(shown)
         /\ {shown[k] : k \in DOMAIN shown} = Unveiled(rows)
         /\ \A k \in DOMAIN edges : /\ edges[k].row = rows[shown[k]] /\ edges[k].index = offset + shown[k] - 1
                                    /\ edges[k].cursor.index = offset + shown[k] - 1
                                    /\ edges[k].index \in Nat /\ shown[k] \in DOMAIN rows
<1>1. DOMAIN rows = 1 .. Len(rows) /\ Len(rows) \in Nat BY LenProperties
<1>2. Unveiled(rows) \in SUBSET Int /\ Unveiled(rows) \in SUBSET (1 .. Len(rows)) BY <1>1 DEF Unveiled
<1>3. IsFiniteSet(Unveiled(rows))
  <2>1. IsFiniteSet(1 .. Len(rows)) BY <1>1, FS_Interval
  <2> QED BY <1>2, <2>1, FS_Subset
<1>4. /\ shown \in Seq(Unveiled(rows)) /\ DOMAIN shown = 1 .. Len(shown) /\ Increasing(shown)
      /\ {shown[k] : k \in DOMAIN shown} = Unveiled(rows)
  BY <1>2, <1>3, InOrderIs
<1>5. edges = [k \in DOMAIN shown |-> [row |-> rows[shown[k]], index |-> offset + shown[k] - 1,
                cursor |-> [codec |-> Head(codecs), connection |-> "connection", index |-> offset + shown[k] - 1]]]
  BY DEF Cursors!Positioned, Cursors!Cursor, Cursors!Name, Unveiled
<1>6. Len(shown) \in Nat /\ \A k \in 1 .. Len(shown) : shown[k] \in Unveiled(rows) BY <1>4, LenProperties
<1>7. \A k \in 1 .. Len(shown) : shown[k] \in 1 .. Len(rows) /\ rows[shown[k]] \in Int
  BY <1>1, <1>2, <1>6
<1>8. \A k \in 1 .. Len(shown) : offset + shown[k] - 1 \in Nat BY <1>1, <1>7
<1>9. \A k \in 1 .. Len(shown) : edges[k] \in Edges
  <2> TAKE k \in 1 .. Len(shown)
  <2> DEFINE r == rows[shown[k]]  i == offset + shown[k] - 1
  <2>1. edges[k] = [row |-> r, index |-> i, cursor |-> [codec |-> Head(codecs), connection |-> "connection", index |-> i]]
    BY <1>4, <1>5
  <2>2. r \in Int /\ i \in Int BY <1>7, <1>8
  <2> DEFINE c == [codec |-> Head(codecs), connection |-> "connection", index |-> i]
  <2>3. edges[k] = [row |-> r, index |-> i, cursor |-> c] BY <2>1
  <2>4. c \in Cursors!SentCursors
    <3>1. i \in Nat BY <1>8
    <3> HIDE DEF i
    <3> QED BY <3>1 DEF Cursors!SentCursors, Cursors!Name
  <2> HIDE DEF r, i, c
  <2> QED BY <2>2, <2>3, <2>4 DEF Edges
<1>10. edges \in [1 .. Len(shown) -> Edges]
  <2>1. edges = [k \in 1 .. Len(shown) |-> edges[k]] BY <1>4, <1>5
  <2> QED BY <1>9, <2>1
<1>11. edges \in Seq(Edges) /\ DOMAIN edges = 1 .. Len(edges) /\ Len(edges) = Len(shown) BY <1>6, <1>10
<1>12. \A k \in DOMAIN edges : /\ edges[k].row = rows[shown[k]] /\ edges[k].index = offset + shown[k] - 1
                                  /\ edges[k].cursor.index = offset + shown[k] - 1
  BY <1>4, <1>5
<1>13. DOMAIN shown = DOMAIN edges /\ DOMAIN edges = 1 .. Len(shown) BY <1>4, <1>11
<1>14. \A k \in DOMAIN edges : edges[k].index \in Nat /\ shown[k] \in DOMAIN rows BY <1>1, <1>7, <1>8, <1>12, <1>13
<1> QED BY <1>4, <1>11, <1>12, <1>13, <1>14, Zenon

(* One edge of it. *)
LEMMA EdgesAre ==
  ASSUME NEW rows \in Seq(Int), NEW offset \in Nat, Head(codecs) \in {"old", "new"},
         NEW edges, edges = Cursors!Positioned(rows, offset), NEW shown, shown = Cursors!InOrder(Unveiled(rows)),
         NEW k \in DOMAIN edges
  PROVE  /\ edges[k].row = rows[shown[k]]
         /\ edges[k].index = offset + shown[k] - 1 /\ edges[k].cursor.index = edges[k].index
         /\ edges[k].index \in Nat /\ shown[k] \in DOMAIN rows
<1>1. edges[k].index = offset + shown[k] - 1 BY PositionedIs
<1>2. edges[k].cursor.index = offset + shown[k] - 1 BY PositionedIs
<1>3. edges[k].index \in Nat /\ shown[k] \in DOMAIN rows BY PositionedIs
<1>4. edges[k].row = rows[shown[k]] BY PositionedIs
<1> QED BY <1>1, <1>2, <1>3, <1>4

(* What PageIsTheWindow says of rows: those shown, and where. *)
LEMMA PageIsWanted ==
  ASSUME NEW list \in Seq(Int), NEW a, NEW q, Fits(a, q), Head(codecs) \in {"old", "new"},
         NEW rows, rows = Page(list, a), NEW n, n = Len(list), NEW from, from = From(a, n),
         NEW edges, edges = Cursors!Positioned(rows, from)
  PROVE  {<<e.index, e.row>> : e \in {edges[k] : k \in DOMAIN edges}} =
           {<<i, list[i + 1]>> : i \in {j \in Cursors!Wanted(list, a) : list[j + 1] \notin Veiled}}
<1> SUFFICES ASSUME NEW shown, shown = Cursors!InOrder(Unveiled(rows)), NEW upto, upto = Upto(a)
             PROVE  {<<e.index, e.row>> : e \in {edges[k] : k \in DOMAIN edges}} =
                      {<<i, list[i + 1]>> : i \in {j \in Cursors!Wanted(list, a) : list[j + 1] \notin Veiled}}
  OBVIOUS
<1>1. n \in Nat /\ from \in Nat /\ upto \in Nat BY WindowIs, LenProperties DEF Fits
<1>2. \A i \in Int : i \in Cursors!Wanted(list, a) <=> from <= i /\ i < from + upto /\ i < n
  <2>1. Cursors!SizeOf(a) \in Nat /\ Cursors!SizeOf(a) > 0 BY SizeIs, PagesAssumption DEF Fits
  <2>2. a.after \in Int /\ a.before \in Int /\ a.last \in Int BY DEF Args, Fits
  <2>3. (a.after # Cursors!None => a.after \in Nat) /\ (a.before # Cursors!None => a.before \in Nat) BY DEF Fits
  <2>4. a.after = Cursors!None \/ a.before = Cursors!None BY DEF Fits, Cursors!OneWindow
  <2>5. from = IF a.after # Cursors!None THEN a.after + 1
               ELSE IF a.before # Cursors!None THEN Cursors!Greatest(0, a.before - Cursors!SizeOf(a))
               ELSE IF a.last # Cursors!None THEN Cursors!Greatest(0, n - Cursors!SizeOf(a)) ELSE 0
    BY DEF From
  <2>6. Cursors!Wanted(list, a) = {i \in 0 .. n - 1 : from <= i /\ i < IF a.before # Cursors!None THEN Cursors!Least(a.before, n)
                                                                       ELSE Cursors!Least(from + Cursors!SizeOf(a), n)}
    BY <2>5 DEF Cursors!Wanted
  <2>7. CASE a.before = Cursors!None BY <1>1, <2>1, <2>6, <2>7 DEF Upto, Cursors!Least
  <2>8. CASE a.before # Cursors!None
    <3>1. from + upto = a.before
      <4> SUFFICES ASSUME NEW size \in Nat, size = Cursors!SizeOf(a), NEW before \in Nat, before = a.before
                   PROVE  from + upto = before
        BY <2>1, <2>3, <2>8
      <4>1. from = IF before <= size THEN 0 ELSE before - size BY <2>4, <2>5, <2>8 DEF Cursors!Greatest
      <4>2. upto = IF size <= before THEN size ELSE before BY <2>8 DEF Upto, Cursors!Least
      <4> QED BY <4>1, <4>2
    <3> QED BY <1>1, <2>3, <2>6, <2>8, <3>1 DEF Cursors!Least
  <2> QED BY <2>7, <2>8
<1>3. /\ rows \in Seq(Int) /\ DOMAIN rows = 1 .. Len(rows)
      /\ Len(rows) = IF from + upto <= n THEN upto ELSE IF from <= n THEN n - from ELSE 0
      /\ \A i \in 1 .. Len(rows) : rows[i] = list[from + i]
  <2>1. rows = Cursors!Slice(list, from, upto) BY DEF Page
  <2>2. rows \in Seq(Int) BY <1>1, <2>1, SliceIs
  <2>3. DOMAIN rows = 1 .. Len(rows) BY <1>1, <2>1, SliceIs
  <2>4. Len(rows) = IF from + upto <= Len(list) THEN upto ELSE IF from <= Len(list) THEN Len(list) - from ELSE 0
    BY <1>1, <2>1, SliceIs
  <2>5. ASSUME NEW i \in 1 .. Len(rows) PROVE rows[i] = list[from + i] BY <1>1, <2>1, SliceRow
  <2> QED BY <2>2, <2>3, <2>4, <2>5
<1>4. /\ DOMAIN shown = DOMAIN edges /\ {shown[k] : k \in DOMAIN shown} = Unveiled(rows)
      /\ \A k \in DOMAIN edges : edges[k].row = rows[shown[k]] /\ edges[k].index = from + shown[k] - 1
  <2>1. DOMAIN shown = DOMAIN edges BY <1>1, <1>3, PositionedIs
  <2>2. {shown[k] : k \in DOMAIN shown} = Unveiled(rows) BY <1>1, <1>3, PositionedIs
  <2>3. ASSUME NEW k \in DOMAIN edges
        PROVE  edges[k].row = rows[shown[k]] /\ edges[k].index = from + shown[k] - 1
    <3>1. rows \in Seq(Int) /\ from \in Nat BY <1>1, <1>3
    <3>2. edges[k].row = rows[shown[k]] BY <3>1, EdgesAre
    <3>3. edges[k].index = from + shown[k] - 1 BY <3>1, EdgesAre
    <3> QED BY <3>2, <3>3
  <2> QED BY <2>1, <2>2, <2>3
<1>5. \A i \in DOMAIN rows : /\ rows[i] = list[from + i - 1 + 1] /\ from + i - 1 \in Cursors!Wanted(list, a)
  <2> TAKE i \in DOMAIN rows
  <2>1. i \in Nat /\ i > 0 /\ i <= upto /\ from + i <= n /\ i \in 1 .. Len(rows)
    <3> SUFFICES ASSUME NEW m, m = Len(rows) PROVE i \in Nat /\ i > 0 /\ i <= upto /\ from + i <= n /\ i \in 1 .. m OBVIOUS
    <3>1. i \in 1 .. m /\ m = IF from + upto <= n THEN upto ELSE IF from <= n THEN n - from ELSE 0 BY <1>3
    <3>2. m \in Nat /\ m <= upto /\ (m > 0 => from + m <= n) BY <1>1, <3>1
    <3> QED BY <1>1, <3>1, <3>2
  <2>2. from + i - 1 + 1 = from + i /\ from + i - 1 \in Int BY <1>1, <2>1
  <2>3. rows[i] = list[from + i - 1 + 1] BY <1>3, <2>1, <2>2
  <2>4. from <= from + i - 1 /\ from + i - 1 < from + upto /\ from + i - 1 < n BY <1>1, <2>1
  <2>5. from + i - 1 \in Cursors!Wanted(list, a) BY <1>2, <2>2, <2>4
  <2> QED BY <2>3, <2>5
<1>6. \A j \in Cursors!Wanted(list, a) : j + 1 - from \in DOMAIN rows /\ from + (j + 1 - from) - 1 = j
  <2> TAKE j \in Cursors!Wanted(list, a)
  <2>1. j \in Int BY DEF Cursors!Wanted
  <2>2. from <= j /\ j < from + upto /\ j < n BY <1>2, <2>1
  <2>3. j + 1 - from \in Nat /\ j + 1 - from > 0 /\ j + 1 - from <= upto /\ j + 1 - from <= n - from /\ from <= n
    BY <1>1, <2>1, <2>2
  <2>4. Len(rows) \in Nat /\ j + 1 - from <= Len(rows) BY <1>1, <1>3, <2>3
  <2>5. j + 1 - from \in 1 .. Len(rows) BY <2>3, <2>4
  <2>6. from + (j + 1 - from) - 1 = j BY <1>1, <2>1
  <2> QED BY <1>3, <2>5, <2>6
<1>7. ASSUME NEW p
      PROVE  (\E k \in DOMAIN edges : p = <<edges[k].index, edges[k].row>>) <=>
             (\E i \in DOMAIN rows : rows[i] \notin Veiled /\ p = <<from + i - 1, rows[i]>>)
  <2>1. ASSUME NEW k \in DOMAIN edges, p = <<edges[k].index, edges[k].row>>
        PROVE  \E i \in DOMAIN rows : rows[i] \notin Veiled /\ p = <<from + i - 1, rows[i]>>
    <3>1. shown[k] \in Unveiled(rows) BY <1>4
    <3>2. p = <<from + shown[k] - 1, rows[shown[k]]>> BY <1>4, <2>1
    <3> QED BY <3>1, <3>2 DEF Unveiled
  <2>2. ASSUME NEW i \in DOMAIN rows, rows[i] \notin Veiled, p = <<from + i - 1, rows[i]>>
        PROVE  \E k \in DOMAIN edges : p = <<edges[k].index, edges[k].row>>
    <3>1. i \in Unveiled(rows) BY <2>2 DEF Unveiled
    <3>2. PICK k \in DOMAIN edges : shown[k] = i BY <1>4, <3>1
    <3>3. p = <<edges[k].index, edges[k].row>> BY <1>4, <2>2, <3>2
    <3> QED BY <3>3
  <2> QED BY <2>1, <2>2
<1>8. ASSUME NEW p
      PROVE  (\E i \in DOMAIN rows : rows[i] \notin Veiled /\ p = <<from + i - 1, rows[i]>>) <=>
             (\E j \in Cursors!Wanted(list, a) : list[j + 1] \notin Veiled /\ p = <<j, list[j + 1]>>)
  <2>1. ASSUME NEW i \in DOMAIN rows, rows[i] \notin Veiled, p = <<from + i - 1, rows[i]>>
        PROVE  \E j \in Cursors!Wanted(list, a) : list[j + 1] \notin Veiled /\ p = <<j, list[j + 1]>>
    BY <1>5, <2>1
  <2>2. ASSUME NEW j \in Cursors!Wanted(list, a), list[j + 1] \notin Veiled, p = <<j, list[j + 1]>>
        PROVE  \E i \in DOMAIN rows : rows[i] \notin Veiled /\ p = <<from + i - 1, rows[i]>>
    <3> DEFINE i == j + 1 - from
    <3>1. i \in DOMAIN rows /\ from + i - 1 = j BY <1>6
    <3>2. rows[i] = list[j + 1] BY <1>5, <3>1
    <3> QED BY <2>2, <3>1, <3>2
  <2> QED BY <2>1, <2>2
<1>9. \A p : p \in {<<e.index, e.row>> : e \in {edges[k] : k \in DOMAIN edges}} <=>
             \E k \in DOMAIN edges : p = <<edges[k].index, edges[k].row>>
  OBVIOUS
<1>10. \A p : p \in {<<i, list[i + 1]>> : i \in {j \in Cursors!Wanted(list, a) : list[j + 1] \notin Veiled}} <=>
              \E j \in Cursors!Wanted(list, a) : list[j + 1] \notin Veiled /\ p = <<j, list[j + 1]>>
  OBVIOUS
<1> QED BY <1>7, <1>8, <1>9, <1>10

-------------------------------------------------------------------------------
(* A page on its way: what each of its queries rests on.  The list, the    *)
(* number of writes and the backend are named, so that a step is about a   *)
(* task alone.                                                             *)

Phases == {"load", "countBefore", "countFirst", "find", "window", "count", "answer"}
Queries == Cursors!GraphQueries \cup Cursors!RestQueries
Askable(q) == q \in Queries /\ (q.road # "rest" => Cursors!OneWindow(Cursors!AskedOf(q), q))
Tasks == [at : Phases, q : Queries, args : Args, limit : Nat, offset : Nat, loaded : Seq(Int), rows : Seq(Int),
          total : Int, began : Nat]

Sound(t, w) ==
  /\ t \in Tasks /\ Fits(t.args, t.q) /\ t.began <= w
  /\ t.at # "count" => t.total \in Nat
  /\ t.q.countOnly => t.rows = <<>> /\ t.at \in {"countBefore", "count", "answer"}
Still(t, w) == t.began = w
\* The parent's query has brought the children, or is about to.
AtLoad(t) ==
  /\ Cursors!Preloaded(t.q, t.args)
  /\ Cursors!Separate(t.q, t.args) => t.limit = Upto(t.args) /\ t.offset = From(t.args, 0)
AtWindow(t, list, w) ==
  /\ Cursors!Preloaded(t.q, t.args)
  /\ Still(t, w) => t.loaded = IF Cursors!Separate(t.q, t.args) THEN Page(list, t.args) ELSE list
  /\ Still(t, w) /\ Cursors!LastOnly(t.args) => t.offset = From(t.args, Len(list))
AtCountBefore(t, list, w) ==
  /\ Cursors!LastOnly(t.args)
  /\ Cursors!Preloaded(t.q, t.args) => ~ Cursors!Separate(t.q, t.args) /\ (Still(t, w) => t.loaded = list)
  /\ ~ Cursors!Preloaded(t.q, t.args) /\ ~ t.q.countOnly => t.limit = Upto(t.args)
\* The page's own query has its window.
Placed(t, list, w) ==
  /\ t.limit = Upto(t.args)
  /\ ~ Cursors!LastOnly(t.args) => t.offset = From(t.args, 0)
  /\ Still(t, w) => t.offset = From(t.args, Len(list))
AtFind(t, list, w, b) ==
  /\ Placed(t, list, w)
  /\ ~ Cursors!Root(t.q) /\ b.adapter = "valkey" /\ t.q.relation # "belongsToMany" /\ Still(t, w) => t.total = Len(list)
\* The rows are there.
Filled(t, list, w) == ~ t.q.countOnly /\ Still(t, w) => t.rows = Page(list, t.args)
AtCount(t, list, w, b) == Filled(t, list, w) /\ (b.inline /\ Cursors!Root(t.q) => t.rows = <<>>)
AtAnswer(t, list, w, b) ==
  /\ Filled(t, list, w)
  /\ Still(t, w) /\ (t.rows # <<>> \/ t.q.countOnly \/ (Cursors!Root(t.q) /\ Cursors!CursorOffset(t.args) > 0)) =>
       t.total = Len(list)
  /\ b.inline /\ Cursors!Root(t.q) /\ t.args.last = Cursors!None /\ t.rows # <<>> =>
       From(t.args, 0) + Len(t.rows) <= t.total

Tells(t, list, w, b) ==
  /\ Sound(t, w)
  /\ t.at = "load" => AtLoad(t)
  /\ t.at = "window" => AtWindow(t, list, w)
  /\ t.at = "countBefore" => AtCountBefore(t, list, w)
  /\ t.at = "countFirst" => ~ Cursors!Root(t.q) /\ Placed(t, list, w)
  /\ t.at = "find" => AtFind(t, list, w, b)
  /\ t.at = "count" => AtCount(t, list, w, b)
  /\ t.at = "answer" => AtAnswer(t, list, w, b)

\* A page is a sequence of rows, at a position.
LEMMA PageIs ==
  ASSUME NEW list \in Seq(Int), NEW a, NEW q, Fits(a, q)
  PROVE  Page(list, a) \in Seq(Int) /\ Upto(a) \in Nat /\ From(a, Len(list)) \in Nat /\ From(a, 0) \in Nat
<1>1. a \in Args /\ {a.after, a.before} \subseteq Nat \cup {Cursors!None} BY DEF Fits
<1>2. Len(list) \in Nat /\ 0 \in Nat BY LenProperties
<1>3. Upto(a) \in Nat /\ From(a, Len(list)) \in Nat BY <1>1, <1>2, WindowIs
<1>4. From(a, 0) \in Nat BY <1>1, <1>2, WindowIs
<1>5. Page(list, a) \in Seq(Int) BY <1>3, SliceIs DEF Page
<1> QED BY <1>3, <1>4, <1>5

\* The children come with their parents.
LEMMA LoadTells ==
  ASSUME NEW list \in Seq(Int), list = Cursors!ListOf(table), Tells(task, list, writes, backend), Cursors!Load
  PROVE  Tells(task', list, writes, backend)
<1> SUFFICES ASSUME NEW t, t = task, NEW u, u = task' PROVE Tells(u, list, writes, backend) OBVIOUS
<1>1. t \in Tasks /\ Fits(t.args, t.q) /\ t.began <= writes /\ AtLoad(t) /\ ~ t.q.countOnly /\ t.total \in Nat
  BY DEF Cursors!Load, Cursors!Step, Tells, Sound
<1> DEFINE rows == IF Cursors!Separate(t.q, t.args) THEN Cursors!Slice(list, t.offset, t.limit) ELSE list
           at == IF Cursors!CountsBefore(t.q, t.args) THEN "countBefore" ELSE "window"
<1>2. u = [t EXCEPT !.loaded = rows, !.at = at] BY DEF Cursors!Load
<1>3. rows \in Seq(Int)
  <2>1. t.offset \in Nat /\ t.limit \in Nat BY <1>1 DEF Tasks
  <2>2. Cursors!Slice(list, t.offset, t.limit) \in Seq(Int) BY <2>1, SliceIs
  <2> QED BY <2>2
<1>4. at \in Phases BY DEF Phases
<1>5. Cursors!CountsBefore(t.q, t.args) <=> Cursors!LastOnly(t.args)
  <2>1. 0 \in Nat OBVIOUS
  <2> QED BY <1>1, <2>1, PlansAgree
<1>6. ASSUME Cursors!Separate(t.q, t.args) PROVE rows = Page(list, t.args) /\ at = "window"
  <2>1. ~ Cursors!LastOnly(t.args) BY <1>1, <1>6, PreloadsAgree DEF AtLoad
  <2>2. Len(list) \in Nat BY LenProperties
  <2>3. From(t.args, Len(list)) = From(t.args, 0)
    <3>1. t.args \in Args /\ {t.args.after, t.args.before} \subseteq Nat \cup {Cursors!None} BY <1>1 DEF Fits
    <3> QED BY <2>1, <2>2, <3>1, WindowIs
  <2>4. rows = Page(list, t.args) BY <1>1, <1>6, <2>3 DEF AtLoad, Page
  <2> QED BY <1>5, <2>1, <2>4
<1>7. ~ Cursors!Separate(t.q, t.args) => rows = list OBVIOUS
<1>8. at = (IF Cursors!LastOnly(t.args) THEN "countBefore" ELSE "window") BY <1>5
<1> HIDE DEF rows, at
<1>9. /\ u \in Tasks /\ u.q = t.q /\ u.args = t.args /\ u.began = t.began /\ u.rows = t.rows
      /\ u.loaded = rows /\ u.at = at /\ u.total = t.total
  BY <1>1, <1>2, <1>3, <1>4 DEF Tasks
<1>10. Sound(u, writes) BY <1>1, <1>9 DEF Sound
<1>11. u.at = "window" => AtWindow(u, list, writes) BY <1>1, <1>6, <1>7, <1>8, <1>9 DEF AtLoad, AtWindow
<1>12. u.at = "countBefore" => AtCountBefore(u, list, writes)
  BY <1>1, <1>6, <1>7, <1>8, <1>9 DEF AtLoad, AtCountBefore
<1> QED BY <1>8, <1>9, <1>10, <1>11, <1>12 DEF Tells

\* The end is where the count says.
LEMMA CountBeforeTells ==
  ASSUME NEW list \in Seq(Int), list = Cursors!ListOf(table), Tells(task, list, writes, backend), Cursors!CountBefore
  PROVE  Tells(task', list, writes, backend)
<1> SUFFICES ASSUME NEW t, t = task, NEW u, u = task', NEW n, n = Len(list) PROVE Tells(u, list, writes, backend) OBVIOUS
<1>1. t \in Tasks /\ Sound(t, writes) /\ Fits(t.args, t.q) /\ t.total \in Nat /\ AtCountBefore(t, list, writes)
  BY DEF Cursors!CountBefore, Cursors!Step, Tells, Sound
<1> DEFINE size == IF Cursors!Root(t.q) THEN t.limit ELSE Cursors!ClampPageSize(t.args.last)
           offset == Cursors!Greatest(0, n - size)
           at == IF Cursors!Preloaded(t.q, t.args) THEN "window"
                 ELSE IF t.q.countOnly THEN "count"
                 ELSE IF Cursors!CountsFirst(t.q) THEN "countFirst"
                 ELSE "find"
<1>2. u = [t EXCEPT !.offset = offset, !.at = at] BY DEF Cursors!CountBefore, Cursors!Count
<1>3. n \in Nat BY LenProperties
<1>4. /\ Cursors!ClampPageSize(t.args.last) = Cursors!SizeOf(t.args) /\ Upto(t.args) = Cursors!SizeOf(t.args)
      /\ From(t.args, n) = Cursors!Greatest(0, n - Cursors!SizeOf(t.args))
  BY <1>1, <1>3, PlansAgree DEF AtCountBefore
<1>5. Cursors!SizeOf(t.args) \in 1 .. MaxPageSize /\ MaxPageSize \in Nat BY <1>1, SizeIs, PagesAssumption DEF Tasks
<1>6. size \in Nat BY <1>1, <1>4, <1>5 DEF Tasks
<1>7. offset \in Nat /\ (t.q.countOnly \/ offset = From(t.args, n))
  <2>1. offset \in Nat
    <3> HIDE DEF size
    <3> QED BY <1>3, <1>6 DEF Cursors!Greatest
  <2>2. CASE ~ Cursors!Root(t.q) BY <1>4, <2>1, <2>2
  <2>3. CASE Cursors!Root(t.q) /\ ~ t.q.countOnly
    <3>1. ~ Cursors!Preloaded(t.q, t.args) BY <2>3 DEF Cursors!Preloaded, Cursors!Root
    <3>2. size = Cursors!SizeOf(t.args) BY <1>1, <1>4, <2>3, <3>1 DEF AtCountBefore
    <3> QED BY <1>4, <2>1, <3>2
  <2> QED BY <2>1, <2>2, <2>3
<1>8. at \in Phases BY DEF Phases
<1>9. /\ at = "window" <=> Cursors!Preloaded(t.q, t.args)
      /\ at \in {"countFirst", "find"} => ~ t.q.countOnly
      /\ at = "countFirst" => Cursors!CountsFirst(t.q)
      /\ at = "find" => ~ Cursors!CountsFirst(t.q)
      /\ at = "count" => t.q.countOnly
      /\ at \in {"window", "countFirst", "find", "count"}
  OBVIOUS
<1> HIDE DEF size, offset, at
<1>10. /\ u \in Tasks /\ u.q = t.q /\ u.args = t.args /\ u.began = t.began /\ u.rows = t.rows
       /\ u.loaded = t.loaded /\ u.limit = t.limit /\ u.offset = offset /\ u.at = at /\ u.total = t.total
  BY <1>1, <1>2, <1>7, <1>8 DEF Tasks
<1>11. Sound(u, writes)
  <2>1. t.q.countOnly => at = "count"
    <3>1. t.q.countOnly => ~ Cursors!Preloaded(t.q, t.args) BY DEF Cursors!Preloaded
    <3> QED BY <1>9, <3>1
  <2> QED BY <1>1, <1>10, <2>1 DEF Sound
<1>12. u.at = "window" => AtWindow(u, list, writes)
  <2>1. Cursors!Preloaded(t.q, t.args) => ~ t.q.countOnly BY DEF Cursors!Preloaded
  <2> QED BY <1>1, <1>7, <1>9, <1>10, <2>1 DEF AtWindow, AtCountBefore, Still
<1>13. u.at \in {"countFirst", "find"} => Placed(u, list, writes)
  BY <1>1, <1>7, <1>9, <1>10 DEF AtCountBefore, Placed
<1>14. u.at = "countFirst" => ~ Cursors!Root(u.q) BY <1>9, <1>10 DEF Cursors!CountsFirst
<1>15. u.at = "find" => AtFind(u, list, writes, backend)
  BY <1>9, <1>10, <1>13 DEF AtFind, Cursors!CountsFirst
<1>16. u.at = "count" => AtCount(u, list, writes, backend)
  BY <1>1, <1>9, <1>10 DEF AtCount, Filled, Sound
<1> QED BY <1>9, <1>10, <1>11, <1>12, <1>13, <1>14, <1>15, <1>16 DEF Tells

\* The Valkey adapter counts before it fetches.
LEMMA CountFirstTells ==
  ASSUME NEW list \in Seq(Int), list = Cursors!ListOf(table), Tells(task, list, writes, backend), Cursors!CountFirst
  PROVE  Tells(task', list, writes, backend)
<1> SUFFICES ASSUME NEW t, t = task, NEW u, u = task', NEW n, n = Len(list) PROVE Tells(u, list, writes, backend) OBVIOUS
<1>1. Sound(t, writes) /\ t \in Tasks /\ Placed(t, list, writes) /\ ~ t.q.countOnly
  BY DEF Cursors!CountFirst, Cursors!Step, Tells, Sound
<1>2. u = [t EXCEPT !.total = n, !.at = "find"] BY DEF Cursors!CountFirst, Cursors!Count
<1>3. n \in Nat /\ n \in Int BY LenProperties
<1>4. "find" \in Phases BY DEF Phases
<1>5. /\ u \in Tasks /\ u.q = t.q /\ u.args = t.args /\ u.began = t.began /\ u.rows = t.rows
      /\ u.limit = t.limit /\ u.offset = t.offset /\ u.at = "find" /\ u.total = n
  BY <1>1, <1>2, <1>3, <1>4 DEF Tasks
<1>6. Sound(u, writes) BY <1>1, <1>3, <1>5 DEF Sound
<1>7. AtFind(u, list, writes, backend) BY <1>1, <1>5 DEF AtFind, Placed, Still
<1> QED BY <1>5, <1>6, <1>7 DEF Tells

\* The count that was missing is taken.
LEMMA CountAfterTells ==
  ASSUME NEW list \in Seq(Int), list = Cursors!ListOf(table), Tells(task, list, writes, backend), Cursors!CountAfter
  PROVE  Tells(task', list, writes, backend)
<1> SUFFICES ASSUME NEW t, t = task, NEW u, u = task', NEW n, n = Len(list) PROVE Tells(u, list, writes, backend) OBVIOUS
<1>1. Sound(t, writes) /\ t \in Tasks /\ AtCount(t, list, writes, backend)
  BY DEF Cursors!CountAfter, Cursors!Step, Tells, Sound
<1>2. u = [t EXCEPT !.total = n, !.at = "answer"] BY DEF Cursors!CountAfter, Cursors!Count
<1>3. n \in Nat /\ n \in Int BY LenProperties
<1>4. "answer" \in Phases BY DEF Phases
<1>5. /\ u \in Tasks /\ u.q = t.q /\ u.args = t.args /\ u.began = t.began /\ u.rows = t.rows
      /\ u.at = "answer" /\ u.total = n
  BY <1>1, <1>2, <1>3, <1>4 DEF Tasks
<1>6. Sound(u, writes) BY <1>1, <1>3, <1>5 DEF Sound
<1>7. AtAnswer(u, list, writes, backend) BY <1>1, <1>5 DEF AtCount, AtAnswer, Filled, Still
<1> QED BY <1>5, <1>6, <1>7 DEF Tells

\* A window is cut from what was preloaded.
LEMMA WindowTells ==
  ASSUME NEW list \in Seq(Int), list = Cursors!ListOf(table), Tells(task, list, writes, backend), Cursors!Window
  PROVE  Tells(task', list, writes, backend)
<1> SUFFICES ASSUME NEW t, t = task, NEW u, u = task', NEW n, n = Len(list) PROVE Tells(u, list, writes, backend) OBVIOUS
<1>1. Sound(t, writes) /\ t \in Tasks /\ Fits(t.args, t.q) /\ AtWindow(t, list, writes)
  BY DEF Cursors!Window, Cursors!Step, Tells, Sound
<1> DEFINE size == Cursors!SizeGiven(Cursors!RelationArgs(t.args))
           offset == IF Cursors!LastOnly(t.args) THEN t.offset ELSE Cursors!CursorOffset(t.args)
           rows == IF size = Cursors!None \/ Cursors!Separate(t.q, t.args) THEN t.loaded ELSE Cursors!Slice(t.loaded, offset, size)
           at == IF size = Cursors!None THEN "answer" ELSE "count"
<1>2. u = [t EXCEPT !.rows = rows, !.total = Len(rows), !.at = at] BY DEF Cursors!Window
<1>3. ~ Cursors!Root(t.q) /\ ~ t.q.countOnly BY <1>1, PreloadsAgree DEF AtWindow
<1>4. size # Cursors!None BY <1>1, <1>3, RelationsAgree
<1>5. ~ Cursors!Separate(t.q, t.args) => size = Upto(t.args) BY <1>1, PreloadsAgree DEF AtWindow
<1>6. n \in Nat /\ t.offset \in Nat /\ Upto(t.args) \in Nat /\ t.loaded \in Seq(Int) /\ From(t.args, n) \in Nat
      /\ From(t.args, 0) \in Nat
  BY <1>1, PageIs, LenProperties DEF Tasks
<1>7. ~ Cursors!LastOnly(t.args) => Cursors!CursorOffset(t.args) = From(t.args, 0) /\ From(t.args, n) = From(t.args, 0)
  <2>1. t.args \in Args /\ {t.args.after, t.args.before} \subseteq Nat \cup {Cursors!None} BY <1>1 DEF Fits
  <2>2. ~ Cursors!LastOnly(t.args) => From(t.args, n) = From(t.args, 0) BY <1>6, <2>1, WindowIs
  <2>3. ~ Cursors!LastOnly(t.args) => Cursors!CursorOffset(t.args) = From(t.args, 0) BY <1>1, <1>6, PlansAgree
  <2> QED BY <2>2, <2>3
<1>8. offset \in Nat BY <1>6, <1>7
<1>9. rows \in Seq(Int)
  <2>1. CASE Cursors!Separate(t.q, t.args) BY <1>6, <2>1
  <2>2. CASE ~ Cursors!Separate(t.q, t.args)
    <3>1. rows = Cursors!Slice(t.loaded, offset, Upto(t.args)) BY <1>4, <1>5, <2>2
    <3> HIDE DEF rows, offset
    <3> QED BY <1>6, <1>8, <3>1, SliceIs
  <2> QED BY <2>1, <2>2
<1>10. ASSUME Still(t, writes) PROVE rows = Page(list, t.args)
  <2>1. CASE Cursors!Separate(t.q, t.args) BY <1>1, <1>10, <2>1 DEF AtWindow
  <2>2. CASE ~ Cursors!Separate(t.q, t.args)
    <3>1. t.loaded = list BY <1>1, <1>10, <2>2 DEF AtWindow
    <3>2. offset = From(t.args, n) BY <1>1, <1>7, <1>10 DEF AtWindow
    <3>3. rows = Cursors!Slice(list, offset, Upto(t.args)) BY <1>4, <1>5, <2>2, <3>1
    <3> HIDE DEF rows, offset
    <3> QED BY <3>2, <3>3 DEF Page
  <2> QED BY <2>1, <2>2
<1>11. at = "count" BY <1>4
<1> HIDE DEF size, offset, rows, at
<1>12. "count" \in Phases /\ Len(rows) \in Int BY <1>9, LenProperties DEF Phases
<1>13. u \in Tasks /\ u.q = t.q /\ u.args = t.args /\ u.began = t.began /\ u.rows = rows /\ u.at = "count"
  BY <1>1, <1>2, <1>9, <1>11, <1>12 DEF Tasks
<1>14. Sound(u, writes) BY <1>1, <1>3, <1>13 DEF Sound
<1>15. AtCount(u, list, writes, backend) BY <1>3, <1>10, <1>13 DEF AtCount, Filled, Still
<1> QED BY <1>13, <1>14, <1>15 DEF Tells

\* The page's own query: with a count of the same moment, or with one to come.
LEMMA FindTells ==
  ASSUME NEW list \in Seq(Int), list = Cursors!ListOf(table), Tells(task, list, writes, backend), Cursors!Find
  PROVE  Tells(task', list, writes, backend)
<1> SUFFICES ASSUME NEW t, t = task, NEW u, u = task', NEW n, n = Len(list) PROVE Tells(u, list, writes, backend) OBVIOUS
<1>1. Sound(t, writes) /\ t \in Tasks /\ Fits(t.args, t.q) /\ AtFind(t, list, writes, backend) /\ ~ t.q.countOnly /\ t.total \in Nat
  BY DEF Cursors!Find, Cursors!Step, Tells, Sound
<1> DEFINE rows == Cursors!Slice(list, t.offset, t.limit)
           total == IF Cursors!CountsFirst(t.q) THEN t.total
                    ELSE IF ~ Cursors!Root(t.q) /\ backend.adapter = "valkey" THEN n
                    ELSE IF ~ backend.inline THEN Cursors!None ELSE IF rows = <<>> THEN 0 ELSE n
           at == IF total = Cursors!None \/ (Cursors!Root(t.q) /\ total = 0 /\ rows = <<>> /\ t.offset > 0)
                 THEN "count" ELSE "answer"
<1>2. u = [t EXCEPT !.rows = rows, !.total = total, !.at = at]
  BY DEF Cursors!Find, Cursors!Count, Cursors!CountOf, Cursors!InlineCount
<1>3. n \in Nat /\ t.offset \in Nat /\ t.limit \in Nat BY <1>1, LenProperties DEF Tasks
<1>4. rows \in Seq(Int) BY <1>3, SliceIs
<1>5. Still(t, writes) => rows = Page(list, t.args) BY <1>1 DEF AtFind, Placed, Page
<1>6. rows # <<>> => t.offset + Len(rows) <= n
  <2>1. Len(rows) = IF t.offset + t.limit <= n THEN t.limit ELSE IF t.offset <= n THEN n - t.offset ELSE 0
    <3> HIDE DEF rows
    <3>1. ASSUME NEW o \in Nat, NEW l \in Nat, rows = Cursors!Slice(list, o, l)
          PROVE  Len(rows) = IF o + l <= Len(list) THEN l ELSE IF o <= Len(list) THEN Len(list) - o ELSE 0
      BY <3>1, SliceIs
    <3> QED BY <1>3, <3>1 DEF rows
  <2>2. Len(rows) \in Nat /\ (rows # <<>> => Len(rows) > 0) BY <1>4, LenProperties, EmptySeq
  <2> HIDE DEF rows
  <2> QED BY <1>3, <2>1, <2>2
<1>7. ~ Cursors!LastOnly(t.args) => t.offset = From(t.args, 0) /\ Cursors!CursorOffset(t.args) = From(t.args, 0)
  <2>1. Len(list) \in Nat BY <1>3
  <2>2. ~ Cursors!LastOnly(t.args) => Cursors!CursorOffset(t.args) = From(t.args, 0) BY <1>1, <2>1, PlansAgree
  <2> QED BY <1>1, <2>2 DEF AtFind, Placed
<1>8. Cursors!CursorOffset(t.args) > 0 => ~ Cursors!LastOnly(t.args)
  BY DEF Cursors!CursorOffset, Cursors!LastOnly
<1> DEFINE counted == ~ Cursors!Root(t.q) /\ backend.adapter = "valkey"
<1>9. CASE counted
  <2>1. total \in Nat /\ total \in Int /\ total # Cursors!None /\ at = "answer" BY <1>1, <1>3, <1>9 DEF Cursors!None
  <2>2. Still(t, writes) => total = n BY <1>1, <1>9 DEF AtFind, Cursors!CountsFirst
  <2> HIDE DEF rows, total, at
  <2>3. "answer" \in Phases BY DEF Phases
  <2>4. u \in Tasks /\ u.q = t.q /\ u.args = t.args /\ u.began = t.began /\ u.rows = rows /\ u.total = total /\ u.at = "answer"
    BY <1>1, <1>2, <1>4, <2>1, <2>3 DEF Tasks
  <2>5. Sound(u, writes) BY <1>1, <2>1, <2>4 DEF Sound
  <2>6. AtAnswer(u, list, writes, backend) BY <1>5, <1>9, <2>2, <2>4 DEF AtAnswer, Filled, Still
  <2> QED BY <2>4, <2>5, <2>6 DEF Tells
<1>10. CASE ~ counted /\ ~ backend.inline
  <2>1. total = Cursors!None /\ at = "count" /\ total = -1 BY <1>10 DEF Cursors!CountsFirst, Cursors!None
  <2>2. total \in Int BY <2>1
  <2> HIDE DEF rows, total, at
  <2>3. "count" \in Phases BY DEF Phases
  <2>4. u \in Tasks /\ u.q = t.q /\ u.args = t.args /\ u.began = t.began /\ u.rows = rows /\ u.at = "count"
    BY <1>1, <1>2, <1>4, <2>1, <2>2, <2>3 DEF Tasks
  <2>5. Sound(u, writes) BY <1>1, <2>4 DEF Sound
  <2>6. AtCount(u, list, writes, backend) BY <1>5, <1>10, <2>4 DEF AtCount, Filled, Still
  <2> QED BY <2>4, <2>5, <2>6 DEF Tells
<1>11. CASE ~ counted /\ backend.inline
  <2>1. total = IF rows = <<>> THEN 0 ELSE n BY <1>11 DEF Cursors!CountsFirst
  <2>2. total \in Nat /\ total \in Int /\ total # Cursors!None BY <1>3, <2>1 DEF Cursors!None
  <2>3. at = IF Cursors!Root(t.q) /\ total = 0 /\ rows = <<>> /\ t.offset > 0 THEN "count" ELSE "answer" BY <2>2
  <2>4. at = "count" => rows = <<>> BY <2>3
  <2>5. at = "answer" => ~ (Cursors!Root(t.q) /\ rows = <<>> /\ t.offset > 0) BY <2>1, <2>3
  <2>6. at \in {"count", "answer"} OBVIOUS
  <2> HIDE DEF rows, total, at
  <2>7. at \in Phases BY <2>6 DEF Phases
  <2>8. u \in Tasks /\ u.q = t.q /\ u.args = t.args /\ u.began = t.began /\ u.rows = rows /\ u.total = total /\ u.at = at
    BY <1>1, <1>2, <1>4, <2>2, <2>7 DEF Tasks
  <2>9. Sound(u, writes) BY <1>1, <2>2, <2>8 DEF Sound
  <2>10. Filled(u, list, writes) BY <1>5, <2>8 DEF Filled, Still
  <2>11. u.at = "count" => AtCount(u, list, writes, backend) BY <2>4, <2>8, <2>10 DEF AtCount
  <2>12. u.at = "answer" => AtAnswer(u, list, writes, backend)
    <3> SUFFICES ASSUME at = "answer" PROVE AtAnswer(u, list, writes, backend) BY <2>8
    <3>1. rows # <<>> => total = n BY <2>1
    <3>2. ~ (Cursors!Root(t.q) /\ rows = <<>> /\ Cursors!CursorOffset(t.args) > 0) BY <1>7, <1>8, <2>5
    <3>3. rows # <<>> /\ t.args.last = Cursors!None => From(t.args, 0) + Len(rows) <= total
      BY <1>6, <1>7, <3>1 DEF Cursors!LastOnly
    <3> QED BY <1>1, <2>8, <2>10, <3>1, <3>2, <3>3 DEF AtAnswer, Still
  <2> QED BY <2>6, <2>8, <2>9, <2>11, <2>12 DEF Tells
<1> QED BY <1>9, <1>10, <1>11

-------------------------------------------------------------------------------
(* What a page that was answered says. *)

RowsSaid(edges, q, a, list) ==
  {<<e.index, e.row>> : e \in {edges[k] : k \in DOMAIN edges}} =
    {<<i, list[i + 1]>> : i \in {j \in IF q.countOnly THEN {} ELSE Cursors!Wanted(list, a) : list[j + 1] \notin Veiled}}
WindowSaid(s, list) ==
  /\ RowsSaid(s.edges, s.q, s.args, list)
  /\ s.edges # <<>> =>
       /\ s.hasPreviousPage = (Head(s.edges).index > 0)
       /\ s.hasNextPage = \E i \in 0 .. Len(list) - 1 : i > s.edges[Len(s.edges)].index
  /\ s.found \/ s.q.countOnly \/ (Cursors!Root(s.q) /\ Cursors!CursorOffset(s.args) > 0) => s.total = Len(list)
MomentSaid(s, b) ==
  b.inline /\ s.edges # <<>> /\ Cursors!Root(s.q) /\ s.args.last = Cursors!None => s.edges[Len(s.edges)].index < s.total
Positions(s) ==
  /\ s.edges \in Seq(Edges)
  /\ \A k \in DOMAIN s.edges : s.edges[k].cursor.index = s.edges[k].index /\ s.edges[k].index \in Nat
  /\ s.edges # <<>> => s.hasPreviousPage = (s.edges[1].index > 0)

Says(s, list, w, b) ==
  s.given =>
    /\ s.q \in Queries /\ s.began \in Nat /\ s.began <= w
    /\ ~ s.error => /\ Fits(s.args, s.q) /\ Positions(s) /\ MomentSaid(s, b)
                    /\ Still(s, w) => WindowSaid(s, list)

\* No rows, no edges.
LEMMA NoneAreNone ==
  ASSUME NEW rows \in Seq(Int), NEW offset \in Nat, Head(codecs) \in {"old", "new"},
         NEW edges, edges = Cursors!Positioned(rows, offset)
  PROVE  rows = <<>> => edges = <<>>
<1> SUFFICES ASSUME NEW shown, shown = Cursors!InOrder(Unveiled(rows)) PROVE rows = <<>> => edges = <<>> OBVIOUS
<1>1. edges \in Seq(Edges) BY PositionedIs
<1>2. DOMAIN shown = DOMAIN edges BY PositionedIs
<1>3. {shown[k] : k \in DOMAIN shown} = Unveiled(rows) BY PositionedIs
<1>4. rows = <<>> => Unveiled(rows) = {} BY DEF Unveiled
<1>5. Unveiled(rows) = {} => DOMAIN edges = {} BY <1>2, <1>3
<1>6. DOMAIN edges = 1 .. Len(edges) /\ Len(edges) \in Nat BY <1>1, LenProperties
<1>7. DOMAIN edges = {} => Len(edges) = 0 BY <1>6
<1> QED BY <1>1, <1>4, <1>5, <1>7, EmptySeq

\* "There is a next page", as a comparison and as a row that lies behind.
LEMMA EndIs ==
  ASSUME NEW end \in Nat, NEW n \in Nat, NEW next, next = (end < n - 1)
  PROVE  next = \E i \in 0 .. n - 1 : i > end
<1>1. (end < n - 1) <=> \E i \in 0 .. n - 1 : i > end
  <2>1. end < n - 1 => n - 1 \in 0 .. n - 1 /\ n - 1 > end OBVIOUS
  <2> QED BY <2>1
<1>2. CASE end < n - 1
  <2>1. next = TRUE BY <1>2
  <2>2. (\E i \in 0 .. n - 1 : i > end) = TRUE BY <1>1, <1>2
  <2> QED BY <2>1, <2>2
<1>3. CASE ~ (end < n - 1)
  <2>1. (end < n - 1) = FALSE BY <1>3
  <2>2. next = FALSE BY <2>1, Zenon
  <2>3. (\E i \in 0 .. n - 1 : i > end) = FALSE BY <1>1, <1>3
  <2> QED BY <2>2, <2>3
<1> QED BY <1>2, <1>3

\* Nobody wrote: the rows are the page's, and they are put where they lie.
LEMMA PlacedTruly ==
  ASSUME NEW list \in Seq(Int), Head(codecs) \in {"old", "new"}, NEW t, NEW w, NEW b, Sound(t, w), AtAnswer(t, list, w, b),
         Still(t, w), ~ t.q.countOnly, t.at = "answer"
  PROVE  /\ t.rows = Page(list, t.args)
         /\ Cursors!Positioned(t.rows, Cursors!PageOffset(t.args, t.total)) = Cursors!Positioned(t.rows, From(t.args, Len(list)))
<1> SUFFICES ASSUME NEW n, n = Len(list), NEW a, a = t.args, NEW rows, rows = t.rows, NEW offset, offset = Cursors!PageOffset(a, t.total)
             PROVE  rows = Page(list, a) /\ Cursors!Positioned(rows, offset) = Cursors!Positioned(rows, From(a, n))
  OBVIOUS
<1>1. rows = Page(list, a) /\ (rows # <<>> => t.total = n) BY DEF AtAnswer, Filled
<1>2. Fits(a, t.q) /\ rows \in Seq(Int) /\ n \in Nat /\ t.total \in Nat BY LenProperties DEF Sound, Tasks
<1>5. ASSUME NEW k \in Nat, NEW edges, edges = Cursors!Positioned(rows, k) PROVE rows = <<>> => edges = <<>>
  BY <1>2, <1>5, NoneAreNone
<1>3. CASE rows # <<>>
  <2>1. offset = Cursors!PageOffset(a, n) BY <1>1, <1>3
  <2>2. From(a, n) = Cursors!PageOffset(a, n) BY <1>2, PlansAgree
  <2> QED BY <1>1, <2>1, <2>2
<1>4. CASE rows = <<>>
  <2>1. offset = From(a, t.total) BY <1>2, PlansAgree
  <2>2. ASSUME NEW k \in Nat PROVE From(a, k) \in Nat
    <3>1. a \in Args /\ {a.after, a.before} \subseteq Nat \cup {Cursors!None} BY <1>2 DEF Fits
    <3> QED BY <3>1, WindowIs
  <2>3. offset \in Nat /\ From(a, n) \in Nat BY <1>2, <2>1, <2>2
  <2>4. ASSUME NEW k \in Nat, NEW edges, edges = Cursors!Positioned(rows, k) PROVE edges = <<>> BY <1>4, <1>5, <2>4
  <2>5. Cursors!Positioned(rows, offset) = <<>> /\ Cursors!Positioned(rows, From(a, n)) = <<>> BY <2>3, <2>4
  <2> QED BY <1>1, <2>5
<1> QED BY <1>3, <1>4

\* What is answered is the page: edges, flags and total.
LEMMA AnswerSays ==
  ASSUME NEW list \in Seq(Int), Head(codecs) \in {"old", "new"}, writes \in Nat,
         Tells(task, list, writes, backend), Cursors!Answer
  PROVE  Says(answer', list, writes, backend) /\ answer'.q = task.q
<1> SUFFICES ASSUME NEW t, t = task, NEW s, s = answer', NEW n, n = Len(list), NEW a, a = t.args
             PROVE Says(s, list, writes, backend) /\ s.q = t.q
  OBVIOUS
<1>1. /\ t.at = "answer" /\ Sound(t, writes) /\ t \in Tasks /\ a \in Args /\ Fits(a, t.q) /\ AtAnswer(t, list, writes, backend) /\ t.total \in Nat
      /\ t.rows \in Seq(Int) /\ t.began \in Nat /\ t.began <= writes /\ t.q \in Queries /\ (t.q.countOnly => t.rows = <<>>)
  BY DEF Cursors!Answer, Tells, Sound, Tasks
<1> SUFFICES ASSUME NEW offset, offset = Cursors!PageOffset(a, t.total), NEW edges, edges = Cursors!Positioned(t.rows, offset),
                    NEW shown, shown = Cursors!InOrder(Unveiled(t.rows)), NEW next, next = Cursors!HasNextPage(edges, t.total),
                    NEW previous, previous = Cursors!HasPreviousPage(edges), NEW found, found = (t.rows # <<>>)
             PROVE  Says(s, list, writes, backend) /\ s.q = t.q
  OBVIOUS
<1>2. s = [given |-> TRUE, q |-> t.q, args |-> a, error |-> FALSE, total |-> t.total, edges |-> edges, hasNextPage |-> next,
           hasPreviousPage |-> previous, began |-> t.began, written |-> writes, found |-> found]
  BY DEF Cursors!Answer, Cursors!Answered
<1>3. /\ s.given /\ s.q = t.q /\ s.args = a /\ ~ s.error /\ s.total = t.total /\ s.edges = edges /\ s.hasNextPage = next
      /\ s.hasPreviousPage = previous /\ s.began = t.began /\ s.found = found
  BY <1>2
<1>4. offset = From(a, t.total) /\ n \in Nat BY <1>1, PlansAgree, LenProperties
<1>5. offset \in Nat
  <2>1. a \in Args /\ {a.after, a.before} \subseteq Nat \cup {Cursors!None} BY <1>1 DEF Fits
  <2> QED BY <1>1, <1>4, <2>1, WindowIs
<1>6. /\ edges \in Seq(Edges) /\ DOMAIN edges = 1 .. Len(edges) /\ Len(edges) \in Nat
      /\ DOMAIN shown = DOMAIN edges /\ {shown[k] : k \in DOMAIN shown} = Unveiled(t.rows)
  <2> DEFINE rows == t.rows
  <2>1. rows \in Seq(Int) /\ offset \in Nat /\ edges = Cursors!Positioned(rows, offset) /\ shown = Cursors!InOrder(Unveiled(rows))
    BY <1>1, <1>5
  <2> HIDE DEF rows
  <2>2. edges \in Seq(Edges) /\ DOMAIN edges = 1 .. Len(edges) BY <2>1, PositionedIs
  <2>3. DOMAIN shown = DOMAIN edges BY <2>1, PositionedIs
  <2>4. {shown[k] : k \in DOMAIN shown} = Unveiled(rows) BY <2>1, PositionedIs
  <2> QED BY <2>2, <2>3, <2>4, LenProperties DEF rows
<1>7. \A k \in DOMAIN edges : /\ edges[k].index = offset + shown[k] - 1 /\ edges[k].cursor.index = edges[k].index
                              /\ edges[k].index \in Nat /\ shown[k] \in DOMAIN t.rows
  <2> DEFINE rows == t.rows
  <2>1. rows \in Seq(Int) /\ offset \in Nat /\ edges = Cursors!Positioned(rows, offset) /\ shown = Cursors!InOrder(Unveiled(rows))
    BY <1>1, <1>5
  <2> HIDE DEF rows
  <2>2. ASSUME NEW k \in DOMAIN edges
        PROVE  /\ edges[k].index = offset + shown[k] - 1 /\ edges[k].cursor.index = edges[k].index
               /\ edges[k].index \in Nat /\ shown[k] \in DOMAIN rows
    <3>1. edges[k].index = offset + shown[k] - 1 BY <2>1, EdgesAre
    <3>2. edges[k].cursor.index = edges[k].index BY <2>1, EdgesAre
    <3>3. edges[k].index \in Nat /\ shown[k] \in DOMAIN rows BY <2>1, EdgesAre
    <3> QED BY <3>1, <3>2, <3>3
  <2> QED BY <2>2 DEF rows
<1>8. t.rows = <<>> => edges = <<>> BY <1>1, <1>5, NoneAreNone
<1>9. ASSUME Still(t, writes), t.rows # <<>> PROVE t.total = n BY <1>1, <1>9 DEF AtAnswer
<1>10. edges # <<>> => Len(edges) \in DOMAIN edges /\ 1 \in DOMAIN edges /\ Head(edges) = edges[1]
  <2>1. edges # <<>> => Len(edges) > 0 BY <1>6, EmptySeq
  <2> QED BY <1>6, <2>1
<1>11. edges # <<>> => previous = (edges[1].index > 0) BY <1>10 DEF Cursors!HasPreviousPage
<1>12. Positions(s) BY <1>3, <1>6, <1>7, <1>11 DEF Positions
<1>13. MomentSaid(s, backend)
  <2> SUFFICES ASSUME backend.inline, edges # <<>>, Cursors!Root(t.q), a.last = Cursors!None
               PROVE  edges[Len(edges)].index < t.total
    BY <1>3 DEF MomentSaid
  <2>1. From(a, 0) + Len(t.rows) <= t.total BY <1>1, <1>8 DEF AtAnswer
  <2>2. offset = From(a, 0) BY <1>4 DEF From
  <2>3. edges[Len(edges)].index = offset + shown[Len(edges)] - 1 /\ shown[Len(edges)] \in DOMAIN t.rows BY <1>7, <1>10
  <2>4. DOMAIN t.rows = 1 .. Len(t.rows) /\ Len(t.rows) \in Nat BY <1>1, LenProperties
  <2> QED BY <1>1, <1>5, <2>1, <2>2, <2>3, <2>4
<1>14. ASSUME Still(t, writes) PROVE WindowSaid(s, list)
  <2>1. RowsSaid(edges, t.q, a, list)
    <3>1. CASE t.q.countOnly
      <4>1. edges = <<>> BY <1>1, <1>8, <3>1
      <4>2. {edges[k] : k \in DOMAIN edges} = {} BY <4>1
      <4> QED BY <3>1, <4>2 DEF RowsSaid
    <3>2. CASE ~ t.q.countOnly
      <4>1. t.rows = Page(list, a) BY <1>1, <1>14, <3>2, PlacedTruly
      <4>2. edges = Cursors!Positioned(t.rows, From(a, n)) BY <1>1, <1>14, <3>2, PlacedTruly
      <4> SUFFICES ASSUME NEW rows, rows = t.rows, NEW from, from = From(a, n), NEW q, q = t.q
                   PROVE  {<<e.index, e.row>> : e \in {edges[k] : k \in DOMAIN edges}} =
                            {<<i, list[i + 1]>> : i \in {j \in Cursors!Wanted(list, a) : list[j + 1] \notin Veiled}}
        BY <3>2 DEF RowsSaid
      <4>3. Fits(a, q) /\ rows = Page(list, a) /\ edges = Cursors!Positioned(rows, from) BY <1>1, <4>1, <4>2
      <4> QED BY <4>3, PageIsWanted
    <3> QED BY <3>1, <3>2
  <2>2. ASSUME edges # <<>>
        PROVE  /\ previous = (Head(edges).index > 0)
               /\ next = \E i \in 0 .. n - 1 : i > edges[Len(edges)].index
    <3>1. t.total = n BY <1>8, <1>9, <1>14, <2>2
    <3>2. next = (edges[Len(edges)].index < n - 1) BY <2>2, <3>1 DEF Cursors!HasNextPage, Cursors!Last
    <3>3. edges[Len(edges)].index \in Nat BY <1>7, <1>10, <2>2
    <3>4. next = \E i \in 0 .. n - 1 : i > edges[Len(edges)].index BY <1>4, <3>2, <3>3, EndIs
    <3>5. previous = (Head(edges).index > 0) BY <1>10, <1>11, <2>2
    <3> QED BY <3>4, <3>5, Zenon
  <2>3. t.rows # <<>> \/ t.q.countOnly \/ (Cursors!Root(t.q) /\ Cursors!CursorOffset(a) > 0) => t.total = n
    BY <1>1, <1>14 DEF AtAnswer
  <2>4. found => t.rows # <<>> OBVIOUS
  <2>5. s.found \/ t.q.countOnly \/ (Cursors!Root(t.q) /\ Cursors!CursorOffset(a) > 0) => t.total = n BY <1>3, <2>3, <2>4, Zenon
  <2>6. s.edges # <<>> => /\ s.hasPreviousPage = (Head(s.edges).index > 0)
                          /\ s.hasNextPage = \E i \in 0 .. n - 1 : i > s.edges[Len(s.edges)].index
    BY <1>3, <2>2, Zenon
  <2>7. RowsSaid(s.edges, s.q, s.args, list) BY <1>3, <2>1
  <2> QED BY <1>3, <2>5, <2>6, <2>7, Zenon DEF WindowSaid
<1>15. Still(s, writes) => Still(t, writes) BY <1>3 DEF Still
<1> QED BY <1>1, <1>3, <1>12, <1>13, <1>14, <1>15 DEF Says

-------------------------------------------------------------------------------
(* What a client may ask for, and go on with. *)

\* A cursor that is read is read as what was sealed.
LEMMA DecodedIs ==
  ASSUME NEW c \in Cursors!SentCursors
  PROVE  c.index \in Nat \cup {Cursors!None} /\ (Cursors!Decoded(c).ok => Cursors!Decoded(c).index = c.index)
<1>1. c = Cursors!NoCursor => c.index = Cursors!None BY DEF Cursors!NoCursor, Cursors!Cursor
<1>2. c # Cursors!NoCursor => c.index \in Nat BY DEF Cursors!SentCursors
<1>3. Cursors!Decoded(c).ok => Cursors!Decoded(c).index = c.index BY <1>1 DEF Cursors!Decoded
<1> QED BY <1>1, <1>2, <1>3

\* A request that is not refused asks for one window.
LEMMA ArgsFit ==
  ASSUME NEW q, Askable(q), ~ Cursors!Refused(q)
  PROVE  Fits(Cursors!ArgsOf(q), q)
<1> DEFINE a == Cursors!ArgsOf(q)
<1>1. CASE q.road = "rest"
  <2>1. q \in Cursors!RestQueries BY <1>1 DEF Askable, Queries, Cursors!GraphQueries
  <2>2. q.limit \in Int /\ q.offset \in Int BY <2>1 DEF Cursors!RestQueries
  <2>3. a = [first |-> q.limit, last |-> Cursors!None, before |-> Cursors!None,
             after |-> IF q.offset > 0 THEN q.offset - 1 ELSE Cursors!None]
    BY <1>1 DEF Cursors!ArgsOf, Cursors!ListArgs
  <2>4. a \in Args /\ {a.after, a.before} \subseteq Nat \cup {Cursors!None}
    BY <2>2, <2>3 DEF Args, Cursors!None
  <2>5. Cursors!Root(q) BY <1>1 DEF Cursors!Root
  <2>6. Cursors!OneWindow(a, q) BY <1>1, <2>3, <2>5 DEF Cursors!OneWindow
  <2> QED BY <1>1, <2>4, <2>6 DEF Fits
<1>2. CASE q.road # "rest"
  <2>1. q \in Cursors!GraphQueries BY <1>2 DEF Askable, Queries, Cursors!RestQueries
  <2>2. q.first \in Int /\ q.last \in Int /\ q.after \in Cursors!SentCursors /\ q.before \in Cursors!SentCursors
    BY <2>1 DEF Cursors!GraphQueries, Cursors!Sizes, Cursors!None
  <2>3. Cursors!Decoded(q.after).ok /\ Cursors!Decoded(q.before).ok BY <1>2 DEF Cursors!Refused
  <2>4. Cursors!Decoded(q.after).index = q.after.index /\ Cursors!Decoded(q.before).index = q.before.index
    BY <2>2, <2>3, DecodedIs
  <2>5. {q.after.index, q.before.index} \subseteq Nat \cup {Cursors!None} BY <2>2, DecodedIs
  <2>6. a = Cursors!AskedOf(q) BY <1>2, <2>4 DEF Cursors!ArgsOf, Cursors!AskedOf
  <2>7. a = [first |-> q.first, last |-> q.last, after |-> q.after.index, before |-> q.before.index]
    BY <2>6 DEF Cursors!AskedOf
  <2>8. a \in Args /\ {a.after, a.before} \subseteq Nat \cup {Cursors!None} BY <2>2, <2>5, <2>7 DEF Args, Cursors!None
  <2>9. Cursors!OneWindow(a, q) BY <1>2, <2>6 DEF Askable
  <2> QED BY <2>6, <2>8, <2>9 DEF Fits
<1> QED BY <1>1, <1>2

\* And so does the same request with the cursor of an edge.
LEMMA GoingOnIsAsking ==
  ASSUME NEW q \in Cursors!GraphQueries, Cursors!OneWindow(Cursors!AskedOf(q), q),
         NEW x \in Cursors!SentCursors, NEW y \in Cursors!SentCursors,
         \/ x.index # Cursors!None /\ y = Cursors!NoCursor
         \/ x = Cursors!NoCursor /\ y.index # Cursors!None /\ y.index # 0,
         NEW p, p = [q EXCEPT !.after = x, !.before = y]
  PROVE  Askable(p)
<1>1. /\ p \in Cursors!GraphQueries /\ p.road = q.road /\ p.relation = q.relation /\ p.separate = q.separate
      /\ p.countOnly = q.countOnly /\ p.first = q.first /\ p.last = q.last /\ p.after = x /\ p.before = y
  BY DEF Cursors!GraphQueries
<1> DEFINE a == Cursors!AskedOf(q)  b == Cursors!AskedOf(p)
<1>2. a.first = q.first /\ a.last = q.last BY DEF Cursors!AskedOf
<1>3. b.first = q.first /\ b.last = q.last /\ b.after = x.index /\ b.before = y.index BY <1>1 DEF Cursors!AskedOf
<1>4. Cursors!NoCursor.index = Cursors!None /\ Cursors!None # 0 BY DEF Cursors!NoCursor, Cursors!Cursor, Cursors!None
<1> HIDE DEF a, b
<1>5. ~ Cursors!LastOnly(b) BY <1>3 DEF Cursors!LastOnly
<1>6. Cursors!SizeGiven(b) = Cursors!SizeGiven(a) BY <1>2, <1>3 DEF Cursors!SizeGiven
<1>7. Cursors!Root(p) <=> Cursors!Root(q) BY <1>1 DEF Cursors!Root
<1>8. Cursors!OneWindow(a, q) BY DEF a
<1>9. Cursors!OneWindow(b, p) BY <1>1, <1>2, <1>3, <1>4, <1>5, <1>6, <1>7, <1>8 DEF Cursors!OneWindow
<1> QED BY <1>1, <1>9 DEF Askable, Queries, b

\* No plan has a negative limit or offset.
LEMMA PlansAreBounded ==
  ASSUME NEW a, NEW q, Fits(a, q)
  PROVE  /\ Cursors!RootPlan(a).limit \in Nat /\ Cursors!RootPlan(a).offset \in Nat
         /\ Cursors!RelationPlan(a).limit \in Nat /\ Cursors!RelationPlan(a).offset \in Nat
         /\ Cursors!SeparatePlan(a).limit \in Nat /\ Cursors!SeparatePlan(a).offset \in Nat
<1>1. a \in Args /\ {a.after, a.before} \subseteq Nat \cup {Cursors!None} BY DEF Fits
<1>2. Cursors!SizeOf(a) \in Nat BY <1>1, SizeIs, PagesAssumption
<1>3. a.before # Cursors!None => a.before \in Nat BY <1>1
<1>4. a.after # Cursors!None => a.after \in Nat BY <1>1
<1>5. Cursors!CursorOffset(a) \in Nat BY <1>2, <1>3, <1>4 DEF Cursors!CursorOffset, Cursors!Greatest
<1>6. Upto(a) \in Nat BY <1>2, <1>3 DEF Upto, Cursors!Least
<1>7. Cursors!RootPlan(a).limit = Upto(a) /\ Cursors!RootPlan(a).offset = Cursors!CursorOffset(a)
  BY DEF Cursors!RootPlan, Upto
<1>8. Cursors!SeparatePlan(a).limit \in Nat /\ Cursors!SeparatePlan(a).offset \in Nat
  <2>1. Cursors!SeparatePlan(a).limit = Upto(a) BY DEF Cursors!SeparatePlan, Upto
  <2>2. Cursors!SeparatePlan(a).offset = IF a.before # Cursors!None THEN Cursors!Greatest(0, a.before - Upto(a)) ELSE a.after + 1
    BY DEF Cursors!SeparatePlan, Upto
  <2>3. a.before # Cursors!None => Cursors!Greatest(0, a.before - Upto(a)) \in Nat BY <1>3, <1>6 DEF Cursors!Greatest
  <2>4. a.after + 1 \in Nat BY <1>4 DEF Cursors!None
  <2> QED BY <1>6, <2>1, <2>2, <2>3, <2>4
<1>9. Cursors!RelationArgs(a) \in Args
  <2> DEFINE c == Cursors!Least(Cursors!SizeOf(a), a.before)
  <2>1. c \in Int BY <1>1, <1>2 DEF Args, Cursors!Least
  <2>2. Cursors!RelationArgs(a) = IF a.before = Cursors!None THEN a
                                  ELSE IF a.first # Cursors!None THEN [a EXCEPT !.first = c] ELSE [a EXCEPT !.last = c]
    BY DEF Cursors!RelationArgs
  <2> HIDE DEF c
  <2> QED BY <1>1, <2>1, <2>2 DEF Args
<1>10. Cursors!SizeOf(Cursors!RelationArgs(a)) \in Nat BY <1>9, SizeIs, PagesAssumption
<1>11. Cursors!Cardinality(Rows) \in Nat BY PagesAssumption, FS_CardinalityType, CursorsCardinality
<1>12. Cursors!RelationPlan(a).limit \in Nat /\ Cursors!RelationPlan(a).offset = Cursors!CursorOffset(a)
  BY <1>10, <1>11 DEF Cursors!RelationPlan
<1> QED BY <1>5, <1>6, <1>7, <1>8, <1>12

\* A request is refused, or its first query has what it rests on.
LEMMA StartTells ==
  ASSUME NEW list \in Seq(Int), writes \in Nat, NEW q, Askable(q), Cursors!Start(q), Says(answer, list, writes, backend)
  PROVE  /\ task' = task \/ (Tells(task', list, writes, backend) /\ task'.q = q /\ task'.began = writes /\ answer' = answer)
         /\ Says(answer', list, writes, backend) /\ (answer' = answer \/ (answer'.q = q /\ answer'.error))
<1>1. CASE Cursors!Refused(q)
  <2>1. task' = task BY <1>1 DEF Cursors!Start
  <2> SUFFICES ASSUME NEW s, s = answer' PROVE Says(s, list, writes, backend) /\ s.q = q /\ s.error BY <2>1
  <2>2. s.q = q /\ s.error = TRUE /\ s.began = writes BY <1>1 DEF Cursors!Start, Cursors!Answered
  <2> QED BY <2>2 DEF Says, Askable
<1>2. CASE ~ Cursors!Refused(q)
  <2>1. answer' = answer BY <1>2 DEF Cursors!Start
  <2> SUFFICES ASSUME NEW u, u = task', NEW n, n = Len(list), NEW a, a = Cursors!ArgsOf(q)
               PROVE  Tells(u, list, writes, backend) /\ u.q = q /\ u.began = writes
    BY <2>1
  <2> DEFINE plan == IF Cursors!Preloaded(q, a) THEN Cursors!SeparatePlan(a)
                     ELSE IF Cursors!Root(q) THEN Cursors!RootPlan(a) ELSE Cursors!RelationPlan(a)
             at == Cursors!First(q, a)
  <2>2. u = [at |-> at, q |-> q, args |-> a, limit |-> plan.limit, offset |-> plan.offset,
             loaded |-> <<>>, rows |-> <<>>, total |-> 0, began |-> writes]
    BY <1>2 DEF Cursors!Start, Cursors!NewTask
  <2>3. Fits(a, q) /\ q \in Queries /\ n \in Nat BY <1>2, ArgsFit, LenProperties DEF Askable
  <2>4. plan.limit \in Nat /\ plan.offset \in Nat
    <3>1. CASE Cursors!Preloaded(q, a) BY <2>3, <3>1, PlansAreBounded
    <3>2. CASE ~ Cursors!Preloaded(q, a) /\ Cursors!Root(q) BY <2>3, <3>2, PlansAreBounded
    <3>3. CASE ~ Cursors!Preloaded(q, a) /\ ~ Cursors!Root(q) BY <2>3, <3>3, PlansAreBounded
    <3> QED BY <3>1, <3>2, <3>3
  <2>5. Cursors!CountsBefore(q, a) <=> Cursors!LastOnly(a) BY <2>3, PlansAgree
  <2>6. at = (IF Cursors!Preloaded(q, a) THEN "load"
              ELSE IF Cursors!LastOnly(a) THEN "countBefore"
              ELSE IF q.countOnly THEN "count"
              ELSE IF Cursors!CountsFirst(q) THEN "countFirst" ELSE "find")
    BY <2>5 DEF Cursors!First
  <2>7. at \in Phases BY <2>6 DEF Phases
  <2>8. Cursors!Preloaded(q, a) => ~ q.countOnly BY DEF Cursors!Preloaded
  <2>9. Cursors!Preloaded(q, a) /\ Cursors!Separate(q, a) => plan.limit = Upto(a) /\ plan.offset = From(a, 0)
    BY <2>3, PreloadsAgree
  <2>10. ~ Cursors!Preloaded(q, a) /\ ~ q.countOnly => plan.limit = Upto(a) /\ plan.offset = Cursors!CursorOffset(a)
    <3>1. Cursors!RootPlan(a).limit = Upto(a) /\ Cursors!RootPlan(a).offset = Cursors!CursorOffset(a)
      BY DEF Cursors!RootPlan, Upto
    <3>2. ~ Cursors!Root(q) /\ ~ q.countOnly =>
            Cursors!RelationPlan(a).limit = Upto(a) /\ Cursors!RelationPlan(a).offset = Cursors!CursorOffset(a)
      BY <2>3, RelationsAgree
    <3> QED BY <3>1, <3>2
  <2>11. ~ Cursors!LastOnly(a) => Cursors!CursorOffset(a) = From(a, 0) /\ From(a, n) = From(a, 0)
    <3>1. ~ Cursors!LastOnly(a) => Cursors!CursorOffset(a) = From(a, 0) BY <2>3, PlansAgree
    <3>2. a \in Args /\ {a.after, a.before} \subseteq Nat \cup {Cursors!None} BY <2>3 DEF Fits
    <3> QED BY <2>3, <3>1, <3>2, WindowIs
  <2> HIDE DEF plan, at
  <2>12. /\ u \in Tasks /\ u.q = q /\ u.args = a /\ u.at = at /\ u.rows = <<>> /\ u.total = 0 /\ u.began = writes
         /\ u.limit = plan.limit /\ u.offset = plan.offset
    <3>1. a \in Args BY <2>3 DEF Fits
    <3> QED BY <2>2, <2>3, <2>4, <2>7, <3>1 DEF Tasks
  <2>13. Sound(u, writes) BY <2>3, <2>6, <2>8, <2>12 DEF Sound
  <2>14. at = "load" => AtLoad(u) BY <2>6, <2>9, <2>12 DEF AtLoad
  <2>15. at = "countBefore" => AtCountBefore(u, list, writes) BY <2>6, <2>10, <2>12 DEF AtCountBefore
  <2>16. at \in {"countFirst", "find"} => Placed(u, list, writes) BY <2>6, <2>10, <2>11, <2>12 DEF Placed
  <2>17. at = "countFirst" => ~ Cursors!Root(q) BY <2>6 DEF Cursors!CountsFirst
  <2>18. at = "find" => AtFind(u, list, writes, backend) BY <2>6, <2>12, <2>16 DEF AtFind, Cursors!CountsFirst
  <2>19. at = "count" => AtCount(u, list, writes, backend) BY <2>6, <2>12 DEF AtCount, Filled
  <2>20. at # "window" /\ at # "answer" BY <2>6
  <2> QED BY <2>12, <2>13, <2>14, <2>15, <2>16, <2>17, <2>18, <2>19, <2>20 DEF Tells
<1> QED BY <1>1, <1>2

-------------------------------------------------------------------------------
(* The invariant of a client that reads a list. *)

PagesInv ==
  /\ table \in SUBSET Rows /\ writes \in Nat /\ Head(codecs) \in {"old", "new"}
  /\ walk = [on |-> walk.on, seen |-> walk.seen, began |-> walk.began]
  /\ task = Cursors!Idle \/ Tells(task, Cursors!ListOf(table), writes, backend)
  /\ Says(answer, Cursors!ListOf(table), writes, backend)
  /\ walk.on => (task # Cursors!Idle => task.q.road # "rest") /\ (answer.given => answer.q.road # "rest")

\* The list is a sequence of numbers.
LEMMA ListIs == ASSUME NEW t \in SUBSET Rows PROVE Cursors!ListOf(t) \in Seq(Int)
<1>1. Rows \subseteq Nat /\ IsFiniteSet(Rows) BY PagesAssumption
<1>2. t \in SUBSET Int BY <1>1
<1>3. IsFiniteSet(t) BY <1>1, FS_Subset
<1> SUFFICES ASSUME NEW s, s = Cursors!InOrder(t) PROVE s \in Seq(Int) BY DEF Cursors!ListOf
<1>4. s \in Seq(t) BY <1>2, <1>3, InOrderIs
<1>5. s \in [1 .. Len(s) -> t] /\ Len(s) \in Nat BY <1>4, LenProperties
<1>6. s \in [1 .. Len(s) -> Int] BY <1>2, <1>5
<1> QED BY <1>5, <1>6

(* A write makes what is said of the list a thing of the past. *)
LEMMA WritesAge ==
  ASSUME NEW list, NEW others, NEW w \in Nat, NEW b
  PROVE  /\ \A t : Tells(t, list, w, b) => Tells(t, others, w + 1, b)
         /\ \A s : Says(s, list, w, b) => Says(s, others, w + 1, b)
<1>1. ASSUME NEW t, Tells(t, list, w, b) PROVE Tells(t, others, w + 1, b)
  <2>1. Sound(t, w) /\ t.began \in Nat BY <1>1 DEF Tells, Sound, Tasks
  <2>2. t.began <= w + 1 /\ ~ Still(t, w + 1) BY <2>1 DEF Sound, Still
  <2>3. Sound(t, w + 1) BY <2>1, <2>2 DEF Sound
  <2>4. t.at = "load" => AtLoad(t) BY <1>1 DEF Tells
  <2>5. t.at = "window" => AtWindow(t, others, w + 1) BY <1>1, <2>2 DEF Tells, AtWindow
  <2>6. t.at = "countBefore" => AtCountBefore(t, others, w + 1) BY <1>1, <2>2 DEF Tells, AtCountBefore
  <2>7. t.at = "countFirst" => ~ Cursors!Root(t.q) /\ Placed(t, others, w + 1) BY <1>1, <2>2 DEF Tells, Placed
  <2>8. t.at = "find" => AtFind(t, others, w + 1, b) BY <1>1, <2>2 DEF Tells, AtFind, Placed
  <2>9. t.at = "count" => AtCount(t, others, w + 1, b) BY <1>1, <2>2 DEF Tells, AtCount, Filled
  <2>10. t.at = "answer" => AtAnswer(t, others, w + 1, b) BY <1>1, <2>2 DEF Tells, AtAnswer, Filled
  <2> QED BY <2>3, <2>4, <2>5, <2>6, <2>7, <2>8, <2>9, <2>10 DEF Tells
<1>2. ASSUME NEW s, Says(s, list, w, b) PROVE Says(s, others, w + 1, b)
  <2>1. s.given => s.began \in Nat /\ s.began <= w + 1 /\ ~ Still(s, w + 1) BY <1>2 DEF Says, Still
  <2> QED BY <1>2, <2>1 DEF Says
<1> QED BY <1>1, <1>2

\* The request that goes on from a page: after its last row, or before its first.
GoesOnFrom(q, s) ==
  /\ q.last = s.q.last /\ q.countOnly = s.q.countOnly
  /\ IF q.last = Cursors!None
     THEN q.before.index = Cursors!None /\ q.after.index = s.edges[Len(s.edges)].index /\ s.hasNextPage
     ELSE q.after.index = Cursors!None /\ q.before.index = s.edges[1].index /\ s.edges[1].index > 0

\* Going on is asking, with the cursor of the last edge or of the first.
LEMMA ContinueAsks ==
  ASSUME PagesInv, Cursors!Continue
  PROVE  \E q : /\ Askable(q) /\ Cursors!Start(q) /\ q.road # "rest" /\ GoesOnFrom(q, answer)
<1> DEFINE forward == answer.q.last = Cursors!None
           edge == IF forward THEN Cursors!Last(answer.edges) ELSE Head(answer.edges)
           x == IF forward THEN edge.cursor ELSE Cursors!NoCursor
           y == IF forward THEN Cursors!NoCursor ELSE edge.cursor
           p == [answer.q EXCEPT !.after = x, !.before = y]
<1> SUFFICES ASSUME NEW list, list = Cursors!ListOf(table) PROVE \E q : Askable(q) /\ Cursors!Start(q) /\ q.road # "rest" /\ GoesOnFrom(q, answer)
  OBVIOUS
<1>1. Cursors!Start(p) /\ (forward => answer.hasNextPage) /\ (~ forward => answer.hasPreviousPage) BY DEF Cursors!Continue
<1>2. walk.on /\ answer.given /\ ~ answer.error /\ answer.edges # <<>> BY DEF Cursors!Continue
<1>3. answer.q.road # "rest" /\ answer.q \in Queries /\ Fits(answer.args, answer.q) /\ Positions(answer)
  BY <1>2 DEF PagesInv, Says
<1>4. answer.q \in Cursors!GraphQueries /\ Cursors!OneWindow(Cursors!AskedOf(answer.q), answer.q)
  BY <1>3 DEF Queries, Cursors!RestQueries, Fits
<1>5. /\ 1 \in DOMAIN answer.edges /\ Len(answer.edges) \in DOMAIN answer.edges
      /\ \A k \in DOMAIN answer.edges : answer.edges[k] \in Edges
  <2>1. answer.edges \in Seq(Edges) BY <1>3 DEF Positions
  <2>2. DOMAIN answer.edges = 1 .. Len(answer.edges) /\ Len(answer.edges) \in Nat /\ Len(answer.edges) > 0
    BY <1>2, <2>1, LenProperties, EmptySeq
  <2> QED BY <2>1, <2>2
<1>6. Head(answer.edges) = answer.edges[1] /\ Cursors!Last(answer.edges) = answer.edges[Len(answer.edges)]
  <2>1. answer.edges \in Seq(Edges) BY <1>3 DEF Positions
  <2> QED BY <1>2, <2>1 DEF Cursors!Last
<1>7. \E k \in DOMAIN answer.edges : edge = answer.edges[k] /\ k = IF forward THEN Len(answer.edges) ELSE 1 BY <1>5, <1>6
<1>8. PICK k \in DOMAIN answer.edges : edge = answer.edges[k] /\ k = IF forward THEN Len(answer.edges) ELSE 1 BY <1>7
<1>9. edge \in Edges /\ edge.cursor.index = edge.index BY <1>3, <1>5, <1>8 DEF Positions
<1>10. edge.cursor \in Cursors!SentCursors /\ edge.index \in Int BY <1>9 DEF Edges
<1>11. ~ forward => edge.index > 0 BY <1>1, <1>2, <1>3, <1>8 DEF Positions
<1>12. edge.index \in Nat BY <1>3, <1>8 DEF Positions
<1>13. Cursors!NoCursor \in Cursors!SentCursors BY DEF Cursors!SentCursors
<1> HIDE DEF edge, forward
<1>14. edge.cursor.index # Cursors!None /\ (~ forward => edge.cursor.index # 0)
  BY <1>9, <1>11, <1>12 DEF Cursors!None
<1>15. x \in Cursors!SentCursors /\ y \in Cursors!SentCursors BY <1>10, <1>13
<1>16. \/ x.index # Cursors!None /\ y = Cursors!NoCursor
       \/ x = Cursors!NoCursor /\ y.index # Cursors!None /\ y.index # 0
  BY <1>14
<1>17. /\ forward => x.index = answer.edges[Len(answer.edges)].index /\ y = Cursors!NoCursor
       /\ ~ forward => x = Cursors!NoCursor /\ y.index = answer.edges[1].index /\ answer.edges[1].index > 0
  BY <1>8, <1>9, <1>11
<1>18. Cursors!NoCursor.index = Cursors!None BY DEF Cursors!NoCursor, Cursors!Cursor
<1>19. forward <=> answer.q.last = Cursors!None BY DEF forward
<1> HIDE DEF x, y
<1>20. p = [answer.q EXCEPT !.after = x, !.before = y] OBVIOUS
<1> HIDE DEF p
<1>21. Askable(p)
  <2> SUFFICES ASSUME NEW q \in Cursors!GraphQueries, Cursors!OneWindow(Cursors!AskedOf(q), q),
                      p = [q EXCEPT !.after = x, !.before = y]
               PROVE  Askable(p)
    BY <1>4, <1>20
  <2> QED BY <1>15, <1>16, GoingOnIsAsking
<1>22. /\ p.road = answer.q.road /\ p.last = answer.q.last /\ p.countOnly = answer.q.countOnly
       /\ p.after = x /\ p.before = y
  BY <1>4, <1>20 DEF Cursors!GraphQueries
<1>23. GoesOnFrom(p, answer) BY <1>1, <1>17, <1>18, <1>19, <1>22 DEF GoesOnFrom
<1> QED BY <1>1, <1>3, <1>21, <1>22, <1>23

\* It holds at first,
LEMMA PagesInvInit == Cursors!Init => PagesInv
<1> SUFFICES ASSUME Cursors!Init PROVE PagesInv OBVIOUS
<1>1. table \in SUBSET Rows /\ writes = 0 /\ codecs = <<"old">> /\ task = Cursors!Idle
  BY DEF Cursors!Init
<1>2. walk = [on |-> FALSE, seen |-> <<>>, began |-> 0] BY DEF Cursors!Init
<1>3. answer.given = FALSE BY DEF Cursors!Init, Cursors!NoAnswer
<1>4. Head(codecs) \in {"old", "new"} BY <1>1
<1>5. walk = [on |-> walk.on, seen |-> walk.seen, began |-> walk.began] /\ ~ walk.on BY <1>2
<1>6. Says(answer, Cursors!ListOf(table), writes, backend) BY <1>3 DEF Says
<1> QED BY <1>1, <1>4, <1>5, <1>6 DEF PagesInv

\* every step keeps it,
LEMMA PagesInvKept == PagesInv /\ Cursors!Next => PagesInv'
<1> SUFFICES ASSUME PagesInv, Cursors!Next PROVE PagesInv' OBVIOUS
<1> SUFFICES ASSUME NEW list, list = Cursors!ListOf(table) PROVE PagesInv' OBVIOUS
<1>1. /\ table \in SUBSET Rows /\ writes \in Nat /\ Head(codecs) \in {"old", "new"}
      /\ walk = [on |-> walk.on, seen |-> walk.seen, began |-> walk.began]
      /\ task = Cursors!Idle \/ Tells(task, list, writes, backend)
      /\ Says(answer, list, writes, backend)
      /\ walk.on => (task # Cursors!Idle => task.q.road # "rest") /\ (answer.given => answer.q.road # "rest")
  BY DEF PagesInv
<1>2. list \in Seq(Int) BY <1>1, ListIs
<1>3. ASSUME UNCHANGED <<backend, codecs, table, writes>>,
             walk' = [on |-> walk'.on, seen |-> walk'.seen, began |-> walk'.began],
             task' = Cursors!Idle \/ Tells(task', list, writes, backend), Says(answer', list, writes, backend),
             walk'.on => (task' # Cursors!Idle => task'.q.road # "rest") /\ (answer'.given => answer'.q.road # "rest")
      PROVE  PagesInv'
  <2>1. Cursors!ListOf(table)' = list BY <1>3 DEF Cursors!ListOf, Cursors!InOrder
  <2> QED BY <1>1, <1>3, <2>1 DEF PagesInv
<1>4. ASSUME answer = Cursors!NoAnswer, task = Cursors!Idle, NEW q \in PageRequests, Cursors!Ask(q) PROVE PagesInv'
  <2>1. Askable(q) BY PagesAssumption DEF Askable, Queries
  <2>2. Cursors!Start(q) BY <1>4 DEF Cursors!Ask
  <2>3. /\ task' = task \/ (Tells(task', list, writes, backend) /\ task'.q = q)
        /\ Says(answer', list, writes, backend) /\ (answer' = answer \/ answer'.q = q)
    BY <1>1, <1>2, <2>1, <2>2, StartTells
  <2>4. walk' = [on |-> q.road # "rest" /\ ~ q.countOnly /\ q.after = Cursors!NoCursor /\ q.before = Cursors!NoCursor,
                 seen |-> <<>>, began |-> writes]
    BY <1>4 DEF Cursors!Ask
  <2>5. walk' = [on |-> walk'.on, seen |-> walk'.seen, began |-> walk'.began] /\ (walk'.on => q.road # "rest") BY <2>4
  <2>6. UNCHANGED <<backend, codecs, table, writes>> BY <2>2 DEF Cursors!Start
  <2>7. ~ answer.given BY <1>4 DEF Cursors!NoAnswer
  <2> QED BY <1>3, <1>4, <2>3, <2>5, <2>6, <2>7
<1>5. ASSUME Cursors!Continue PROVE PagesInv'
  <2>1. PICK q : Askable(q) /\ Cursors!Start(q) /\ q.road # "rest" BY <1>5, ContinueAsks
  <2>2. /\ task' = task \/ (Tells(task', list, writes, backend) /\ task'.q = q)
        /\ Says(answer', list, writes, backend) /\ (answer' = answer \/ answer'.q = q)
    BY <1>1, <1>2, <2>1, StartTells
  <2>3. UNCHANGED <<backend, codecs, table, writes>> BY <2>1 DEF Cursors!Start
  <2>4. walk' = walk BY <1>5 DEF Cursors!Continue
  <2>5. task' = Cursors!Idle \/ Tells(task', list, writes, backend) BY <1>1, <2>2
  <2>6. walk'.on => (task' # Cursors!Idle => task'.q.road # "rest") /\ (answer'.given => answer'.q.road # "rest")
    BY <1>1, <2>1, <2>2, <2>4
  <2> QED BY <1>1, <1>3, <2>2, <2>3, <2>4, <2>5, <2>6
<1>6. ASSUME task # Cursors!Idle, Tells(task', list, writes, backend), task'.q = task.q,
             UNCHANGED <<backend, codecs, table, writes, answer, walk>>
      PROVE  PagesInv'
  BY <1>1, <1>3, <1>6
<1>7. ASSUME NEW at, Cursors!Step(at), at # "idle"
      PROVE  /\ task # Cursors!Idle /\ Tells(task, list, writes, backend)
             /\ UNCHANGED <<backend, codecs, table, writes, answer, walk>>
             /\ \A r, s : /\ [task EXCEPT !.loaded = r, !.at = s].q = task.q /\ [task EXCEPT !.offset = r, !.at = s].q = task.q
                          /\ [task EXCEPT !.total = r, !.at = s].q = task.q
             /\ \A r, s, u : [task EXCEPT !.rows = r, !.total = s, !.at = u].q = task.q
  <2>1. task # Cursors!Idle BY <1>7 DEF Cursors!Step, Cursors!Idle
  <2>2. task \in Tasks BY <1>1, <2>1 DEF Tells, Sound
  <2> QED BY <1>1, <1>7, <2>1, <2>2 DEF Cursors!Step, Tasks
<1>8. ASSUME Cursors!Load PROVE PagesInv'
  <2>1. Cursors!Step("load") BY <1>8 DEF Cursors!Load
  <2>2. Tells(task', list, writes, backend) BY <1>2, <1>7, <1>8, <2>1, LoadTells
  <2>3. task'.q = task.q BY <1>7, <1>8, <2>1 DEF Cursors!Load
  <2> QED BY <1>6, <1>7, <2>1, <2>2, <2>3
<1>9. ASSUME Cursors!CountBefore PROVE PagesInv'
  <2>1. Cursors!Step("countBefore") BY <1>9 DEF Cursors!CountBefore
  <2>2. Tells(task', list, writes, backend) BY <1>2, <1>7, <1>9, <2>1, CountBeforeTells
  <2>3. task'.q = task.q BY <1>7, <1>9, <2>1 DEF Cursors!CountBefore
  <2> QED BY <1>6, <1>7, <2>1, <2>2, <2>3
<1>10. ASSUME Cursors!CountFirst PROVE PagesInv'
  <2>1. Cursors!Step("countFirst") BY <1>10 DEF Cursors!CountFirst
  <2>2. Tells(task', list, writes, backend) BY <1>2, <1>7, <1>10, <2>1, CountFirstTells
  <2>3. task'.q = task.q BY <1>7, <1>10, <2>1 DEF Cursors!CountFirst
  <2> QED BY <1>6, <1>7, <2>1, <2>2, <2>3
<1>11. ASSUME Cursors!Find PROVE PagesInv'
  <2>1. Cursors!Step("find") BY <1>11 DEF Cursors!Find
  <2>2. Tells(task', list, writes, backend) BY <1>2, <1>7, <1>11, <2>1, FindTells
  <2>3. task'.q = task.q BY <1>7, <1>11, <2>1 DEF Cursors!Find
  <2> QED BY <1>6, <1>7, <2>1, <2>2, <2>3
<1>12. ASSUME Cursors!Window PROVE PagesInv'
  <2>1. Cursors!Step("window") BY <1>12 DEF Cursors!Window
  <2>2. Tells(task', list, writes, backend) BY <1>2, <1>7, <1>12, <2>1, WindowTells
  <2>3. task'.q = task.q BY <1>7, <1>12, <2>1 DEF Cursors!Window
  <2> QED BY <1>6, <1>7, <2>1, <2>2, <2>3
<1>13. ASSUME Cursors!CountAfter PROVE PagesInv'
  <2>1. Cursors!Step("count") BY <1>13 DEF Cursors!CountAfter
  <2>2. Tells(task', list, writes, backend) BY <1>2, <1>7, <1>13, <2>1, CountAfterTells
  <2>3. task'.q = task.q BY <1>7, <1>13, <2>1 DEF Cursors!CountAfter
  <2> QED BY <1>6, <1>7, <2>1, <2>2, <2>3
<1>14. ASSUME Cursors!Answer PROVE PagesInv'
  <2>1. task # Cursors!Idle BY <1>14 DEF Cursors!Answer, Cursors!Idle
  <2>2. Says(answer', list, writes, backend) BY <1>1, <1>2, <1>14, <2>1, AnswerSays
  <2>3. answer'.q = task.q BY <1>1, <1>2, <1>14, <2>1, AnswerSays
  <2>4. task' = Cursors!Idle /\ UNCHANGED <<backend, codecs, table, writes>> BY <1>14 DEF Cursors!Answer
  <2>5. \E seen : walk' = [walk EXCEPT !.seen = seen] BY <1>14 DEF Cursors!Answer
  <2>6. walk' = [on |-> walk'.on, seen |-> walk'.seen, began |-> walk'.began] /\ walk'.on = walk.on BY <1>1, <2>5
  <2> QED BY <1>1, <1>3, <2>1, <2>2, <2>3, <2>4, <2>6
<1>15. ASSUME Cursors!Rotate PROVE PagesInv'
  <2>1. codecs' = <<"new", "old">> /\ UNCHANGED <<backend, table, writes, task, answer, walk>> BY <1>15 DEF Cursors!Rotate
  <2>2. Head(codecs') \in {"old", "new"} BY <2>1
  <2>3. Cursors!ListOf(table)' = list BY <2>1 DEF Cursors!ListOf, Cursors!InOrder
  <2> QED BY <1>1, <2>1, <2>2, <2>3 DEF PagesInv
<1>16. ASSUME NEW row \in Rows, Cursors!OthersWrite(row) PROVE PagesInv'
  <2>1. table' \in SUBSET Rows /\ writes' = writes + 1 /\ UNCHANGED <<backend, codecs, task, answer, walk>>
    BY <1>1, <1>16 DEF Cursors!OthersWrite
  <2> SUFFICES ASSUME NEW others, others = Cursors!ListOf(table)' PROVE PagesInv' OBVIOUS
  <2>2. task = Cursors!Idle \/ Tells(task, others, writes + 1, backend) BY <1>1, WritesAge
  <2>3. Says(answer, others, writes + 1, backend) BY <1>1, WritesAge
  <2> QED BY <1>1, <2>1, <2>2, <2>3 DEF PagesInv
<1> QED
  BY <1>4, <1>5, <1>8, <1>9, <1>10, <1>11, <1>12, <1>13, <1>14, <1>15, <1>16 DEF Cursors!Next, Cursors!Resolve

\* and it says what the property says.
LEMMA PagesInvTells == PagesInv => Cursors!PageIsTrue
<1> SUFFICES ASSUME PagesInv, NEW list, list = Cursors!ListOf(table) PROVE Cursors!PageIsTrue OBVIOUS
<1>1. Says(answer, list, writes, backend) BY DEF PagesInv
<1>2. Cursors!Last(answer.edges) = answer.edges[Len(answer.edges)] BY DEF Cursors!Last
<1>3. Cursors!Range(answer.edges) = {answer.edges[k] : k \in DOMAIN answer.edges} BY DEF Cursors!Range
<1>4. Cursors!OneMoment BY <1>1, <1>2, Zenon DEF Cursors!OneMoment, Cursors!IsAnswered, Says, MomentSaid
<1>5. Cursors!PageIsTheWindow
  <2> SUFFICES ASSUME Cursors!Quiet, ~ answer.error PROVE Cursors!PageIsTheWindow BY DEF Cursors!PageIsTheWindow
  <2>1. WindowSaid(answer, list) BY <1>1 DEF Says, Still, Cursors!Quiet, Cursors!IsAnswered
  <2> QED BY <1>2, <1>3, <2>1, Zenon DEF Cursors!PageIsTheWindow, WindowSaid, RowsSaid
<1> QED BY <1>4, <1>5 DEF Cursors!PageIsTrue

SealedInv == sealed = "cursors" => PagesInv

(* By every road, with every backend and however others write: a page of   *)
(* a list that stood still has the rows asked for at their true positions, *)
(* flags that say what lies before and after it and the count of all rows, *)
(* and one of a list that moved never shows a row past the total that came *)
(* with it (connection.ts, engine/resolution.ts).                          *)
THEOREM PagesAreTrue == SealedSpec => []PageIsTrue
<1>1. SealedInit => SealedInv BY PagesInvInit DEF SealedInit, SealedInv
<1>2. SealedInv /\ [SealedNext]_sealedVars => SealedInv'
  <2> SUFFICES ASSUME SealedInv, [SealedNext]_sealedVars PROVE SealedInv' OBVIOUS
  <2>1. CASE UseCursors BY <2>1, PagesInvKept DEF UseCursors, SealedInv
  <2>2. CASE UseIds
    <3>1. sealed = "ids" /\ sealed' = sealed BY <2>2 DEF UseIds
    <3> QED BY <3>1 DEF SealedInv
  <2>3. CASE UNCHANGED sealedVars
    <3>1. UNCHANGED <<sealed, backend, codecs, table, writes, task, answer, walk>> BY <2>3 DEF sealedVars, cursorVars
    <3>2. PagesInv => PagesInv' BY <3>1 DEF PagesInv, Cursors!ListOf, Cursors!InOrder
    <3> QED BY <3>1, <3>2 DEF SealedInv
  <2> QED BY <2>1, <2>2, <2>3 DEF SealedNext
<1>3. SealedInv => PageIsTrue BY PagesInvTells DEF SealedInv, PageIsTrue
<1> QED BY <1>1, <1>2, <1>3, PTL DEF SealedSpec

-------------------------------------------------------------------------------
(* A walk: the rows it has seen are a stretch of the list. *)

Covered(s, list, lo, hi) ==
  /\ s \in Seq(Int) /\ Increasing(s)
  /\ \A i \in DOMAIN s : \E j \in lo .. hi : s[i] = list[j] /\ list[j] \notin Veiled
  /\ \A j \in lo .. hi : list[j] \notin Veiled => \E i \in DOMAIN s : s[i] = list[j]

\* Nothing is the part of an empty stretch,
LEMMA NothingCovered ==
  ASSUME NEW list, NEW lo \in Int, NEW hi \in Int, hi < lo
  PROVE  Covered(<<>>, list, lo, hi)
<1>1. <<>> \in Seq(Int) /\ DOMAIN <<>> = {} OBVIOUS
<1>2. lo .. hi = {} OBVIOUS
<1> QED BY <1>1, <1>2 DEF Covered, Increasing

\* parts of adjoining stretches are joined to the part of both,
LEMMA JoinCovers ==
  ASSUME NEW list \in Seq(Int), Increasing(list), NEW lo \in Nat, NEW mid \in Nat, NEW hi \in Nat,
         0 < lo, lo <= mid + 1, mid <= hi, hi <= Len(list),
         NEW s, NEW t, Covered(s, list, lo, mid), Covered(t, list, mid + 1, hi)
  PROVE  Covered(s \o t, list, lo, hi)
<1> DEFINE m == Len(s)  k == Len(t)
<1>1. s \in Seq(Int) /\ t \in Seq(Int) /\ m \in Nat /\ k \in Nat /\ DOMAIN s = 1 .. m /\ DOMAIN t = 1 .. k
  BY LenProperties DEF Covered
<1> SUFFICES ASSUME NEW u, u = s \o t PROVE Covered(u, list, lo, hi) OBVIOUS
<1>2. u \in Seq(Int) BY <1>1, ConcatProperties
<1>3. Len(u) = m + k BY <1>1, ConcatProperties
<1>4. \A i \in 1 .. m + k : u[i] = IF i <= m THEN s[i] ELSE t[i - m] BY <1>1, ConcatProperties
<1>5. DOMAIN u = 1 .. m + k BY <1>2, <1>3, LenProperties
<1> HIDE DEF m, k
<1>6. \A i \in 1 .. m : i \in 1 .. m + k /\ u[i] = s[i] BY <1>1, <1>4
<1>7. \A i \in 1 .. k : m + i \in 1 .. m + k /\ u[m + i] = t[i]
  <2> TAKE i \in 1 .. k
  <2> SUFFICES ASSUME NEW j, j = m + i PROVE j \in 1 .. m + k /\ u[j] = t[i] OBVIOUS
  <2>1. j \in 1 .. m + k /\ ~ (j <= m) /\ j - m = i BY <1>1
  <2>2. u[j] = t[j - m] BY <1>4, <2>1
  <2>3. u[j] = t[i] BY <2>1, <2>2
  <2> QED BY <2>1, <2>3
<1>8. \A i \in 1 .. m + k : i \in 1 .. m \/ (i - m \in 1 .. k /\ i = m + (i - m)) BY <1>1
<1>9. \A j \in lo .. hi : j \in lo .. mid \/ j \in mid + 1 .. hi OBVIOUS
<1>10. lo .. mid \subseteq lo .. hi /\ mid + 1 .. hi \subseteq lo .. hi OBVIOUS
<1>11. ASSUME NEW i \in 1 .. m + k PROVE \E j \in lo .. hi : u[i] = list[j] /\ list[j] \notin Veiled
  <2>1. CASE i \in 1 .. m
    <3>1. PICK j \in lo .. mid : s[i] = list[j] /\ list[j] \notin Veiled BY <1>1, <2>1 DEF Covered
    <3> QED BY <1>6, <1>10, <2>1, <3>1
  <2>2. CASE i - m \in 1 .. k /\ i = m + (i - m)
    <3>1. PICK j \in mid + 1 .. hi : t[i - m] = list[j] /\ list[j] \notin Veiled BY <1>1, <2>2 DEF Covered
    <3>2. u[i] = t[i - m] BY <1>7, <2>2
    <3> QED BY <1>10, <3>1, <3>2
  <2> QED BY <1>8, <2>1, <2>2
<1>12. ASSUME NEW j \in lo .. hi, list[j] \notin Veiled PROVE \E i \in 1 .. m + k : u[i] = list[j]
  <2>1. CASE j \in lo .. mid
    <3>1. PICK i \in 1 .. m : s[i] = list[j] BY <1>1, <1>12, <2>1 DEF Covered
    <3> QED BY <1>6, <3>1
  <2>2. CASE j \in mid + 1 .. hi
    <3>1. PICK i \in 1 .. k : t[i] = list[j] BY <1>1, <1>12, <2>2 DEF Covered
    <3> QED BY <1>7, <3>1
  <2> QED BY <1>9, <2>1, <2>2
<1>13. ASSUME NEW i \in 1 .. m + k, NEW j \in 1 .. m + k, i < j PROVE u[i] < u[j]
  <2>1. CASE i \in 1 .. m /\ j \in 1 .. m
    <3>1. s[i] < s[j] BY <1>1, <1>13, <2>1 DEF Covered, Increasing
    <3> QED BY <1>6, <2>1, <3>1
  <2>2. CASE i \in 1 .. m /\ j - m \in 1 .. k /\ j = m + (j - m)
    <3>1. PICK p \in lo .. mid : s[i] = list[p] BY <1>1, <2>2 DEF Covered
    <3>2. PICK q \in mid + 1 .. hi : t[j - m] = list[q] BY <1>1, <2>2 DEF Covered
    <3>3. DOMAIN list = 1 .. Len(list) /\ Len(list) \in Nat BY LenProperties
    <3>4. p \in DOMAIN list /\ q \in DOMAIN list /\ p < q BY <3>3
    <3>5. list[p] < list[q] BY <3>4 DEF Increasing
    <3>6. u[i] = s[i] /\ u[j] = t[j - m] BY <1>6, <1>7, <2>2
    <3> QED BY <3>1, <3>2, <3>5, <3>6
  <2>3. CASE i - m \in 1 .. k /\ i = m + (i - m) /\ j - m \in 1 .. k /\ j = m + (j - m)
    <3>1. i - m < j - m BY <1>1, <1>13
    <3>2. t[i - m] < t[j - m] BY <1>1, <2>3, <3>1 DEF Covered, Increasing
    <3>3. u[i] = t[i - m] /\ u[j] = t[j - m] BY <1>7, <2>3
    <3> QED BY <3>2, <3>3
  <2>4. ~ (i - m \in 1 .. k /\ j \in 1 .. m) BY <1>1, <1>13
  <2> QED BY <1>8, <2>1, <2>2, <2>3, <2>4
<1> QED BY <1>2, <1>5, <1>11, <1>12, <1>13 DEF Covered, Increasing

(* What stays out of the stretch is withheld. *)
LEMMA CoversLess ==
  ASSUME NEW list, NEW s, NEW lo, NEW hi, NEW from, NEW to, Covered(s, list, lo, hi), from .. to \subseteq lo .. hi,
         \A j \in lo .. hi : list[j] \notin Veiled => j \in from .. to
  PROVE  Covered(s, list, from, to)
BY DEF Covered

\* The part of the whole list is the list of the rows that are not withheld.
LEMMA CoversAll ==
  ASSUME NEW t \in SUBSET Rows, NEW list, list = Cursors!ListOf(t), NEW s, Covered(s, list, 1, Len(list))
  PROVE  s = Cursors!ListOf(t \ Veiled)
<1>1. Rows \subseteq Nat /\ IsFiniteSet(Rows) BY PagesAssumption
<1>2. t \in SUBSET Int BY <1>1
<1>3. IsFiniteSet(t) BY <1>1, FS_Subset
<1>4. list = Cursors!InOrder(t) BY DEF Cursors!ListOf
<1>5. DOMAIN list = 1 .. Len(list) BY <1>2, <1>3, <1>4, InOrderIs
<1>6. {list[i] : i \in DOMAIN list} = t BY <1>2, <1>3, <1>4, InOrderIs
<1>7. {s[i] : i \in DOMAIN s} = t \ Veiled
  <2>1. \A i \in DOMAIN s : s[i] \in t \ Veiled BY <1>5, <1>6 DEF Covered
  <2>2. \A x \in t \ Veiled : \E i \in DOMAIN s : s[i] = x BY <1>5, <1>6 DEF Covered
  <2> QED BY <2>1, <2>2
<1>8. s \in Seq(t \ Veiled)
  <2>1. s \in Seq(Int) BY DEF Covered
  <2>2. s \in [1 .. Len(s) -> Int] /\ Len(s) \in Nat /\ DOMAIN s = 1 .. Len(s) BY <2>1, LenProperties
  <2>3. s \in [1 .. Len(s) -> t \ Veiled] BY <1>7, <2>2
  <2> QED BY <2>2, <2>3
<1>9. s = Cursors!InOrder(t \ Veiled)
  <2> DEFINE S == t \ Veiled
  <2>1. S \in SUBSET Int /\ s \in Seq(S) /\ {s[i] : i \in DOMAIN s} = S BY <1>2, <1>7, <1>8
  <2>2. Increasing(s) BY DEF Covered
  <2> HIDE DEF S
  <2>3. s = Cursors!InOrder(S) BY <2>1, <2>2, OnlyInOrder
  <2> QED BY <2>3 DEF S
<1> QED BY <1>9 DEF Cursors!ListOf

\* The rows at the positions p: those of a stretch that are not withheld.
Picked(new, e, p, list, lo, hi) ==
  /\ p \in [1 .. e -> lo .. hi] /\ Increasing(p)
  /\ \A k \in 1 .. e : list[p[k]] \notin Veiled
  /\ \A j \in lo .. hi : list[j] \notin Veiled => \E k \in 1 .. e : p[k] = j
  /\ new \in [1 .. e -> Int] /\ \A k \in 1 .. e : new[k] = list[p[k]]

\* Rows picked so are the part of the stretch, and it may end at the last of them or begin at the first.
LEMMA StretchCovered ==
  ASSUME NEW list \in Seq(Int), Increasing(list), NEW lo \in Nat, NEW hi \in Nat, 0 < lo, hi <= Len(list),
         NEW e \in Nat, NEW p, NEW new, Picked(new, e, p, list, lo, hi)
  PROVE  /\ Covered(new, list, lo, hi)
         /\ e > 0 => Covered(new, list, lo, p[e]) /\ Covered(new, list, p[1], hi)
<1> USE DEF Picked
<1>1. DOMAIN list = 1 .. Len(list) /\ Len(list) \in Nat BY LenProperties
<1>2. \A k, l \in 1 .. e : k < l => p[k] < p[l] BY DEF Increasing
<1>3. \A k \in 1 .. e : p[k] \in lo .. hi /\ p[k] \in Int OBVIOUS
<1>4. Increasing(new)
  <2> SUFFICES ASSUME NEW k \in 1 .. e, NEW l \in 1 .. e, k < l PROVE new[k] < new[l] BY DEF Increasing
  <2>1. p[k] \in lo .. hi /\ p[l] \in lo .. hi /\ p[k] < p[l] BY <1>2, <1>3
  <2>2. lo .. hi \subseteq 1 .. Len(list)
    <3>1. 1 <= lo /\ hi <= Len(list) /\ Len(list) \in Nat BY <1>1
    <3> QED BY <3>1
  <2>3. p[k] \in DOMAIN list /\ p[l] \in DOMAIN list BY <1>1, <2>1, <2>2
  <2>4. list[p[k]] < list[p[l]] BY <2>1, <2>3 DEF Increasing
  <2> QED BY <2>4
<1>5. new \in Seq(Int) /\ DOMAIN new = 1 .. e OBVIOUS
<1>6. Covered(new, list, lo, hi)
  <2>1. \A k \in 1 .. e : \E j \in lo .. hi : new[k] = list[j] /\ list[j] \notin Veiled BY <1>3
  <2>2. \A j \in lo .. hi : list[j] \notin Veiled => \E k \in 1 .. e : new[k] = list[j]
    <3> SUFFICES ASSUME NEW j \in lo .. hi, list[j] \notin Veiled PROVE \E k \in 1 .. e : new[k] = list[j] OBVIOUS
    <3>1. PICK k \in 1 .. e : p[k] = j OBVIOUS
    <3> QED BY <3>1
  <2> QED BY <1>4, <1>5, <2>1, <2>2 DEF Covered
<1>8. \A x, y \in Int : x < y \/ x = y => x <= y OBVIOUS
<1>7. ASSUME e > 0 PROVE Covered(new, list, lo, p[e]) /\ Covered(new, list, p[1], hi)
  <2>1. 1 \in 1 .. e /\ e \in 1 .. e BY <1>7
  <2>2. p[1] \in lo .. hi /\ p[e] \in lo .. hi BY <1>3, <2>1
  <2>3. \A j \in lo .. hi : list[j] \notin Veiled => p[1] <= j /\ j <= p[e]
    <3> SUFFICES ASSUME NEW j \in lo .. hi, list[j] \notin Veiled PROVE p[1] <= j /\ j <= p[e] OBVIOUS
    <3>1. PICK k \in 1 .. e : p[k] = j OBVIOUS
    <3>2. (1 < k => p[1] < p[k]) /\ (k < e => p[k] < p[e]) BY <1>2, <2>1
    <3>3. (1 < k \/ k = 1) /\ (k < e \/ k = e) OBVIOUS
    <3>4. p[1] \in Int /\ p[e] \in Int /\ p[k] \in Int BY <1>3, <2>1
    <3>5. p[1] <= p[k] /\ p[k] <= p[e] BY <1>8, <3>2, <3>3, <3>4, Zenon
    <3> QED BY <3>1, <3>5
  <2>4. ASSUME NEW a \in lo .. hi, NEW b \in lo .. hi, \A j \in lo .. hi : list[j] \notin Veiled => a <= j /\ j <= b
        PROVE  Covered(new, list, lo, b) /\ Covered(new, list, a, hi)
    <3>1. lo .. b \subseteq lo .. hi /\ a .. hi \subseteq lo .. hi OBVIOUS
    <3>2. \A j \in lo .. hi : list[j] \notin Veiled => j \in lo .. b /\ j \in a .. hi BY <2>4
    <3>3. Covered(new, list, lo, b) BY <1>6, <3>1, <3>2, CoversLess
    <3>4. Covered(new, list, a, hi) BY <1>6, <3>1, <3>2, CoversLess
    <3> QED BY <3>3, <3>4
  <2> QED BY <2>2, <2>3, <2>4
<1> QED BY <1>6, <1>7

(* The rows of a page, as the client keeps them. *)
Cut(rows, list, from) == from + Len(rows) <= Len(list) /\ \A i \in 1 .. Len(rows) : rows[i] = list[from + i]
RowsOf(edges) == [k \in DOMAIN edges |-> edges[k].row]

\* A page's rows are the part of where it lies.
LEMMA PageCovers ==
  ASSUME NEW list \in Seq(Int), Increasing(list), NEW rows \in Seq(Int), NEW from \in Nat, Cut(rows, list, from),
         Head(codecs) \in {"old", "new"},
         NEW edges, edges = Cursors!Positioned(rows, from), NEW new, new = RowsOf(edges)
  PROVE  /\ Covered(new, list, from + 1, from + Len(rows))
         /\ edges # <<>> => /\ edges[Len(edges)].index + 1 \in from + 1 .. from + Len(rows)
                            /\ edges[1].index + 1 \in from + 1 .. from + Len(rows)
                            /\ Covered(new, list, from + 1, edges[Len(edges)].index + 1)
                            /\ Covered(new, list, edges[1].index + 1, from + Len(rows))
<1> SUFFICES ASSUME NEW shown, shown = Cursors!InOrder(Unveiled(rows)), NEW m, m = Len(rows), NEW e, e = Len(edges)
             PROVE  /\ Covered(new, list, from + 1, from + m)
                    /\ edges # <<>> => /\ edges[e].index + 1 \in from + 1 .. from + m
                                       /\ edges[1].index + 1 \in from + 1 .. from + m
                                       /\ Covered(new, list, from + 1, edges[e].index + 1)
                                       /\ Covered(new, list, edges[1].index + 1, from + m)
  OBVIOUS
<1>1. m \in Nat /\ DOMAIN rows = 1 .. m /\ Len(list) \in Nat BY LenProperties
<1>2. edges \in Seq(Edges) BY PositionedIs
<1>3. e \in Nat /\ DOMAIN edges = 1 .. e BY <1>2, LenProperties
<1>4. DOMAIN shown = 1 .. e
  <2>1. DOMAIN shown = DOMAIN edges BY PositionedIs
  <2> QED BY <1>3, <2>1
<1>5. {shown[k] : k \in 1 .. e} = Unveiled(rows)
  <2>1. {shown[k] : k \in DOMAIN shown} = Unveiled(rows) BY PositionedIs
  <2> QED BY <1>4, <2>1
<1>6. \A k, l \in 1 .. e : k < l => shown[k] < shown[l]
  <2>1. Increasing(shown) BY PositionedIs
  <2> QED BY <1>4, <2>1 DEF Increasing
<1>7. ASSUME NEW k \in DOMAIN edges
      PROVE  edges[k].row = rows[shown[k]] /\ edges[k].index = from + shown[k] - 1 /\ shown[k] \in DOMAIN rows
  <2>1. edges[k].row = rows[shown[k]] BY EdgesAre
  <2>2. edges[k].index = from + shown[k] - 1 BY EdgesAre
  <2>3. shown[k] \in DOMAIN rows BY EdgesAre
  <2> QED BY <2>1, <2>2, <2>3
<1> DEFINE p == [k \in 1 .. e |-> from + shown[k]]
           lo == from + 1
           hi == from + m
<1>8. \A k \in 1 .. e : shown[k] \in 1 .. m BY <1>1, <1>3, <1>7
<1>9. p \in [1 .. e -> lo .. hi]
  <2>1. ASSUME NEW i \in 1 .. m PROVE from + i \in lo .. hi BY <1>1
  <2> HIDE DEF lo, hi
  <2>2. \A k \in 1 .. e : from + shown[k] \in lo .. hi BY <1>8, <2>1
  <2> QED BY <2>2
<1>10. Increasing(p)
  <2> SUFFICES ASSUME NEW k \in 1 .. e, NEW l \in 1 .. e, k < l PROVE from + shown[k] < from + shown[l]
    BY DEF Increasing
  <2>1. shown[k] < shown[l] /\ shown[k] \in Int /\ shown[l] \in Int BY <1>6, <1>8
  <2> QED BY <2>1
<1>11. \A i \in 1 .. m : rows[i] = list[from + i] BY DEF Cut
<1>12. ASSUME NEW k \in 1 .. e
       PROVE  list[p[k]] \notin Veiled /\ edges[k].row = list[p[k]] /\ edges[k].index + 1 = p[k]
  <2>1. shown[k] \in Unveiled(rows) /\ shown[k] \in 1 .. m BY <1>5, <1>8
  <2>2. rows[shown[k]] = list[from + shown[k]] BY <1>11, <2>1
  <2>3. rows[shown[k]] \notin Veiled BY <2>1 DEF Unveiled
  <2>4. edges[k].row = rows[shown[k]] /\ edges[k].index = from + shown[k] - 1 BY <1>3, <1>7
  <2>5. \A i \in 1 .. m : from + i - 1 + 1 = from + i BY <1>1
  <2>6. edges[k].index + 1 = from + shown[k] BY <2>1, <2>4, <2>5
  <2> QED BY <2>2, <2>3, <2>4, <2>6
<1>13. ASSUME NEW j \in lo .. hi, list[j] \notin Veiled PROVE \E k \in 1 .. e : p[k] = j
  <2>1. j - from \in 1 .. m /\ from + (j - from) = j BY <1>1
  <2>2. rows[j - from] \notin Veiled BY <1>11, <1>13, <2>1
  <2>3. j - from \in Unveiled(rows) BY <1>1, <2>1, <2>2 DEF Unveiled
  <2>4. PICK k \in 1 .. e : shown[k] = j - from BY <1>5, <2>3
  <2>5. from + shown[k] = j BY <2>1, <2>4
  <2> QED BY <2>5
<1>14. new \in [1 .. e -> Int] /\ \A k \in 1 .. e : new[k] = list[p[k]]
  <2>1. new = [k \in 1 .. e |-> edges[k].row] BY <1>3 DEF RowsOf
  <2>2. \A k \in 1 .. e : edges[k] \in Edges BY <1>2, <1>3
  <2>3. \A k \in 1 .. e : edges[k].row \in Int BY <2>2 DEF Edges
  <2> HIDE DEF p
  <2> QED BY <1>12, <2>1, <2>3
<1>15. lo \in Nat /\ hi \in Nat /\ 0 < lo /\ hi <= Len(list) BY <1>1 DEF Cut
<1>16. edges # <<>> => e > 0 BY <1>2, <1>3, EmptySeq
<1>17. e > 0 => 1 \in 1 .. e /\ e \in 1 .. e BY <1>3
<1> HIDE DEF p, lo, hi
<1>18. Picked(new, e, p, list, lo, hi) BY <1>9, <1>10, <1>12, <1>13, <1>14 DEF Picked
<1>19. Covered(new, list, lo, hi) /\ (e > 0 => Covered(new, list, lo, p[e]) /\ Covered(new, list, p[1], hi))
  BY <1>3, <1>15, <1>18, StretchCovered
<1>20. e > 0 => p[e] \in lo .. hi /\ p[1] \in lo .. hi BY <1>9, <1>17
<1>21. e > 0 => edges[e].index + 1 = p[e] /\ edges[1].index + 1 = p[1] BY <1>12, <1>17
<1> QED BY <1>16, <1>19, <1>20, <1>21 DEF lo, hi

-------------------------------------------------------------------------------
(* Where a walk is: what the page that is asked for goes on from, and what *)
(* the page that was answered has come to.                                 *)

Bound(a, n) == IF a.before = Cursors!None THEN n ELSE a.before
Reaching(a, seen, list, n) ==
  IF a.last = Cursors!None
  THEN a.before = Cursors!None /\ From(a, n) <= n /\ Covered(seen, list, 1, From(a, n))
  ELSE a.after = Cursors!None /\ (a.before # Cursors!None => a.before \in 1 .. n) /\ Covered(seen, list, Bound(a, n) + 1, n)
ComeForth(edges, found, seen, list, n) ==
  IF edges = <<>> THEN found \/ Covered(seen, list, 1, n)
  ELSE edges[Len(edges)].index + 1 \in 1 .. n /\ Covered(seen, list, 1, edges[Len(edges)].index + 1)
ComeBack(edges, found, seen, list, n) ==
  IF edges = <<>> THEN found \/ Covered(seen, list, 1, n)
  ELSE edges[1].index + 1 \in 1 .. n /\ Covered(seen, list, edges[1].index + 1, n)
Reached(s, seen, list) ==
  IF s.q.last = Cursors!None THEN ComeForth(s.edges, s.found, seen, list, Len(list))
  ELSE ComeBack(s.edges, s.found, seen, list, Len(list))

\* A query cuts a stretch from the list.
LEMMA SliceIsCut ==
  ASSUME NEW list \in Seq(Int), NEW from \in Nat, NEW upto \in Nat, NEW rows, rows = Cursors!Slice(list, from, upto)
  PROVE  from + Len(rows) <= Len(list) => Cut(rows, list, from)
<1> SUFFICES ASSUME from + Len(rows) <= Len(list) PROVE Cut(rows, list, from) OBVIOUS
<1>1. ASSUME NEW i \in 1 .. Len(rows) PROVE rows[i] = list[from + i] BY SliceRow
<1> QED BY <1>1 DEF Cut

\* The page a walk asks for adjoins what the client has seen.
LEMMA WalkPage ==
  ASSUME NEW list \in Seq(Int), NEW a, NEW q, Fits(a, q), NEW n, n = Len(list), NEW seen, Reaching(a, seen, list, n),
         NEW from, from = From(a, n), NEW rows, rows = Page(list, a), NEW m, m = Len(rows)
  PROVE  /\ from \in Nat /\ n \in Nat /\ m \in Nat /\ rows \in Seq(Int) /\ Cut(rows, list, from)
         /\ a.last = Cursors!None => Covered(seen, list, 1, from) /\ (m = 0 => from = n)
         /\ a.last # Cursors!None => Covered(seen, list, from + m + 1, n) /\ (m = 0 => from = 0 /\ n = 0)
<1> SUFFICES ASSUME NEW upto, upto = Upto(a), NEW size, size = Cursors!SizeOf(a)
             PROVE  /\ from \in Nat /\ n \in Nat /\ m \in Nat /\ rows \in Seq(Int) /\ Cut(rows, list, from)
                    /\ a.last = Cursors!None => Covered(seen, list, 1, from) /\ (m = 0 => from = n)
                    /\ a.last # Cursors!None => Covered(seen, list, from + m + 1, n) /\ (m = 0 => from = 0 /\ n = 0)
  OBVIOUS
<1>1. n \in Nat /\ from \in Nat /\ upto \in Nat /\ rows \in Seq(Int) BY PageIs, LenProperties
<1>2. size \in Nat /\ size > 0
  <2>1. a \in Args BY DEF Fits
  <2> QED BY <2>1, SizeIs, PagesAssumption
<1>3. rows = Cursors!Slice(list, from, upto) BY DEF Page
<1>4. m = IF from + upto <= n THEN upto ELSE IF from <= n THEN n - from ELSE 0 BY <1>1, <1>3, SliceIs
<1>5. from + m <= n => Cut(rows, list, from) BY <1>1, <1>3, SliceIsCut
<1>6. a.before # Cursors!None => a.before \in Nat BY DEF Fits
<1>7. CASE a.last = Cursors!None
  <2>1. from <= n /\ upto = size /\ Covered(seen, list, 1, from) BY <1>7 DEF Reaching, Upto
  <2>2. from + m <= n /\ m \in Nat /\ (m = 0 => from = n) BY <1>1, <1>2, <1>4, <2>1
  <2> QED BY <1>1, <1>5, <1>7, <2>1, <2>2 
<1>8. CASE a.last # Cursors!None
  <2> DEFINE b == Bound(a, n)
  <2>1. a.after = Cursors!None /\ (a.before # Cursors!None => a.before \in 1 .. n) /\ Covered(seen, list, b + 1, n)
    BY <1>8 DEF Reaching
  <2>2. b \in Nat /\ b <= n /\ from = (IF b <= size THEN 0 ELSE b - size)
    BY <1>1, <1>2, <1>6, <1>8, <2>1 DEF Bound, From, Cursors!Greatest
  <2>3. upto = (IF a.before = Cursors!None \/ size <= b THEN size ELSE b) /\ (a.before = Cursors!None => b = n)
        /\ (a.before # Cursors!None => b > 0)
    BY <1>1, <1>2, <2>1 DEF Bound, Upto, Cursors!Least
  <2> HIDE DEF b
  <2>4. from + m = b /\ m \in Nat /\ (m = 0 => b = 0) /\ (b = 0 => n = 0)
    BY <1>1, <1>2, <1>4, <2>2, <2>3
  <2>5. m = 0 => from = 0 /\ n = 0 BY <1>1, <2>4
  <2>6. from + m <= n BY <2>2, <2>4
  <2> QED BY <1>1, <1>5, <1>8, <2>1, <2>4, <2>5, <2>6
<1> QED BY <1>7, <1>8

\* The client adds the page to what it has seen, on the side it goes on to.
LEMMA PageComes ==
  ASSUME NEW list \in Seq(Int), Increasing(list), NEW rows \in Seq(Int), NEW from \in Nat, Cut(rows, list, from),
         Head(codecs) \in {"old", "new"}, NEW edges, edges = Cursors!Positioned(rows, from),
         NEW new, new = RowsOf(edges), NEW seen, NEW n, n = Len(list), NEW m, m = Len(rows), NEW found, m = 0 \/ found
  PROVE  /\ Covered(seen, list, 1, from) /\ (m = 0 => from = n) => ComeForth(edges, found, seen \o new, list, n)
         /\ Covered(seen, list, from + m + 1, n) /\ (m = 0 => from = 0 /\ n = 0) => ComeBack(edges, found, new \o seen, list, n)
<1> SUFFICES ASSUME NEW e, e = Len(edges)
             PROVE  /\ Covered(seen, list, 1, from) /\ (m = 0 => from = n) => ComeForth(edges, found, seen \o new, list, n)
                    /\ Covered(seen, list, from + m + 1, n) /\ (m = 0 => from = 0 /\ n = 0)
                         => ComeBack(edges, found, new \o seen, list, n)
  OBVIOUS
<1>1. n \in Nat /\ m \in Nat /\ from + m <= n BY LenProperties DEF Cut
<1>2. Covered(new, list, from + 1, from + m) BY PageCovers
<1>3. edges # <<>> => /\ edges[e].index + 1 \in from + 1 .. from + m /\ edges[1].index + 1 \in from + 1 .. from + m
                      /\ Covered(new, list, from + 1, edges[e].index + 1) /\ Covered(new, list, edges[1].index + 1, from + m)
  BY PageCovers
<1> DEFINE to == from + m
<1>7. \A i \in from + 1 .. to : i \in Nat /\ 0 < i /\ from <= i /\ i <= to /\ i <= to + 1 /\ i <= n /\ i \in 1 .. n
  <2>1. to \in Nat /\ to <= n BY <1>1
  <2> HIDE DEF to
  <2> QED BY <1>1, <2>1
<1>5. ASSUME Covered(seen, list, 1, from), m = 0 => from = n PROVE ComeForth(edges, found, seen \o new, list, n)
  <2>1. ASSUME NEW hi \in Nat, from <= hi, hi <= n, Covered(new, list, from + 1, hi)
        PROVE  Covered(seen \o new, list, 1, hi)
    BY <1>5, <2>1, JoinCovers
  <2>2. CASE edges = <<>>
    <3>1. m = 0 => Covered(seen \o new, list, 1, n)
      <4> SUFFICES ASSUME m = 0 PROVE Covered(seen \o new, list, 1, n) OBVIOUS
      <4>1. from + m = n BY <1>1, <1>5
      <4>2. Covered(new, list, from + 1, n) BY <1>2, <4>1
      <4> QED BY <1>1, <2>1, <4>1, <4>2
    <3> QED BY <2>2, <3>1 DEF ComeForth
  <2>3. CASE edges # <<>>
    <3> SUFFICES ASSUME NEW hi, hi = edges[e].index + 1 PROVE hi \in 1 .. n /\ Covered(seen \o new, list, 1, hi)
      BY <2>3 DEF ComeForth
    <3>1. hi \in from + 1 .. from + m /\ Covered(new, list, from + 1, hi) BY <1>3, <2>3
    <3>2. hi \in Nat /\ from <= hi /\ hi <= n /\ hi \in 1 .. n BY <1>7, <3>1
    <3> QED BY <2>1, <3>1, <3>2
  <2> QED BY <2>2, <2>3
<1>6. ASSUME Covered(seen, list, from + m + 1, n), m = 0 => from = 0 /\ n = 0 PROVE ComeBack(edges, found, new \o seen, list, n)
  <2>1. ASSUME NEW lo \in Nat, 0 < lo, lo <= from + m + 1, Covered(new, list, lo, from + m)
        PROVE  Covered(new \o seen, list, lo, n)
    <3> SUFFICES ASSUME NEW mid, mid = from + m PROVE Covered(new \o seen, list, lo, n) OBVIOUS
    <3>1. mid \in Nat /\ mid <= n /\ lo <= mid + 1 /\ Covered(new, list, lo, mid) /\ Covered(seen, list, mid + 1, n)
      BY <1>1, <1>6, <2>1
    <3> HIDE DEF to
    <3>2. n = Len(list) /\ n \in Nat /\ n <= Len(list) BY <1>1
    <3> QED BY <2>1, <3>1, <3>2, JoinCovers
  <2>2. CASE edges = <<>>
    <3>1. m = 0 => Covered(new \o seen, list, 1, n)
      <4> SUFFICES ASSUME m = 0 PROVE Covered(new \o seen, list, 1, n) OBVIOUS
      <4>1. from + 1 = 1 BY <1>6
      <4>2. Covered(new, list, 1, from + m) BY <1>2, <4>1
      <4> QED BY <1>1, <2>1, <4>2
    <3> QED BY <2>2, <3>1 DEF ComeBack
  <2>3. CASE edges # <<>>
    <3> SUFFICES ASSUME NEW lo, lo = edges[1].index + 1 PROVE lo \in 1 .. n /\ Covered(new \o seen, list, lo, n)
      BY <2>3 DEF ComeBack
    <3>1. lo \in from + 1 .. from + m /\ Covered(new, list, lo, from + m) BY <1>3, <2>3
    <3>2. lo \in Nat /\ 0 < lo /\ lo <= from + m + 1 /\ lo \in 1 .. n BY <1>7, <3>1
    <3> QED BY <2>1, <3>1, <3>2
  <2> QED BY <2>2, <2>3
<1> QED BY <1>5, <1>6

\* Forwards,
LEMMA PageComesForth ==
  ASSUME NEW list \in Seq(Int), Increasing(list), NEW rows \in Seq(Int), NEW from \in Nat, Cut(rows, list, from),
         Head(codecs) \in {"old", "new"}, NEW edges, edges = Cursors!Positioned(rows, from),
         NEW new, new = RowsOf(edges), NEW seen, NEW n, n = Len(list), NEW m, m = Len(rows), NEW found, m = 0 \/ found,
         Covered(seen, list, 1, from), m = 0 => from = n
  PROVE  ComeForth(edges, found, seen \o new, list, n)
BY PageComes

\* and backwards.
LEMMA PageComesBack ==
  ASSUME NEW list \in Seq(Int), Increasing(list), NEW rows \in Seq(Int), NEW from \in Nat, Cut(rows, list, from),
         Head(codecs) \in {"old", "new"}, NEW edges, edges = Cursors!Positioned(rows, from),
         NEW new, new = RowsOf(edges), NEW seen, NEW n, n = Len(list), NEW m, m = Len(rows), NEW found, m = 0 \/ found,
         Covered(seen, list, from + m + 1, n), m = 0 => from = 0 /\ n = 0
  PROVE  ComeBack(edges, found, new \o seen, list, n)
BY PageComes

\* So an answer takes the walk where it says.
LEMMA AnswerComes ==
  ASSUME NEW list \in Seq(Int), Increasing(list), Head(codecs) \in {"old", "new"}, Cursors!Answer, NEW w, NEW b,
         NEW t, t = task, Sound(t, w), AtAnswer(t, list, w, b), Still(t, w), ~ t.q.countOnly, t.q.road # "rest",
         NEW seen, seen = walk.seen,
         walk = [on |-> walk.on, seen |-> walk.seen, began |-> walk.began], Reaching(t.args, seen, list, Len(list))
  PROVE  Reached(answer', walk'.seen, list)
<1> SUFFICES ASSUME NEW n, n = Len(list), NEW a, a = t.args, NEW q, q = t.q, NEW rows, rows = t.rows, NEW m, m = Len(rows),
                    NEW from, from = From(a, n), NEW edges, edges = Cursors!Positioned(rows, Cursors!PageOffset(a, t.total)),
                    NEW new, new = RowsOf(edges), NEW s, s = answer', NEW now, now = walk'.seen,
                    NEW forward \in BOOLEAN, forward = (q.last = Cursors!None), NEW found, found = (rows # <<>>)
             PROVE  Reached(s, now, list)
  OBVIOUS
<1>1. t.at = "answer" /\ Fits(a, q) /\ Reaching(a, seen, list, n) BY DEF Cursors!Answer, Sound
<1>2. a.last = q.last BY <1>1 DEF Fits, Cursors!AskedOf
<1>3. s.edges = edges /\ s.found = found /\ s.q = q BY DEF Cursors!Answer, Cursors!Answered
<1>4. now = IF forward THEN seen \o new ELSE new \o seen
  <2>1. [i \in DOMAIN edges |-> edges[i].row] = new BY DEF RowsOf
  <2>2. walk' = [walk EXCEPT !.seen = IF q.road # "rest" /\ q.last # Cursors!None THEN new \o @ ELSE @ \o new]
    BY <2>1 DEF Cursors!Answer
  <2>3. walk'.seen = IF q.road # "rest" /\ q.last # Cursors!None THEN new \o walk.seen ELSE walk.seen \o new
    BY <2>2
  <2> QED BY <2>3
<1>5. rows = Page(list, a) /\ edges = Cursors!Positioned(rows, from)
  <2>1. t.rows = Page(list, t.args) BY <1>1, PlacedTruly
  <2>2. Cursors!Positioned(t.rows, Cursors!PageOffset(t.args, t.total)) = Cursors!Positioned(t.rows, From(t.args, Len(list)))
    BY <1>1, PlacedTruly
  <2> QED BY <2>1, <2>2
<1>6. /\ from \in Nat /\ rows \in Seq(Int) /\ Cut(rows, list, from)
      /\ a.last = Cursors!None => Covered(seen, list, 1, from) /\ (m = 0 => from = n)
      /\ a.last # Cursors!None => Covered(seen, list, from + m + 1, n) /\ (m = 0 => from = 0 /\ n = 0)
  BY <1>1, <1>5, WalkPage
<1>9. m = 0 \/ found BY <1>6, EmptySeq
<1>7. CASE forward
  <2>1. Covered(seen, list, 1, from) /\ (m = 0 => from = n) BY <1>2, <1>6, <1>7
  <2>2. from \in Nat /\ rows \in Seq(Int) /\ Cut(rows, list, from) /\ edges = Cursors!Positioned(rows, from) BY <1>5, <1>6
  <2>3. ComeForth(edges, found, seen \o new, list, n) BY <1>9, <2>1, <2>2, PageComesForth
  <2>4. (s.q.last = Cursors!None) = TRUE BY <1>3, <1>7
  <2> QED BY <1>3, <1>4, <1>7, <2>3, <2>4 DEF Reached
<1>8. CASE ~ forward
  <2>1. Covered(seen, list, from + m + 1, n) /\ (m = 0 => from = 0 /\ n = 0) BY <1>2, <1>6, <1>8
  <2>2. from \in Nat /\ rows \in Seq(Int) /\ Cut(rows, list, from) /\ edges = Cursors!Positioned(rows, from) BY <1>5, <1>6
  <2>3. ComeBack(edges, found, new \o seen, list, n) BY <1>9, <2>1, <2>2, PageComesBack
  <2>4. (s.q.last = Cursors!None) = FALSE BY <1>3, <1>8
  <2> QED BY <1>3, <1>4, <1>8, <2>3, <2>4 DEF Reached
<1> QED BY <1>7, <1>8

-------------------------------------------------------------------------------
(* The invariant of a walk: nothing is asked of the client's rows once     *)
(* somebody has written, and until then they are what lies behind it.      *)

WalkInv ==
  walk.on =>
    /\ walk.began \in Nat /\ walk.began <= writes
    /\ task # Cursors!Idle =>
         /\ walk.began <= task.began /\ ~ task.q.countOnly
         /\ walk.began = writes => Reaching(task.args, walk.seen, Cursors!ListOf(table), Len(Cursors!ListOf(table)))
    /\ answer.given /\ ~ answer.error =>
         /\ walk.began <= answer.began /\ ~ answer.q.countOnly
         /\ walk.began = writes /\ task = Cursors!Idle => Reached(answer, walk.seen, Cursors!ListOf(table))

\* The list is in order.
LEMMA ListRises == ASSUME NEW t \in SUBSET Rows PROVE Increasing(Cursors!ListOf(t))
<1>1. Rows \subseteq Nat /\ IsFiniteSet(Rows) BY PagesAssumption
<1>2. t \in SUBSET Int BY <1>1
<1>3. IsFiniteSet(t) BY <1>1, FS_Subset
<1> SUFFICES ASSUME NEW s, s = Cursors!InOrder(t) PROVE Increasing(s) BY DEF Cursors!ListOf
<1> QED BY <1>2, <1>3, InOrderIs

\* A walk that has nothing to go on to has come to the end of the list.
LEMMA WalkEndsWhole ==
  ASSUME PagesInv, WalkInv, Cursors!WalkIsOver, walk.began = writes
  PROVE  (answer.found /\ answer.edges = <<>>) \/ walk.seen = Cursors!ListOf(table \ Veiled)
<1> SUFFICES ASSUME NEW list, list = Cursors!ListOf(table), NEW n, n = Len(list), NEW s, s = answer
             PROVE  (s.found /\ s.edges = <<>>) \/ walk.seen = Cursors!ListOf(table \ Veiled)
  OBVIOUS
<1>1. /\ walk.on /\ s.given /\ ~ s.error /\ task = Cursors!Idle
      /\ ~ (IF s.q.last = Cursors!None THEN s.hasNextPage ELSE s.hasPreviousPage)
  BY DEF Cursors!WalkIsOver, Cursors!IsAnswered
<1>2. /\ s.began \in Nat /\ s.began <= writes /\ Positions(s) /\ (Still(s, writes) => WindowSaid(s, list)) /\ table \in SUBSET Rows
      /\ writes \in Nat
  BY <1>1 DEF PagesInv, Says
<1>3. Still(s, writes) BY <1>1, <1>2 DEF WalkInv, Still
<1>4. Reached(s, walk.seen, list) BY <1>1 DEF WalkInv
<1>5. list \in Seq(Int) /\ n \in Nat BY <1>2, ListIs, LenProperties
<1>6. WindowSaid(s, list) BY <1>2, <1>3
<1>7. Covered(walk.seen, list, 1, n) => walk.seen = Cursors!ListOf(table \ Veiled) BY <1>2, CoversAll
<1>8. CASE s.edges = <<>> BY <1>4, <1>7, <1>8 DEF Reached, ComeForth, ComeBack
<1>9. CASE s.edges # <<>>
  <2>1. s.edges \in Seq(Edges) /\ s.hasPreviousPage = (s.edges[1].index > 0) BY <1>2, <1>9 DEF Positions
  <2>2. s.hasNextPage = \E i \in 0 .. Len(list) - 1 : i > s.edges[Len(s.edges)].index BY <1>6, <1>9, Zenon DEF WindowSaid
  <2>3. CASE s.q.last = Cursors!None
    <3> SUFFICES ASSUME NEW end, end = s.edges[Len(s.edges)].index PROVE Covered(walk.seen, list, 1, n) BY <1>7
    <3>1. end + 1 \in 1 .. n /\ Covered(walk.seen, list, 1, end + 1) BY <1>4, <1>9, <2>3 DEF Reached, ComeForth
    <3>2. ~ \E i \in 0 .. n - 1 : i > end BY <1>1, <2>2, <2>3, Zenon
    <3>3. end \in Int
      <4>1. DOMAIN s.edges = 1 .. Len(s.edges) /\ Len(s.edges) \in Nat /\ Len(s.edges) > 0 BY <1>9, <2>1, LenProperties, EmptySeq
      <4>2. s.edges[Len(s.edges)] \in Edges BY <2>1, <4>1
      <4> QED BY <4>2 DEF Edges
    <3>4. end + 1 = n
      <4>1. n - 1 \in 0 .. n - 1 BY <1>5, <3>1
      <4>2. ~ (n - 1 > end) BY <3>2, <4>1
      <4> QED BY <1>5, <3>1, <3>3, <4>2
    <3> QED BY <3>1, <3>4
  <2>4. CASE s.q.last # Cursors!None
    <3> SUFFICES ASSUME NEW first, first = s.edges[1].index PROVE Covered(walk.seen, list, 1, n) BY <1>7
    <3>1. first + 1 \in 1 .. n /\ Covered(walk.seen, list, first + 1, n) BY <1>4, <1>9, <2>4 DEF Reached, ComeBack
    <3>2. ~ (first > 0) BY <1>1, <2>1, <2>4, Zenon
    <3>3. first \in Nat
      <4>1. 1 \in DOMAIN s.edges
        <5>1. DOMAIN s.edges = 1 .. Len(s.edges) /\ Len(s.edges) \in Nat /\ Len(s.edges) > 0
          BY <1>9, <2>1, LenProperties, EmptySeq
        <5> QED BY <5>1
      <4> QED BY <1>2, <4>1 DEF Positions
    <3>4. first + 1 = 1 BY <3>2, <3>3
    <3> QED BY <3>1, <3>4
  <2> QED BY <2>3, <2>4
<1> QED BY <1>8, <1>9

(* A query of the page leaves the walk where it is. *)
LEMMA QueriesKeepWalk ==
  ASSUME PagesInv, WalkInv,
         \/ Cursors!Load \/ Cursors!CountBefore \/ Cursors!CountFirst
         \/ Cursors!Find \/ Cursors!Window \/ Cursors!CountAfter
  PROVE  WalkInv'
<1> DEFINE Moved == /\ task # Cursors!Idle /\ task' # Cursors!Idle
                    /\ task'.q = task.q /\ task'.args = task.args /\ task'.began = task.began
                    /\ UNCHANGED <<table, writes, answer, walk>>
<1>1. ASSUME NEW at, Cursors!Step(at), at # "idle"
      PROVE  /\ task # Cursors!Idle /\ task \in Tasks /\ UNCHANGED <<table, writes, answer, walk>>
  <2>1. task # Cursors!Idle BY <1>1 DEF Cursors!Step, Cursors!Idle
  <2> QED BY <1>1, <2>1 DEF Cursors!Step, PagesInv, Tells, Sound
<1>2. ASSUME NEW t, t.at # "idle" PROVE t # Cursors!Idle BY <1>2 DEF Cursors!Idle
<1>3. ASSUME Cursors!Load PROVE Moved
  <2>1. Cursors!Step("load") BY <1>3 DEF Cursors!Load
  <2>2. task \in Tasks BY <1>1, <2>1
  <2>3. \E r : \E s \in {"countBefore", "window"} : task' = [task EXCEPT !.loaded = r, !.at = s] BY <1>3, Zenon DEF Cursors!Load
  <2>4. task'.at # "idle" /\ task'.q = task.q /\ task'.args = task.args /\ task'.began = task.began
    BY <2>2, <2>3 DEF Tasks
  <2> QED BY <1>1, <1>2, <2>1, <2>4
<1>4. ASSUME Cursors!CountBefore PROVE Moved
  <2>1. Cursors!Step("countBefore") BY <1>4 DEF Cursors!CountBefore
  <2>2. task \in Tasks BY <1>1, <2>1
  <2>3. \E r : \E s \in {"window", "count", "countFirst", "find"} : task' = [task EXCEPT !.offset = r, !.at = s] BY <1>4, Zenon DEF Cursors!CountBefore
  <2>4. task'.at # "idle" /\ task'.q = task.q /\ task'.args = task.args /\ task'.began = task.began
    BY <2>2, <2>3 DEF Tasks
  <2> QED BY <1>1, <1>2, <2>1, <2>4
<1>5. ASSUME Cursors!CountFirst PROVE Moved
  <2>1. Cursors!Step("countFirst") BY <1>5 DEF Cursors!CountFirst
  <2>2. task \in Tasks BY <1>1, <2>1
  <2>3. \E r : \E s \in {"find"} : task' = [task EXCEPT !.total = r, !.at = s] BY <1>5, Zenon DEF Cursors!CountFirst
  <2>4. task'.at # "idle" /\ task'.q = task.q /\ task'.args = task.args /\ task'.began = task.began
    BY <2>2, <2>3 DEF Tasks
  <2> QED BY <1>1, <1>2, <2>1, <2>4
<1>6. ASSUME Cursors!Find PROVE Moved
  <2>1. Cursors!Step("find") BY <1>6 DEF Cursors!Find
  <2>2. task \in Tasks BY <1>1, <2>1
  <2>3. \E r, u : \E s \in {"count", "answer"} : task' = [task EXCEPT !.rows = r, !.total = u, !.at = s] BY <1>6, Zenon DEF Cursors!Find
  <2>4. task'.at # "idle" /\ task'.q = task.q /\ task'.args = task.args /\ task'.began = task.began
    BY <2>2, <2>3 DEF Tasks
  <2> QED BY <1>1, <1>2, <2>1, <2>4
<1>7. ASSUME Cursors!Window PROVE Moved
  <2>1. Cursors!Step("window") BY <1>7 DEF Cursors!Window
  <2>2. task \in Tasks BY <1>1, <2>1
  <2>3. \E r, u : \E s \in {"count", "answer"} : task' = [task EXCEPT !.rows = r, !.total = u, !.at = s] BY <1>7, Zenon DEF Cursors!Window
  <2>4. task'.at # "idle" /\ task'.q = task.q /\ task'.args = task.args /\ task'.began = task.began
    BY <2>2, <2>3 DEF Tasks
  <2> QED BY <1>1, <1>2, <2>1, <2>4
<1>8. ASSUME Cursors!CountAfter PROVE Moved
  <2>1. Cursors!Step("count") BY <1>8 DEF Cursors!CountAfter
  <2>2. task \in Tasks BY <1>1, <2>1
  <2>3. \E r : \E s \in {"answer"} : task' = [task EXCEPT !.total = r, !.at = s] BY <1>8, Zenon DEF Cursors!CountAfter
  <2>4. task'.at # "idle" /\ task'.q = task.q /\ task'.args = task.args /\ task'.began = task.began
    BY <2>2, <2>3 DEF Tasks
  <2> QED BY <1>1, <1>2, <2>1, <2>4
<1>9. Moved BY <1>3, <1>4, <1>5, <1>6, <1>7, <1>8
<1>10. Cursors!ListOf(table)' = Cursors!ListOf(table) BY <1>9 DEF Cursors!ListOf, Cursors!InOrder
<1> QED BY <1>9, <1>10 DEF WalkInv

\* A walk begins with nothing seen.
LEMMA AskingWalks ==
  ASSUME PagesInv, answer = Cursors!NoAnswer, task = Cursors!Idle, NEW q \in PageRequests, Cursors!Ask(q)
  PROVE  WalkInv'
<1> SUFFICES ASSUME NEW list, list = Cursors!ListOf(table), NEW n, n = Len(list), walk'.on PROVE WalkInv'
  BY DEF WalkInv
<1>1. /\ walk' = [on |-> q.road # "rest" /\ ~ q.countOnly /\ q.after = Cursors!NoCursor /\ q.before = Cursors!NoCursor,
                  seen |-> <<>>, began |-> writes]
      /\ Cursors!Start(q)
  BY DEF Cursors!Ask
<1>2. /\ q.road # "rest" /\ ~ q.countOnly /\ q.after = Cursors!NoCursor /\ q.before = Cursors!NoCursor
      /\ walk'.seen = <<>> /\ walk'.began = writes
  BY <1>1
<1>3. Askable(q) /\ list \in Seq(Int) /\ writes \in Nat /\ Says(answer, list, writes, backend)
  BY ListIs, PagesAssumption DEF PagesInv, Askable, Queries
<1>4. n \in Nat /\ ~ answer.given BY <1>3, LenProperties DEF Cursors!NoAnswer
<1>5. UNCHANGED <<table, writes>> BY <1>1 DEF Cursors!Start
<1>6. Cursors!ListOf(table)' = list BY <1>5 DEF Cursors!ListOf, Cursors!InOrder
<1>7. /\ task' = task \/ (Tells(task', list, writes, backend) /\ task'.q = q /\ task'.began = writes /\ answer' = answer)
      /\ answer' = answer \/ (answer'.q = q /\ answer'.error)
  BY <1>1, <1>3, StartTells
<1>8. CASE task' = task BY <1>2, <1>3, <1>4, <1>5, <1>6, <1>7, <1>8 DEF WalkInv
<1>9. CASE Tells(task', list, writes, backend) /\ task'.q = q /\ task'.began = writes /\ answer' = answer
  <2> SUFFICES ASSUME NEW a, a = task'.args PROVE Reaching(a, <<>>, list, n)
    BY <1>2, <1>3, <1>4, <1>5, <1>6, <1>9 DEF WalkInv
  <2>1. Fits(a, q) BY <1>9 DEF Tells, Sound
  <2>2. a.after = Cursors!None /\ a.before = Cursors!None
    BY <1>2, <2>1 DEF Fits, Cursors!AskedOf, Cursors!NoCursor, Cursors!Cursor
  <2>3. a.last = Cursors!None => From(a, n) = 0 BY <2>2 DEF From
  <2>4. Covered(<<>>, list, 1, 0) BY NothingCovered
  <2>5. Covered(<<>>, list, n + 1, n) BY <1>4, NothingCovered
  <2> QED BY <1>4, <2>2, <2>3, <2>4, <2>5 DEF Reaching, Bound
<1> QED BY <1>7, <1>8, <1>9

\* What the next page goes on from is what the last one has come to.
LEMMA GoingOnReaches ==
  ASSUME NEW s, Positions(s), s.edges # <<>>, NEW q, GoesOnFrom(q, s), q.road # "rest", NEW a, Fits(a, q),
         NEW list \in Seq(Int), NEW n, n = Len(list), NEW seen, Reached(s, seen, list)
  PROVE  Reaching(a, seen, list, n)
<1>1. n \in Nat BY LenProperties
<1>2. a.last = q.last /\ a.after = q.after.index /\ a.before = q.before.index BY DEF Fits, Cursors!AskedOf
<1>3. q.last = s.q.last BY DEF GoesOnFrom
<1>4. /\ \A k \in DOMAIN s.edges : s.edges[k].index \in Nat
      /\ 1 \in DOMAIN s.edges /\ Len(s.edges) \in DOMAIN s.edges
  <2>1. s.edges \in Seq(Edges) BY DEF Positions
  <2>2. DOMAIN s.edges = 1 .. Len(s.edges) /\ Len(s.edges) \in Nat /\ Len(s.edges) > 0 BY <2>1, LenProperties, EmptySeq
  <2> QED BY <2>2 DEF Positions
<1>5. CASE q.last = Cursors!None
  <2> SUFFICES ASSUME NEW end, end = s.edges[Len(s.edges)].index PROVE Reaching(a, seen, list, n) OBVIOUS
  <2>1. end \in Nat BY <1>4
  <2>2. a.before = Cursors!None /\ a.after = end BY <1>2, <1>5 DEF GoesOnFrom
  <2>3. end + 1 \in 1 .. n /\ Covered(seen, list, 1, end + 1) BY <1>3, <1>5 DEF Reached, ComeForth
  <2>4. From(a, n) = end + 1 BY <2>1, <2>2 DEF From, Cursors!None
  <2>5. end + 1 <= n BY <1>1, <2>1, <2>3
  <2> QED BY <1>2, <1>5, <2>2, <2>3, <2>4, <2>5 DEF Reaching
<1>6. CASE q.last # Cursors!None
  <2> SUFFICES ASSUME NEW first, first = s.edges[1].index PROVE Reaching(a, seen, list, n) OBVIOUS
  <2>1. first \in Nat BY <1>4
  <2>2. a.after = Cursors!None /\ a.before = first /\ first > 0 BY <1>2, <1>6 DEF GoesOnFrom
  <2>3. first + 1 \in 1 .. n /\ Covered(seen, list, first + 1, n) BY <1>3, <1>6 DEF Reached, ComeBack
  <2>4. Bound(a, n) = first BY <2>1, <2>2 DEF Bound, Cursors!None
  <2>5. first \in 1 .. n BY <1>1, <2>1, <2>2, <2>3
  <2> QED BY <1>2, <1>6, <2>2, <2>3, <2>4, <2>5 DEF Reaching
<1> QED BY <1>5, <1>6

\* A client that goes on asks for what adjoins.
LEMMA GoingOnWalks ==
  ASSUME PagesInv, WalkInv, Cursors!Continue
  PROVE  WalkInv'
<1> SUFFICES ASSUME NEW list, list = Cursors!ListOf(table), NEW n, n = Len(list) PROVE WalkInv' OBVIOUS
<1>1. PICK q : Askable(q) /\ Cursors!Start(q) /\ q.road # "rest" /\ GoesOnFrom(q, answer) BY ContinueAsks
<1>2. walk.on /\ answer.given /\ ~ answer.error /\ answer.edges # <<>> /\ walk' = walk BY DEF Cursors!Continue
<1>3. task = Cursors!Idle /\ UNCHANGED <<table, writes>> BY <1>1 DEF Cursors!Start
<1>4. Cursors!ListOf(table)' = list BY <1>3 DEF Cursors!ListOf, Cursors!InOrder
<1>5. list \in Seq(Int) /\ writes \in Nat /\ Says(answer, list, writes, backend) BY ListIs DEF PagesInv
<1>6. /\ walk.began \in Nat /\ walk.began <= writes /\ ~ answer.q.countOnly /\ walk.began <= answer.began
      /\ walk.began = writes => Reached(answer, walk.seen, list)
  BY <1>2, <1>3 DEF WalkInv
<1>7. /\ task' = task \/ (Tells(task', list, writes, backend) /\ task'.q = q /\ task'.began = writes /\ answer' = answer)
      /\ answer' = answer \/ (answer'.q = q /\ answer'.error)
  BY <1>1, <1>5, StartTells
<1>8. CASE task' = task BY <1>2, <1>3, <1>4, <1>6, <1>7, <1>8 DEF WalkInv
<1>9. CASE Tells(task', list, writes, backend) /\ task'.q = q /\ task'.began = writes /\ answer' = answer
  <2> SUFFICES ASSUME NEW a, a = task'.args, walk.began = writes, NEW seen, seen = walk.seen PROVE Reaching(a, seen, list, n)
    <3>1. ~ q.countOnly BY <1>1, <1>6 DEF GoesOnFrom
    <3>2. task' # Cursors!Idle
      <4>1. task' \in Tasks BY <1>9 DEF Tells, Sound
      <4> QED BY <4>1 DEF Tasks, Phases, Cursors!Idle
    <3> QED BY <1>2, <1>3, <1>4, <1>6, <1>9, <3>1, <3>2 DEF WalkInv
  <2>1. Fits(a, q) BY <1>9 DEF Tells, Sound
  <2>2. Positions(answer) BY <1>2, <1>5 DEF Says
  <2>3. Reached(answer, seen, list) BY <1>6
  <2> QED BY <1>1, <1>2, <1>5, <2>1, <2>2, <2>3, GoingOnReaches
<1> QED BY <1>7, <1>8, <1>9

\* An answer adds its page.
LEMMA AnsweringWalks ==
  ASSUME PagesInv, WalkInv, Cursors!Answer
  PROVE  WalkInv'
<1> SUFFICES ASSUME NEW list, list = Cursors!ListOf(table), NEW n, n = Len(list), walk'.on PROVE WalkInv' BY DEF WalkInv
<1>1. task # Cursors!Idle /\ task' = Cursors!Idle /\ UNCHANGED <<table, writes>> BY DEF Cursors!Answer, Cursors!Idle
<1>2. Cursors!ListOf(table)' = list BY <1>1 DEF Cursors!ListOf, Cursors!InOrder
<1>3. PICK seen : walk' = [walk EXCEPT !.seen = seen] BY DEF Cursors!Answer
<1>4. walk = [on |-> walk.on, seen |-> walk.seen, began |-> walk.began] BY DEF PagesInv
<1>5. walk'.on = walk.on /\ walk'.began = walk.began BY <1>3, <1>4
<1>6. /\ table \in SUBSET Rows /\ writes \in Nat /\ Head(codecs) \in {"old", "new"}
      /\ Tells(task, list, writes, backend) /\ task.q.road # "rest"
  BY <1>1, <1>5 DEF PagesInv
<1>7. list \in Seq(Int) /\ Increasing(list) BY <1>6, ListIs, ListRises
<1>8. /\ walk.began \in Nat /\ walk.began <= writes /\ walk.began <= task.began /\ ~ task.q.countOnly
      /\ walk.began = writes => Reaching(task.args, walk.seen, list, n)
  BY <1>1, <1>5 DEF WalkInv
<1>9. answer'.q = task.q /\ answer'.began = task.began BY DEF Cursors!Answer, Cursors!Answered
<1>10. ASSUME walk.began = writes PROVE Reached(answer', walk'.seen, list)
  <2> SUFFICES ASSUME NEW t, t = task, NEW w, w = writes, NEW b, b = backend PROVE Reached(answer', walk'.seen, list) OBVIOUS
  <2>1. Sound(t, w) /\ AtAnswer(t, list, w, b) BY <1>6 DEF Tells, Cursors!Answer
  <2>2. t.began \in Nat /\ t.began <= w BY <2>1 DEF Sound, Tasks
  <2>3. Still(t, w) BY <1>6, <1>8, <1>10, <2>2 DEF Still
  <2>4. Reaching(t.args, walk.seen, list, Len(list)) BY <1>8, <1>10
  <2> QED BY <1>4, <1>6, <1>7, <1>8, <2>1, <2>3, <2>4, AnswerComes
<1> QED BY <1>1, <1>2, <1>5, <1>8, <1>9, <1>10 DEF WalkInv

\* Every step keeps the walk where it is, or takes it on.
LEMMA WalkInvKept == PagesInv /\ WalkInv /\ Cursors!Next => WalkInv'
<1> SUFFICES ASSUME PagesInv, WalkInv, Cursors!Next PROVE WalkInv' OBVIOUS
<1>1. ASSUME answer = Cursors!NoAnswer, task = Cursors!Idle, NEW q \in PageRequests, Cursors!Ask(q) PROVE WalkInv'
  BY <1>1, AskingWalks
<1>2. CASE Cursors!Continue BY <1>2, GoingOnWalks
<1>3. CASE Cursors!Resolve BY <1>3, QueriesKeepWalk, AnsweringWalks DEF Cursors!Resolve
<1>4. CASE Cursors!Rotate
  <2>1. UNCHANGED <<table, writes, task, answer, walk>> BY <1>4 DEF Cursors!Rotate
  <2>2. Cursors!ListOf(table)' = Cursors!ListOf(table) BY <2>1 DEF Cursors!ListOf, Cursors!InOrder
  <2> QED BY <2>1, <2>2 DEF WalkInv
<1>5. ASSUME NEW row \in Rows, Cursors!OthersWrite(row) PROVE WalkInv'
  <2>1. writes' = writes + 1 /\ UNCHANGED <<task, answer, walk>> BY <1>5 DEF Cursors!OthersWrite
  <2>2. writes \in Nat BY DEF PagesInv
  <2>3. walk.on => walk.began \in Nat /\ walk.began <= writes' /\ walk.began # writes' BY <2>1, <2>2 DEF WalkInv
  <2> QED BY <2>1, <2>3 DEF WalkInv
<1> QED BY <1>1, <1>2, <1>3, <1>4, <1>5 DEF Cursors!Next

WholeInv == sealed = "cursors" => PagesInv /\ WalkInv

(* A client that goes on from cursor to cursor, forwards or backwards and  *)
(* across a change of codec, has seen every row that is not withheld once  *)
(* and in order when there is nothing to go on to, if nobody wrote since   *)
(* it began and its last page was not withheld whole (connection.ts).      *)
THEOREM WalksAreWhole == SealedSpec => []WalkSeesEveryRowOnce
<1>1. SealedInit => WholeInv
  <2>1. Cursors!Init => WalkInv BY DEF Cursors!Init, WalkInv
  <2> QED BY <2>1, PagesInvInit DEF SealedInit, WholeInv
<1>2. WholeInv /\ [SealedNext]_sealedVars => WholeInv'
  <2> SUFFICES ASSUME WholeInv, [SealedNext]_sealedVars PROVE WholeInv' OBVIOUS
  <2>1. CASE UseCursors BY <2>1, PagesInvKept, WalkInvKept DEF UseCursors, WholeInv
  <2>2. CASE UseIds
    <3>1. sealed = "ids" /\ sealed' = sealed BY <2>2 DEF UseIds
    <3> QED BY <3>1 DEF WholeInv
  <2>3. CASE UNCHANGED sealedVars
    <3>1. UNCHANGED <<sealed, backend, codecs, table, writes, task, answer, walk>> BY <2>3 DEF sealedVars, cursorVars
    <3>2. Cursors!ListOf(table)' = Cursors!ListOf(table) BY <3>1 DEF Cursors!ListOf, Cursors!InOrder
    <3>3. PagesInv /\ WalkInv => PagesInv' /\ WalkInv' BY <3>1, <3>2 DEF PagesInv, WalkInv
    <3> QED BY <3>1, <3>3 DEF WholeInv
  <2> QED BY <2>1, <2>2, <2>3 DEF SealedNext
<1>3. WholeInv => WalkSeesEveryRowOnce
  <2>1. PagesInv /\ WalkInv => Cursors!WalkSeesEveryRowOnce BY WalkEndsWhole DEF Cursors!WalkSeesEveryRowOnce
  <2> QED BY <2>1 DEF WholeInv, WalkSeesEveryRowOnce
<1> QED BY <1>1, <1>2, <1>3, PTL DEF SealedSpec

===============================================================================
