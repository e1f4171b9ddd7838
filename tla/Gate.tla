-------------------------------- MODULE Gate --------------------------------
(***************************************************************************)
(* The permission bag and the questions asked of it (utilize/src/gate.ts). *)
(* A bag holds one predicate per key; a predicate is absent, or the set of *)
(* arguments it allows: a model, a <<model, name>> pair, or, for an        *)
(* extension, the field key.                                               *)
(***************************************************************************)
EXTENDS Naturals, Sequences

Predicate(args) == [present |-> TRUE, allows |-> args]
Absent == [present |-> FALSE, allows |-> {}]

\* An absent predicate allows.
IsAllowed(p, arg) == p.present => arg \in p.allows

MutationKinds == {"create", "update", "delete", "restore"}
MutationKey == [create |-> "mutationCreate", update |-> "mutationUpdate",
                delete |-> "mutationDelete", restore |-> "mutationRestore"]
InputKey == [create |-> "mutationCreateInput", update |-> "mutationUpdateInput"]

IsModelAllowed(bag, m)                 == IsAllowed(bag["model"], m)
IsFieldAllowed(bag, m, f)              == f = "id" \/ IsAllowed(bag["field"], <<m, f>>)
IsFieldExposed(ignored, bag, m, f)     == f \notin ignored /\ IsFieldAllowed(bag, m, f)
IsRelationshipAllowed(bag, m, r)       == IsAllowed(bag["relationship"], <<m, r>>)
IsQueryInstanceMethodAllowed(bag, m, n) == IsAllowed(bag["queryInstanceMethods"], <<m, n>>)
IsMutationInstanceMethodAllowed(bag, m, n) == IsAllowed(bag["mutationInstanceMethods"], <<m, n>>)
IsQueryDeletedAllowed(bag, m)          == IsAllowed(bag["queryDeleted"], m)
IsClassMethodAllowed(bag, m, n, target) ==
  IsAllowed(IF target = "query" THEN bag["queryClassMethods"] ELSE bag["mutationClassMethods"], <<m, n>>)
IsMutationAllowed(bag, m, kind)        == IsAllowed(bag[MutationKey[kind]], m)
IsInputFieldAllowed(bag, m, f, kind)   == IsAllowed(bag[InputKey[kind]], <<m, f>>)

\* A key column is not the caller's to write, unless its definition says so.
IsStructurallyWritable(meta) == meta.writable \/ ~ (meta.primaryKey \/ meta.foreignKey)
IsInputFieldWritable(bag, m, f, kind, meta) ==
  IsStructurallyWritable(meta) /\ IsInputFieldAllowed(bag, m, f, kind)

\* The keys a consumer reads: while it builds, and once per request.
OneArgKeys == {"model", "query", "queryDeleted", "mutation", "mutationCreate", "mutationUpdate",
               "mutationDelete", "mutationRestore", "queryExtension", "mutationExtension"}
TwoArgKeys == {"mutationCreateInput", "mutationUpdateInput", "field", "relationship",
               "queryClassMethods", "mutationClassMethods", "queryInstanceMethods",
               "mutationInstanceMethods"}
BuildTimeKeys == OneArgKeys \cup TwoArgKeys
PermissionKeys == BuildTimeKeys \cup {"scope"}
OpenBag == [k \in BuildTimeKeys |-> Absent]
=============================================================================
