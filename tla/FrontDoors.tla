----------------------------- MODULE FrontDoors -----------------------------
(***************************************************************************)
(* One request through a door that needs no GraphQL: nestize's REST routes *)
(* or a temporalize workflow, whose activity Temporal runs on a worker of  *)
(* the model's queue and runs again after a timeout or a failure it may    *)
(* retry.  An operation makes two writes, so that half of it can be seen;  *)
(* an attempt that was given up may still be running.  Bounds: one         *)
(* request, and MaxFaults failures, crashes and timeouts.                  *)
(***************************************************************************)
EXTENDS Guards, FiniteSets

CONSTANTS Cases,     \* pairs of a deployment and a request sent to it
          MaxFaults

\* The routes of nestize and the activities of temporalize.
Routes == {"list", "count", "findByPk", "create", "update", "remove", "select", "relationGet",
           "relationMutate", "relationRemove", "classQuery", "classMutation", "instanceMethod",
           "transform"}
Activities == {"list", "count", "findByPk", "create", "update", "destroy", "select",
               "classMutation", "instanceMethod", "transform"}

ASSUME FrontDoorsAssumption ==
  /\ MaxFaults \in Nat
  /\ \A m \in Models : /\ Absence \cap (Columns[m] \cup DOMAIN Relations[m]) = {}
                       /\ \A r \in DOMAIN Relations[m] : Relations[m][r] \in Models
  /\ \A c \in Cases :
       /\ c[1].door \in {"nestize", "temporalize"}
       /\ {c[1].readOnly, c[1].validate, c[1].classMethods, c[1].instanceMethods} \subseteq BOOLEAN
       /\ c[2].op \in IF c[1].door = "nestize" THEN Routes ELSE Activities
       /\ c[2].model \in Models /\ c[2].relation \in STRING
       \* A relation route's body is the relation's own, and every other body is under one.
       /\ \A n \in c[2].input.nested :
            /\ n \in [path : Seq(STRING), verb : {"create", "update"}, columns : SUBSET AllColumns]
            /\ n.path = <<>> => c[2].op = "relationMutate"

VARIABLES deployment,  \* the door, its bag and options: fixed before the request
          request,     \* what the caller sent
          flow,        \* the caller's view: "sent", "queued", "running", "done", or an error
          attempts,    \* the attempts, in order
          effects,     \* for each write of the operation: how often it took effect
          changes,     \* what those writes set: of the model's own rows, or of rows further down
          faults       \* failures, crashes and timeouts so far

vars == <<deployment, request, flow, attempts, effects, changes, faults>>

Bag == deployment.bag
M == request.model
Kind == [create |-> "create", update |-> "update", destroy |-> "delete", remove |-> "delete",
         select |-> "update", transform |-> "update", relationMutate |-> "update",
         relationRemove |-> "update"]
EngineWrites == DOMAIN Kind                      \* one processX call: its own transaction
UserCode == {"classQuery", "classMutation", "instanceMethod"}
MaxAttempts == 1 + MaxFaults
Reads == {"list", "count", "findByPk", "relationGet"}
Writes == {1, 2}
\* A select of nestize without input only finds.
OnlyFinds == request.op = "select" /\ deployment.door = "nestize" /\ ~ request.input.given

-----------------------------------------------------------------------------
(* Guards, in the order the doors call them. *)

ModelKnown == Guard(IsModelAllowed(Bag, M), "not found")
MutationAllowed == Guard(IsMutationAllowed(Bag, M, Kind[request.op]), "forbidden")
UmbrellaAllowed == Guard(IsAllowed(Bag["mutation"], M), "forbidden")
Valid(kind) == Guard(ValidInput(Bag, M, kind, request.input), "validation")
Paged == Guard(request.limit > 0, "validation")
RelationKnown == Guard(/\ deployment.includeRelations
                       /\ request.relation \in DOMAIN Relations[M]
                       /\ IsRelationshipAllowed(Bag, M, request.relation), "not found")
MethodTarget == IF request.op = "classQuery" THEN "query" ELSE "mutations"
MethodAllowed ==
  Guard(CASE request.op \in {"classQuery", "classMutation"} ->
               IsClassMethodAllowed(Bag, M, request.method, MethodTarget)
          [] request.op = "transform" -> IsMutationInstanceMethodAllowed(Bag, M, request.method)
          [] OTHER -> IsQueryInstanceMethodAllowed(Bag, M, request.method), "forbidden")
ReadOnly == Writable(deployment.readOnly)
Scoping == ScopedMutation(request.where, request.all)
Filter == FilterAllowed(Bag, M, request.where)
Order == OrderAllowed(Bag, M, request.order)

\* nestize.service.ts, route by route.
NestizeGuards ==
  CASE request.op \in {"list", "count"} -> <<ModelKnown, Paged, Filter, Order>>
    [] request.op = "findByPk"     -> <<ModelKnown>>
    [] request.op = "create"       -> <<ReadOnly, ModelKnown, MutationAllowed, Valid("create")>>
    [] request.op = "update"       -> <<ReadOnly, ModelKnown, MutationAllowed, Valid("update"),
                                        Filter, Scoping, Paged>>
    [] request.op = "remove"       -> <<ReadOnly, ModelKnown, MutationAllowed, Filter, Scoping>>
    [] request.op = "select"       -> IF OnlyFinds THEN <<ModelKnown, Filter>>
                                      ELSE <<ModelKnown, Filter, ReadOnly, MutationAllowed, Scoping>>
    [] request.op = "relationGet"  -> <<ModelKnown, RelationKnown, Paged>>
    [] request.op \in {"relationMutate", "relationRemove"} ->
         <<ReadOnly, ModelKnown, RelationKnown, MutationAllowed>>
    [] request.op = "classQuery"   -> <<ModelKnown, Guard(deployment.classMethods, "not found"), MethodAllowed>>
    [] request.op = "classMutation" ->
         <<ModelKnown, ReadOnly, Guard(deployment.classMethods, "not found"), MethodAllowed>>
    [] request.op = "instanceMethod" ->
         <<ModelKnown, Guard(deployment.instanceMethods, "not found"), MethodAllowed>>
    [] request.op = "transform"    -> <<ModelKnown, Guard(deployment.instanceMethods, "not found"),
                                        MethodAllowed, ReadOnly, MutationAllowed>>

\* activities.ts, activity by activity, after invoke has read the context and the bag.
Mutable == <<ReadOnly, UmbrellaAllowed, MutationAllowed>>
ActivityGuards ==
  CASE request.op \in {"list", "count"} -> <<ModelKnown, Paged, Filter, Order>>
    [] request.op = "findByPk" -> <<ModelKnown>>
    [] request.op = "create"   -> <<ModelKnown>> \o Mutable
                                  \o (IF deployment.validate THEN <<Valid("create")>> ELSE <<>>)
    [] request.op = "update"   -> <<ModelKnown>> \o Mutable \o <<Scoping, Filter, Paged>>
                                  \o (IF deployment.validate THEN <<Valid("update")>> ELSE <<>>)
    [] request.op = "destroy"  -> <<ModelKnown>> \o Mutable \o <<Scoping, Filter>>
    [] request.op = "select"   -> <<ModelKnown>> \o Mutable \o <<Scoping, Filter, Paged>>
    [] request.op = "classMutation" -> <<ModelKnown, ReadOnly, MethodAllowed>>
    [] request.op = "instanceMethod" -> <<ModelKnown, MethodAllowed>>
    [] request.op = "transform" -> <<ModelKnown, MethodAllowed>> \o Mutable
\* The context comes first: an object, and without a transaction of its own.
ContextGiven == <<Guard(request.context = "caller", "context")>>

Refusal == Verdict(IF deployment.door = "nestize" THEN NestizeGuards ELSE ContextGiven \o ActivityGuards)

\* The columns of its own a write names: the parsed input, or what came if nobody parses.
Unparsed == deployment.door = "temporalize" /\ ~ deployment.validate
Input ==
  IF request.op \notin {"create", "update"} THEN {}
  ELSE IF Unparsed THEN request.input.columns
  ELSE Parsed(Bag, M, Kind[request.op], request.input)

\* The bodies an input nests: the path of relations to the rows they are for, what is done
\* with these, and the columns.  A schema names columns only and so drops them; relationMutate
\* hangs what came under the relation it checked, and select hands on what came.
\* The verbs that set no columns, and a join row's own values, are left out.
Nested ==
  CASE request.op = "relationMutate" ->
         {[n EXCEPT !.path = <<request.relation>> \o n.path] : n \in request.input.nested}
    [] request.op = "relationRemove" -> {[path |-> <<request.relation>>, verb |-> "remove", columns |-> {}]}
    [] request.op = "select" \/ (request.op \in {"create", "update"} /\ Unparsed) -> request.input.nested
    [] OTHER -> {}

\* The model at the end of a path, if there is one: the engine passes over what it does not know.
LedTo(path) ==
  {m \in Models : \E along \in [0 .. Len(path) -> Models] :
     /\ along[0] = M /\ along[Len(path)] = m
     /\ \A i \in 1 .. Len(path) : /\ path[i] \in DOMAIN Relations[along[i - 1]]
                                  /\ along[i] = Relations[along[i - 1]][path[i]]}
\* As if a body were taken as it came.
KeptAll(m, columns) == columns \cap Columns[m]
\* processInputs: of a body, the columns of the model that anyone may write.
Kept(m, columns) == {f \in columns \cap Columns[m] : IsStructurallyWritable(Meta[f])}
\* A nested update is what the before-hook returns, if the model has one: the hook is given
\* the body as it came, and deployment.hooked are the models whose hook returns what it is given.
Rehooked(verb, m) == verb = "update" /\ m \in deployment.hooked
NestedChange(n, m) ==
  [path |-> n.path, of |-> m, verb |-> n.verb,
   columns |-> IF Rehooked(n.verb, m) THEN n.columns \cap Columns[m] ELSE Kept(m, n.columns)]
OwnChange == [path |-> <<>>, of |-> M, verb |-> request.op, columns |-> Kept(M, Input)]
Changes == (IF request.op \in {"create", "update"} THEN {OwnChange} ELSE {})
           \cup UNION {{NestedChange(n, m) : m \in LedTo(n.path)} : n \in Nested}

\* What the caller is shown of a row; a method's own answer is its own.
Shown == IF request.op = "relationGet" THEN Relations[M][request.relation] ELSE M
Answer ==
  IF request.op \in UserCode \cup {"count"} THEN {}
  ELSE Project(WholeRow(Shown),
               EntityShape(Bag, Shown, deployment.door = "nestize" \/ deployment.includeRelations))

\* The routes nestize's OpenAPI document lists for the model, and its relations.
Advertised ==
  IF ~ IsModelAllowed(Bag, M) THEN {}
  ELSE {"list", "findByPk"} \cup (IF deployment.readOnly THEN {} ELSE {"remove", "select"})
       \cup {k \in {"create", "update"} : ~ deployment.readOnly /\ InputShape(Bag, M, k) # Absence}
AdvertisedRelations ==
  {r \in DOMAIN Relations[M] : deployment.includeRelations /\ IsRelationshipAllowed(Bag, M, r)}

-----------------------------------------------------------------------------
(* The engine below: an adapter with transactions keeps a processX call whole, and *)
(* temporalize's own transaction keeps everything an activity does whole.          *)

InTransaction ==
  /\ deployment.adapterTransactions
  /\ \/ request.op \in EngineWrites
     \/ deployment.door = "temporalize" /\ deployment.transactional
WritesOf == IF request.op \in Reads \/ OnlyFinds THEN {} ELSE Writes

Attempt == [is : {"working", "over"}, wrote : SUBSET Writes, result : {"none", "done", "failed", "refused"}]
NewAttempt == [is |-> "working", wrote |-> {}, result |-> "none"]
Current(i) == i = Len(attempts) /\ flow = "running"

\* startOptions and buildQueueMap: the queue of the model, of those the deployment lists.
QueueOf(m) == deployment.queues[m]
Hosted(m) == QueueOf(m) \in deployment.workers

Init == /\ \E c \in Cases : deployment = c[1] /\ request = c[2]
        /\ flow = "sent"
        /\ attempts = <<>>
        /\ effects = [w \in Writes |-> 0]
        /\ changes = {}
        /\ faults = 0

\* nestize calls the service at once; temporalize starts a workflow on the queue, if there is one.
Send ==
  /\ flow = "sent"
  /\ IF deployment.door = "nestize" THEN flow' = "running" /\ attempts' = <<NewAttempt>>
     ELSE flow' = (IF M \in DOMAIN deployment.queues THEN "queued" ELSE "no task queue") /\ attempts' = <<>>
  /\ UNCHANGED <<deployment, request, effects, changes, faults>>

\* A worker of the queue takes the activity up.
PickUp ==
  /\ flow = "queued" /\ Hosted(M) /\ Len(attempts) < MaxAttempts
  /\ flow' = "running"
  /\ attempts' = Append(attempts, NewAttempt)
  /\ UNCHANGED <<deployment, request, effects, changes, faults>>

Over(i, result) == attempts' = [attempts EXCEPT ![i].is = "over", ![i].result = result]
Working(i) == i \in DOMAIN attempts /\ attempts[i].is = "working"

\* A guard refuses: an HTTP error, or a failure Temporal does not retry.
RefusedForNow == "queued"   \* as if it did
RefusedAs == Refusal
Refuse(i) ==
  /\ Working(i) /\ attempts[i].wrote = {} /\ Refusal # "ok"
  /\ Over(i, "refused")
  /\ flow' = IF Current(i) THEN RefusedAs ELSE flow
  /\ UNCHANGED <<deployment, request, effects, changes, faults>>

\* A write: held by the transaction, or there at once.
Write(i, w) ==
  /\ Working(i) /\ Refusal = "ok"
  /\ w \in WritesOf \ attempts[i].wrote /\ \A v \in WritesOf : v < w => v \in attempts[i].wrote
  /\ attempts' = [attempts EXCEPT ![i].wrote = @ \cup {w}]
  /\ IF InTransaction THEN UNCHANGED <<effects, changes>>
     ELSE effects' = [effects EXCEPT ![w] = @ + 1] /\ changes' = changes \cup Changes
  /\ UNCHANGED <<deployment, request, flow, faults>>

\* All is written: the transaction commits, and takes what it held into effect.
Commit(i) ==
  /\ Working(i) /\ Refusal = "ok" /\ attempts[i].wrote = WritesOf
  /\ IF InTransaction
     THEN /\ effects' = [w \in Writes |-> effects[w] + IF w \in WritesOf THEN 1 ELSE 0]
          /\ changes' = changes \cup IF WritesOf = {} THEN {} ELSE Changes
     ELSE UNCHANGED <<effects, changes>>
  /\ Over(i, "done")
  /\ UNCHANGED <<deployment, request>>

\* The attempt answers, if anyone still waits for it.
Finish(i) == /\ Commit(i)
             /\ flow' = IF Current(i) THEN "done" ELSE flow
             /\ UNCHANGED faults

Fault == faults < MaxFaults /\ faults' = faults + 1

\* The adapter fails: 500, or a failure Temporal retries; the transaction rolls back.
AdapterFails(i) ==
  /\ Working(i) /\ Refusal = "ok" /\ Fault
  /\ Over(i, "failed")
  /\ flow' = IF ~ Current(i) THEN flow ELSE IF deployment.door = "nestize" THEN "error" ELSE "queued"
  /\ UNCHANGED <<deployment, request, effects, changes>>

\* The worker dies, with everything its transaction held, or just after the commit.
WorkerCrashes(i) ==
  /\ deployment.door = "temporalize" /\ Working(i) /\ Fault
  /\ \/ Over(i, "failed") /\ UNCHANGED <<deployment, request, effects, changes>>
     \/ Commit(i)
  /\ UNCHANGED flow

\* As if no timeout were set: nobody ever learns of a worker that died.
NeverGivenUp == FALSE /\ UNCHANGED vars
\* startToCloseTimeout: the attempt is given up, dead or not.
GiveUpTheDead ==
  /\ flow = "running" /\ deployment.door = "temporalize" /\ ~ Working(Len(attempts))
  /\ flow' = "queued"
  /\ UNCHANGED <<deployment, request, attempts, effects, changes, faults>>
TimesOut ==
  /\ flow = "running" /\ deployment.door = "temporalize" /\ Working(Len(attempts)) /\ Fault
  /\ flow' = "queued"
  /\ UNCHANGED <<deployment, request, attempts, effects, changes>>

Progress == \/ Send \/ PickUp \/ GiveUpTheDead
            \/ \E i \in 1 .. MaxAttempts : Refuse(i) \/ Finish(i) \/ \E w \in Writes : Write(i, w)
Next == Progress \/ TimesOut \/ \E i \in 1 .. MaxAttempts : AdapterFails(i) \/ WorkerCrashes(i)

\* The server hands out what waits and gives up what is dead, and a process runs on.
Spec == Init /\ [][Next]_vars /\ WF_vars(Progress)

-----------------------------------------------------------------------------
TypeOK ==
  /\ flow \in {"sent", "queued", "running", "done", "error", "no task queue", "read-only", "not found",
               "forbidden", "denied-field", "unscoped-mutation", "validation", "context"}
  /\ \A i \in DOMAIN attempts : attempts[i] \in Attempt
  /\ effects \in [Writes -> 0 .. MaxAttempts]
  /\ \A c \in changes : c.of \in Models /\ c.columns \subseteq Columns[c.of]

HadEffect == \E w \in Writes : effects[w] > 0

(* Nothing is written but past the gates: the model, its mutation, the     *)
(* method, the relation a route names and read-only were asked, the rows   *)
(* were named or all of them asked for by fields the caller may see, and   *)
(* the model's own columns are ones the bag lets be written (unless the    *)
(* deployment says not to validate); and nestize's document lists every    *)
(* collection write.  Of the rows a nested body reaches, all the code asks *)
(* is this: it came with an update of the model it hangs from, or with an  *)
(* unvalidated create; a relation route goes in by the relation it         *)
(* checked; and at any depth only columns that are no keys, or that the    *)
(* model opened, are set, but for an update whose model has a before-hook  *)
(* (relationship-mutations.ts:114-121 takes what the hook returns).  The   *)
(* bag's word on the model below, its columns, its mutations and, for      *)
(* select and an unvalidated input, the relation, is not asked             *)
(* (nestize.service.ts:248-263, 283-299 and activities.ts:230-243 hand the *)
(* body on as it came), and not claimed.                                   *)
WritesPassTheGates ==
  HadEffect =>
    /\ IsModelAllowed(Bag, M)
    /\ request.op \in EngineWrites \cup {"classMutation"} => ~ deployment.readOnly
    /\ request.op \in EngineWrites =>
         /\ IsMutationAllowed(Bag, M, Kind[request.op])
         /\ deployment.door = "temporalize" => IsAllowed(Bag["mutation"], M)
    /\ request.op \in {"update", "destroy", "remove", "select"} =>
         /\ request.where.given \/ request.all
         /\ \A f \in request.where.fields : IsFieldExposed(Ignored[M], Bag, M, f)
    /\ deployment.door = "nestize" /\ request.op \in {"create", "update", "remove", "select"} =>
         request.op \in Advertised
    /\ request.op \in {"relationMutate", "relationRemove"} => request.relation \in AdvertisedRelations
    /\ request.op = "transform" => IsMutationInstanceMethodAllowed(Bag, M, request.method)
    /\ request.op = "classMutation" => IsClassMethodAllowed(Bag, M, request.method, "mutations")
    /\ \A c \in changes : \A f \in c.columns :
         /\ IsStructurallyWritable(Meta[f]) \/ (c.path # <<>> /\ Rehooked(c.verb, c.of))
         /\ c.path = <<>> /\ ~ Unparsed =>
              IsInputFieldWritable(Bag, M, f, Kind[request.op], Meta[f]) /\ f \notin Ignored[M]
         /\ c.path # <<>> =>
              \/ request.op = "relationMutate" /\ c.path[1] = request.relation
              \/ request.op = "select" \/ (request.op \in {"create", "update"} /\ Unparsed)

(* Of a model the bag shows, no column and no relation it hides leaves, no *)
(* relation is read that the document does not list, and no list, count or *)
(* select finds or orders rows by a column the caller may not see.  What   *)
(* relationGet is asked to filter and order by is not checked              *)
(* (nestize.service.ts:269-281), and not claimed.                          *)
NothingHiddenLeaves ==
  flow = "done" =>
    /\ IsModelAllowed(Bag, Shown) =>
         \A k \in Answer : \/ k \in Columns[Shown] /\ IsFieldExposed(Ignored[Shown], Bag, Shown, k)
                           \/ k \in DOMAIN Relations[Shown] /\ IsRelationshipAllowed(Bag, Shown, k)
    /\ request.op = "relationGet" => request.relation \in AdvertisedRelations
    /\ request.op \in {"list", "count", "select"} =>
         \A f \in request.where.fields : IsFieldExposed(Ignored[M], Bag, M, f)
    /\ request.op \in {"list", "count"} => \A f \in request.order : IsFieldExposed(Ignored[M], Bag, M, f)

(* By whatever door and operation, and however often it runs again: what   *)
(* is done and what is shown has passed the gates the doors have.          *)
NothingPastTheGates == WritesPassTheGates /\ NothingHiddenLeaves

(* What a caller is told is what happened.  A refusal has written nothing; *)
(* success was written whole, and what a transaction holds together has no *)
(* halves; and whatever ran again, or was written again, has a fault       *)
(* behind it for every time: a guard's refusal is never retried            *)
(* (utilize/guards.ts:9-11), and nothing is repeated without need.         *)
Waiting == flow \in {"sent", "queued", "running"}
ToldWhatHappened ==
  /\ ~ Waiting /\ flow \notin {"done", "error"} => ~ HadEffect
  /\ flow = "done" => \A w \in WritesOf : effects[w] > 0
  /\ InTransaction => effects[1] = effects[2]
  /\ Len(attempts) <= 1 + faults
  /\ \A w \in Writes : effects[w] <= 1 + faults

(* A request is answered, unless it waits on a queue no worker hosts.      *)
IsAnswered == <>(~ Waiting \/ (flow = "queued" /\ ~ Hosted(M)))
=============================================================================
