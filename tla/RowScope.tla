-------------------------------- MODULE RowScope --------------------------------
(***************************************************************************)
(* Row-level scopes of one model in one request: when the predicate runs   *)
(* and who shares its answer (packages/ormize/src/scope.ts), where the     *)
(* answer narrows a read or a write and where the rows are looked at again *)
(* (engine/scope-bridge.ts, resolution.ts, mutations.ts), and the second   *)
(* layer below the engine (scope-hooks.ts).                                *)
(*                                                                         *)
(* A scope is about one column, the owner.  An answer is what it says, the *)
(* owners its filter lets through (all of them: no filter) and the owner   *)
(* it forces.  The root fields of a mutation run one after another, reads  *)
(* side by side; others write a row at any time, unless the unit of work   *)
(* has written it.                                                         *)
(***************************************************************************)
EXTENDS Naturals, FiniteSets

CONSTANTS
  Tasks,          \* what the request does
  Rows, Owners, Principals,
  Requests,       \* functions from tasks to [kind, by, wants, value, rewrites]
  Answers,        \* [says, where, set] a predicate may give
  OnScopeMiss,    \* what a denied write answers: "empty" or "throw"
  Request, NoMemo, NoValue,
  Adapters,       \* <<hooked, transactional>> there may be
  StartTables,    \* the rows there may be when the request comes in
  MaxOthers       \* bound: writes of others

Ops == {"read", "create", "update", "delete"}
Mutations == {"create", "update", "delete", "restore", "select"}
Finds == {"find", "rawFind"}   \* through the engine; by a query of the host's own
Contexts == Tasks \cup {Request}
Keys == Principals \X Ops
RowStates == [state : {"live", "deleted", "free"}, owner : Owners]
Tables == [Rows -> RowStates]

ASSUME RowScopeAssumption ==
  /\ Request \notin Tasks /\ NoMemo \notin Contexts /\ NoValue \notin Owners \cup Tasks
  /\ {"none", "settled"} \cap Principals = {}
  /\ MaxOthers \in Nat /\ OnScopeMiss \in {"empty", "throw"}
  /\ StartTables \subseteq Tables /\ Adapters \subseteq BOOLEAN \X BOOLEAN
  /\ \A f \in Requests, t \in Tasks : f[t] \in
       [kind : Mutations \cup Finds, by : Principals, wants : SUBSET Owners,
        value : Owners \cup {NoValue}, rewrites : BOOLEAN]
  /\ Answers \subseteq
       [says : {"allow", "deny", "fail"}, where : SUBSET Owners, set : Owners \cup {NoValue}]

VARIABLES
  hooked,         \* whether the adapter fires the model hooks
  transactional,  \* whether it has transactions
  request,        \* what each task asks
  row,            \* the table: [state, owner] of each row
  saved,          \* rows the unit of work has written, as they were
  holder,         \* the context whose memo a context carries
  stage, answer,  \* of each promise of a memo: "none", the principal the
                  \* predicate is running for, or "settled"
  at, filter,     \* of each task: what it does next, the owners it asks for
  mutation,       \* the mutation that started last
  job,            \* of each row: how far that mutation is with it
  page,           \* history: owners of the rows a task was shown or counted
  reached,        \* history: owners of the rows a task wrote, when it looked last
  said,           \* history: what the predicate said
  last,           \* history: the task that wrote a row last
  others          \* writes of others so far

config == <<hooked, transactional, request>>
table == <<row, saved, last, others>>
memo == <<holder, stage, answer, said>>
history == <<page, reached>>
jobs == <<mutation, job>>
vars == <<config, table, memo, at, filter, jobs, history>>

Kind(t) == request[t].kind
OpOf(t) == CASE Kind(t) \in Finds -> "read"
             [] Kind(t) \in {"create", "delete"} -> Kind(t)
             [] OTHER -> "update"
Mutates(t) == Kind(t) \in Mutations
Ended(t) == at[t] \in {"done", "failed"}
Running(t) == at[t] # "new" /\ ~Ended(t)
Working == \E r \in Rows : job[r] \notin {"none", "written"}

(***************************************************************************)
(* The memo                                                                *)
(***************************************************************************)
(* A mutation runs on a copy of the context that has the transaction.      *)
Ctx(t) == IF transactional /\ Mutates(t) THEN t ELSE Request

(* Mutant: a promise is shared whoever the request acts as. *)
KeyOfAnyone(t, op) == <<CHOOSE p \in Principals : TRUE, op>>

KeyOf(t, op) == <<request[t].by, op>>

Stage(t, op) ==
  IF holder[Ctx(t)] = NoMemo THEN "none" ELSE stage[holder[Ctx(t)]][KeyOf(t, op)]
Answered(t, op) == Stage(t, op) = "settled"
Scope(t, op) == answer[holder[Ctx(t)]][KeyOf(t, op)]
Says(t, op, what) == Answered(t, op) /\ Scope(t, op).says = what

(* The copy carries the memo on, if there is one yet.                      *)
InheritScopeMemo(t) ==
  IF Ctx(t) = t THEN [holder EXCEPT ![t] = holder[Request]] ELSE holder

(* The first to ask for a key starts the predicate; the rest share it.     *)
ScopeFor(t, op) ==
  /\ Stage(t, op) = "none"
  /\ LET c == IF holder[Ctx(t)] = NoMemo THEN Ctx(t) ELSE holder[Ctx(t)]
     IN  /\ holder' = [holder EXCEPT ![Ctx(t)] = c]
         /\ stage' = [stage EXCEPT ![c][KeyOf(t, op)] = request[t].by]
  /\ UNCHANGED <<answer, said>>

(* Mutant: the lookup of a predicate is scoped, by what it is resolving. *)
AwaitsItself(key) == {key}

(* What a query of the predicate's own waits for: it runs unscoped.        *)
LookupAwaits(key) == {}

PredicateAnswers(c, key) ==
  /\ stage[c][key] \in Principals
  /\ \A k \in LookupAwaits(key) : stage[c][k] = "settled"
  /\ \E a \in Answers :
       /\ answer' = [answer EXCEPT ![c][key] = a]
       /\ said' = [said EXCEPT ![<<stage[c][key], key[2]>>] = @ \cup {a}]
  /\ stage' = [stage EXCEPT ![c][key] = "settled"]
  /\ UNCHANGED <<config, table, holder, at, filter, jobs, history>>

(***************************************************************************)
(* What a scope lets through                                               *)
(***************************************************************************)
Matching(owners, st) == {r \in Rows : row[r].state = st /\ row[r].owner \in owners}
OwnersOf(rows) == {row[r].owner : r \in rows}

(* A write reaches what the read scope and that of its operation let through. *)
ScopedWriteWhere(t) == Scope(t, OpOf(t)).where \cap Scope(t, "read").where

(* What the row has to satisfy that a write leaves behind.                 *)
Landing(t) == IF Kind(t) = "create" THEN Scope(t, "create").where ELSE ScopedWriteWhere(t)

(* Mutant: rows are taken to be where the write found them. *)
NobodyLooks(t, rows) == TRUE

(* assertRowsInScope: no look when nothing is imposed.                     *)
RowsInScope(t, rows) ==
  \/ Landing(t) = Owners
  \/ rows \subseteq Matching(Landing(t), "live")

(* What processInputs makes of the value: a forced one the client contradicts throws. *)
Conflicts(t) ==
  LET forced == Scope(t, OpOf(t)).set
  IN  forced # NoValue /\ request[t].value \notin {NoValue, forced}
Written(t) == IF Scope(t, OpOf(t)).set # NoValue THEN Scope(t, OpOf(t)).set ELSE request[t].value

(***************************************************************************)
(* Tasks                                                                   *)
(***************************************************************************)
To(t, where) == at' = [at EXCEPT ![t] = where]

NoJobs == [r \in Rows |-> "none"]

(* A throw ends the unit of work: what it wrote is put back, the statements *)
(* still to come are refused.  Elsewhere they go on behind the caller's back. *)
Fails(t, left) ==
  /\ To(t, "failed")
  /\ IF transactional /\ Mutates(t)
     THEN /\ row' = [r \in Rows |-> IF saved[r] = {} THEN row[r] ELSE CHOOSE x \in saved[r] : TRUE]
          /\ saved' = [r \in Rows |-> {}]
          /\ last' = [r \in Rows |-> IF saved[r] = {} THEN last[r] ELSE NoValue]
          /\ job' = NoJobs
     ELSE /\ job' = IF Kind(t) \in {"update"} \cup Finds THEN left ELSE NoJobs
          /\ UNCHANGED <<row, saved, last>>
  /\ UNCHANGED <<others, mutation>>

Ends(t) ==
  /\ To(t, "done")
  /\ saved' = [r \in Rows |-> {}]
  /\ job' = IF Mutates(t) THEN NoJobs ELSE job
  /\ UNCHANGED <<row, last, others, mutation>>

(* Fields of a mutation run in turn, and a context serves one principal at a time. *)
Start(t) ==
  /\ at[t] = "new"
  /\ Kind(t) = "create" => \E r \in Rows : row[r].state = "free"
  /\ \A u \in Tasks : Running(u) => ~Mutates(u) /\ ~Mutates(t) /\ request[u].by = request[t].by
  /\ Mutates(t) => ~Working
  /\ To(t, IF Kind(t) \in Finds THEN "read" ELSE "own")
  /\ holder' = InheritScopeMemo(t)
  /\ IF Mutates(t) THEN mutation' = t /\ job' = NoJobs ELSE UNCHANGED jobs
  /\ UNCHANGED <<config, table, stage, answer, said, filter, history>>

Asks(t) ==
  LET op == IF at[t] = "own" THEN OpOf(t) ELSE "read"
  IN  /\ at[t] \in {"own", "read"}
      /\ ScopeFor(t, op)
      /\ UNCHANGED <<config, table, at, filter, jobs, history>>

AwaitedSays(t, what) ==
  at[t] \in {"own", "read"} /\ Says(t, IF at[t] = "own" THEN OpOf(t) ELSE "read", what)

(* A scope that denies: an empty page, or what onScopeMiss says.           *)
ScopeMiss(t) ==
  /\ AwaitedSays(t, "deny")
  /\ IF Mutates(t) /\ OnScopeMiss = "throw" THEN Fails(t, job) ELSE Ends(t)
  /\ UNCHANGED <<config, memo, filter, history>>

(* A scope that cannot be expressed: its promise is rejected for everyone. *)
Misconfigured(t) ==
  /\ AwaitedSays(t, "fail")
  /\ Fails(t, job)
  /\ UNCHANGED <<config, memo, filter, history>>

(* reassertRowScope, behind a definition's hook that may have rewritten the filter. *)
Reasserted(t, owners) == owners \cap Scope(t, "read").where

(* resolveFindAll merges the scope into the filter of the request, and     *)
(* again into what the hook leaves.  A query of the host's own gets none.  *)
BuildQuery(t) ==
  /\ at[t] = "read" /\ Kind(t) \in Finds /\ Says(t, "read", "allow")
  /\ To(t, "query")
  /\ filter' = [filter EXCEPT ![t] =
       IF Kind(t) = "rawFind" THEN request[t].wants
       ELSE IF request[t].rewrites THEN Reasserted(t, request[t].wants)
       ELSE request[t].wants \cap Scope(t, "read").where]
  /\ UNCHANGED <<config, table, memo, jobs, history>>

(* beforeFind and beforeCount, which an adapter may fire.                  *)
Hooked(t) == IF hooked THEN filter[t] \cap Scope(t, "read").where ELSE filter[t]

(* The rows and then the total are asked for.                              *)
Query(t) ==
  /\ at[t] \in {"query", "count"}
  /\ page' = [page EXCEPT ![t] = @ \cup OwnersOf(Matching(Hooked(t), "live"))]
  /\ IF at[t] = "query" THEN To(t, "count") /\ UNCHANGED <<table, jobs>> ELSE Ends(t)
  /\ UNCHANGED <<config, memo, filter, reached>>

OwnScopeKnown(t) ==
  /\ at[t] = "own" /\ Kind(t) # "create" /\ Says(t, OpOf(t), "allow")
  /\ To(t, "read")
  /\ UNCHANGED <<config, table, memo, filter, jobs, history>>

(* The rows a write is about; the hook of a find looks the same scope up.  *)
FindRows(t) ==
  /\ at[t] = "read" /\ Mutates(t) /\ Says(t, "read", "allow")
  /\ LET found == Matching(request[t].wants \cap ScopedWriteWhere(t),
                           IF Kind(t) = "restore" THEN "deleted" ELSE "live")
     IN  /\ job' = [r \in Rows |-> IF r \notin found THEN "none"
                                   ELSE IF Kind(t) = "select" THEN "written" ELSE "found"]
         /\ reached' = [reached EXCEPT ![t] = OwnersOf(found)]
  /\ filter' = [filter EXCEPT ![t] = request[t].wants \cap ScopedWriteWhere(t)]
  /\ To(t, "rows")
  /\ UNCHANGED <<config, table, memo, mutation, page>>

(* update starts its rows together, delete and restore await each.         *)
MayStart(t, r) == Kind(t) = "update" \/ \A q \in Rows \ {r} : job[q] \in {"none", "found", "written"}

(* After a throw of a sibling, a row goes on only outside a unit of work.  *)
InHand(t) == mutation = t /\ (at[t] = "rows" \/ (at[t] = "failed" /\ ~transactional))

Done(r) == [job EXCEPT ![r] = "written"]

(* The input of the row: forced values, the definition's hook, transforms. *)
RowInput(t, r) ==
  /\ InHand(t) /\ job[r] = "found" /\ MayStart(t, r)
  /\ IF Kind(t) = "update" /\ Conflicts(t)
     THEN Fails(t, Done(r))
     ELSE job' = [job EXCEPT ![r] = "ready"] /\ UNCHANGED <<table, mutation, at>>
  /\ UNCHANGED <<config, memo, filter, history>>

(* beforeUpdate, beforeDestroy, beforeRestore look the row up under both scopes. *)
RowHook(t, r) ==
  /\ InHand(t) /\ hooked /\ job[r] = "ready"
  /\ IF row[r].owner \in ScopedWriteWhere(t) /\ (row[r].state = "live" \/ Kind(t) = "restore")
     THEN /\ job' = [job EXCEPT ![r] = "checked"]
          /\ reached' = [reached EXCEPT ![t] = @ \cup {row[r].owner}]
          /\ UNCHANGED <<table, mutation, at>>
     ELSE Fails(t, Done(r)) /\ UNCHANGED reached
  /\ UNCHANGED <<config, memo, filter, page>>

Write(t, r, new) ==
  /\ row' = [row EXCEPT ![r] = new]
  /\ saved' = IF transactional /\ saved[r] = {} THEN [saved EXCEPT ![r] = {row[r]}] ELSE saved
  /\ last' = [last EXCEPT ![r] = t]
  /\ job' = Done(r)
  /\ UNCHANGED <<others, mutation>>

RowWrite(t, r) ==
  /\ InHand(t) /\ job[r] = IF hooked THEN "checked" ELSE "ready"
  /\ Write(t, r, CASE Kind(t) = "delete" -> [row[r] EXCEPT !.state = "deleted"]
                   [] Kind(t) = "restore" -> [row[r] EXCEPT !.state = "live"]
                   [] OTHER -> IF Written(t) = NoValue THEN row[r]
                               ELSE [row[r] EXCEPT !.owner = Written(t)])
  /\ UNCHANGED <<config, memo, at, filter, history>>

(* A create forces the owner and writes a row; a value that disagrees throws. *)
Create(t, r) ==
  /\ at[t] = "own" /\ Kind(t) = "create" /\ Says(t, "create", "allow")
  /\ row[r].state = "free" /\ Written(t) # NoValue
  /\ IF Conflicts(t)
     THEN Fails(t, job)
     ELSE Write(t, r, [state |-> "live", owner |-> Written(t)]) /\ To(t, "rows")
  /\ UNCHANGED <<config, memo, filter, history>>

(* The rows are looked at again under the scope, and the mutation returns. *)
AssertRowsInScope(t) ==
  LET rows == {r \in Rows : job[r] = "written"}
  IN  /\ at[t] = "rows" /\ ~Working
      /\ IF Kind(t) \in {"delete", "select"} \/ rows = {} \/ RowsInScope(t, rows)
         THEN Ends(t)
         ELSE Fails(t, job)
      /\ UNCHANGED <<config, memo, filter, history>>

(* Somebody else writes a row that no unit of work holds.                  *)
OthersWrite(r) ==
  /\ others < MaxOthers /\ saved[r] = {} /\ row[r].state # "free"
  /\ \E o \in Owners : row' = [row EXCEPT ![r].owner = o]
  /\ others' = others + 1
  /\ last' = [last EXCEPT ![r] = NoValue]
  /\ UNCHANGED <<config, saved, memo, at, filter, jobs, history>>

AllDone == (\A t \in Tasks : ~Running(t)) /\ ~Working /\ UNCHANGED vars

Init ==
  /\ \E a \in Adapters : hooked = a[1] /\ transactional = a[2]
  /\ request \in Requests
  /\ \A t \in Tasks : Kind(t) = "rawFind" => hooked
  /\ row \in StartTables
  /\ saved = [r \in Rows |-> {}]
  /\ holder = [c \in Contexts |-> NoMemo]
  /\ stage = [c \in Contexts |-> [k \in Keys |-> "none"]]
  /\ answer = [c \in Contexts |-> [k \in Keys |-> NoValue]]
  /\ at = [t \in Tasks |-> "new"]
  /\ filter = [t \in Tasks |-> {}]
  /\ mutation = NoValue /\ job = NoJobs
  /\ page = [t \in Tasks |-> {}] /\ reached = [t \in Tasks |-> {}]
  /\ said = [k \in Keys |-> {}]
  /\ last = [r \in Rows |-> NoValue]
  /\ others = 0

Step(t) ==
  \/ Start(t) \/ Asks(t) \/ ScopeMiss(t) \/ Misconfigured(t)
  \/ BuildQuery(t) \/ Query(t)
  \/ OwnScopeKnown(t) \/ FindRows(t) \/ AssertRowsInScope(t)
  \/ \E r \in Rows : RowInput(t, r) \/ RowHook(t, r) \/ RowWrite(t, r) \/ Create(t, r)

Next ==
  \/ \E t \in Tasks : Step(t)
  \/ \E c \in Contexts, k \in Keys : PredicateAnswers(c, k)
  \/ \E r \in Rows : OthersWrite(r)
  \/ AllDone

(* Code that can go on goes on, and predicates answer.                     *)
Fairness ==
  /\ \A t \in Tasks : WF_vars(Step(t))
  /\ \A c \in Contexts, k \in Keys : WF_vars(PredicateAnswers(c, k))

Spec == Init /\ [][Next]_vars /\ Fairness

-------------------------------------------------------------------------------

TypeOK ==
  /\ hooked \in BOOLEAN /\ transactional \in BOOLEAN /\ request \in Requests
  /\ row \in Tables /\ saved \in [Rows -> SUBSET RowStates]
  /\ holder \in [Contexts -> Contexts \cup {NoMemo}]
  /\ stage \in [Contexts -> [Keys -> Principals \cup {"none", "settled"}]]
  /\ answer \in [Contexts -> [Keys -> Answers \cup {NoValue}]]
  /\ said \in [Keys -> SUBSET Answers]
  /\ at \in [Tasks -> {"new", "own", "read", "query", "count", "rows", "done", "failed"}]
  /\ filter \in [Tasks -> SUBSET Owners]
  /\ mutation \in Tasks \cup {NoValue}
  /\ job \in [Rows -> {"none", "found", "ready", "checked", "written"}]
  /\ page \in [Tasks -> SUBSET Owners] /\ reached \in [Tasks -> SUBSET Owners]
  /\ last \in [Rows -> Tasks \cup {NoValue}] /\ others \in Nat

(* What the predicate has said to the principal of a task.                 *)
Told(t, op) == said[<<request[t].by, op>>]

(* A task is shown and counts only rows that one answer of the predicate,  *)
(* to its own principal, lets through, whatever hook rewrote its query     *)
(* (scope.ts memo keys, scope-bridge.ts reassertRowScope, scope-hooks.ts). *)
OnlyVisibleRows ==
  \A t \in Tasks : page[t] # {} =>
    \E a \in Told(t, "read") : a.says = "allow" /\ page[t] \subseteq a.where

(* A write reaches only rows its principal may read and may write, on each *)
(* look at them before they were written (scopedWriteWhere, writable).     *)
WritesReachable ==
  \A t \in Tasks : reached[t] # {} =>
    \E a \in Told(t, "read"), b \in Told(t, OpOf(t)) : reached[t] \subseteq a.where \cap b.where

(* When a create, an update or a restore has returned, no row it was the   *)
(* last to write is outside the scope; one that failed in a unit of work   *)
(* has left no row behind (assertRowsInScope, processInputs).              *)
LandsInside ==
  \A t \in Tasks, r \in Rows : last[r] = t =>
    /\ at[t] = "done" /\ Kind(t) # "delete" => row[r].owner \in Landing(t)
    /\ at[t] = "failed" => ~transactional

(* A write starts from rows in scope and leaves its rows in scope.         *)
WritesStayInScope == WritesReachable /\ LandsInside

(* Every task of a request ends: no predicate waits for itself, and no     *)
(* task for a promise nobody keeps (scope.ts RESOLVING).                   *)
EveryTaskEnds == \A t \in Tasks : at[t] # "new" ~> Ended(t)
===============================================================================
