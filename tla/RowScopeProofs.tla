---------------------------- MODULE RowScopeProofs ----------------------------
(***************************************************************************)
(* Proofs about RowScope, for any request, principals, predicates, rows    *)
(* and adapter: whatever the tasks, the predicate and others interleave, a *)
(* task is shown only rows in its scope, and a write starts and ends there.*)
(***************************************************************************)
EXTENDS RowScope, TLAPS

-------------------------------------------------------------------------------
(* The invariant *)

(* Both scopes a write of found rows is under have been resolved to allow. *)
Known(t) == Says(t, OpOf(t), "allow") /\ Says(t, "read", "allow")
Ready(t) == IF Kind(t) = "create" THEN Says(t, "create", "allow") ELSE Known(t)

(* A memo lives in the context that made it, a promise is resolved by the  *)
(* predicate for the principal of its key, and the answer was given.       *)
Remembers ==
  /\ \A c \in Contexts, k \in Keys : stage[c][k] # "none" => holder[c] = c
  /\ \A c \in Contexts :
       holder[c] # NoMemo => holder[c] \in {c, Request} /\ holder[holder[c]] = holder[c]
  /\ \A c \in Contexts, k \in Keys : stage[c][k] \in Principals => stage[c][k] = k[1]
  /\ \A c \in Contexts, k \in Keys : stage[c][k] = "settled" => answer[c][k] \in said[k]
  /\ \A t \in Tasks : at[t] = "new" => holder[t] = NoMemo

(* A mutation runs alone, and the jobs are those of the last to start.     *)
InTurn ==
  /\ \A t, u \in Tasks : Running(t) /\ Running(u) /\ t # u => ~Mutates(t)
  /\ \A t \in Tasks : Running(t) /\ Mutates(t) => mutation = t
  /\ mutation # NoValue => Mutates(mutation) /\ at[mutation] # "new"

(* How far a task is says which scopes it has been allowed under.          *)
Allowed ==
  \A t \in Tasks :
    /\ at[t] \in {"query", "count"} => Kind(t) \in Finds /\ Says(t, "read", "allow")
    /\ at[t] \in {"own", "rows"} => Mutates(t)
    /\ at[t] = "read" /\ Mutates(t) => Kind(t) # "create" /\ Says(t, OpOf(t), "allow")
    /\ at[t] = "rows" => Ready(t)

Shown ==
  \A t \in Tasks :
    /\ page[t] # {} => /\ at[t] # "new" /\ Says(t, "read", "allow")
                       /\ page[t] \subseteq Scope(t, "read").where
    /\ at[t] \in {"query", "count"} => Kind(t) = "rawFind" \/ filter[t] \subseteq Scope(t, "read").where
    /\ Kind(t) = "rawFind" => hooked

Reaches ==
  \A t \in Tasks : reached[t] # {} =>
    at[t] # "new" /\ Known(t) /\ reached[t] \subseteq ScopedWriteWhere(t)

Jobs ==
  \A r \in Rows : job[r] # "none" =>
    /\ mutation # NoValue /\ at[mutation] \in {"rows", "failed"}
    /\ job[r] # "written" => Kind(mutation) \notin {"create", "select"} /\ Known(mutation)

Landed ==
  \A t \in Tasks, r \in Rows : last[r] = t =>
    /\ Mutates(t) /\ Kind(t) # "select" /\ at[t] \in {"rows", "done", "failed"}
    /\ at[t] = "rows" => job[r] = "written" /\ (transactional => saved[r] # {})
    /\ at[t] = "done" => Ready(t) /\ (Kind(t) # "delete" => row[r].owner \in Landing(t))
    /\ at[t] = "failed" => ~transactional

Inv == TypeOK /\ Remembers /\ InTurn /\ Allowed /\ Shown /\ Reaches /\ Jobs /\ Landed

-------------------------------------------------------------------------------
(* What a task asks is fixed, and of a known kind.                         *)

LEMMA Asked ==
  ASSUME TypeOK, NEW t \in Tasks
  PROVE  /\ Kind(t) \in Mutations \cup Finds /\ OpOf(t) \in Ops
         /\ Mutates(t) <=> Kind(t) \notin Finds
         /\ request[t].by \in Principals /\ request[t].wants \subseteq Owners
         /\ request[t].value \in Owners \cup {NoValue} /\ request[t].rewrites \in BOOLEAN
         /\ Ctx(t) \in {t, Request} /\ Ctx(t) \in Contexts
         /\ \A op \in Ops : KeyOf(t, op) = <<request[t].by, op>> /\ KeyOf(t, op) \in Keys
<1>1. request[t] \in [kind : Mutations \cup Finds, by : Principals, wants : SUBSET Owners,
                      value : Owners \cup {NoValue}, rewrites : BOOLEAN]
  BY RowScopeAssumption DEF TypeOK
<1>2. Kind(t) \in Mutations \cup Finds BY <1>1 DEF Kind
<1>3. OpOf(t) \in Ops /\ (Mutates(t) <=> Kind(t) \notin Finds)
  BY <1>2 DEF OpOf, Ops, Mutates, Mutations, Finds
<1> QED BY <1>1, <1>2, <1>3 DEF Ctx, Contexts, KeyOf, Keys

LEMMA ConfigKept ==
  ASSUME Next
  PROVE  /\ UNCHANGED config
         /\ \A t \in Tasks : /\ Kind(t)' = Kind(t) /\ OpOf(t)' = OpOf(t) /\ (Mutates(t)' <=> Mutates(t))
                             /\ Ctx(t)' = Ctx(t) /\ \A op : KeyOf(t, op)' = KeyOf(t, op)
<1>1. UNCHANGED config
  <2>1. ASSUME NEW t \in Tasks, Step(t) PROVE UNCHANGED config
    BY <2>1 DEF Step, Start, Asks, ScopeMiss, Misconfigured, BuildQuery, Query, OwnScopeKnown, FindRows,
                AssertRowsInScope, RowInput, RowHook, RowWrite, Create
  <2>2. ASSUME NEW c \in Contexts, NEW k \in Keys, PredicateAnswers(c, k) PROVE UNCHANGED config
    BY <2>2 DEF PredicateAnswers
  <2>3. ASSUME NEW r \in Rows, OthersWrite(r) PROVE UNCHANGED config
    BY <2>3 DEF OthersWrite
  <2> QED BY <2>1, <2>2, <2>3 DEF Next, AllDone, vars
<1>2. UNCHANGED <<hooked, transactional, request>>
  BY <1>1 DEF config
<1> QED BY <1>1, <1>2 DEF Kind, OpOf, Mutates, Ctx, KeyOf

(* No task is new again.                                                   *)
LEMMA NeverNewAgain ==
  ASSUME TypeOK, Next, NEW t \in Tasks, at[t] # "new"
  PROVE  at'[t] # "new"
<1>1. ASSUME NEW u \in Tasks, Step(u) PROVE at'[t] # "new"
  <2>1. at' = at \/ \E x \in {"own", "read", "query", "count", "rows", "done", "failed"} : To(u, x)
    BY <1>1 DEF Step, Start, Asks, ScopeMiss, Misconfigured, BuildQuery, Query, OwnScopeKnown, FindRows,
                AssertRowsInScope, RowInput, RowHook, RowWrite, Create, Fails, Ends
  <2> QED BY <2>1 DEF To, TypeOK
<1>2. ASSUME NEW c \in Contexts, NEW k \in Keys, PredicateAnswers(c, k) PROVE at' = at
  BY <1>2 DEF PredicateAnswers
<1>3. ASSUME NEW r \in Rows, OthersWrite(r) PROVE at' = at
  BY <1>3 DEF OthersWrite
<1> QED BY <1>1, <1>2, <1>3 DEF Next, AllDone, vars

-------------------------------------------------------------------------------
(* The memo *)

(* What a step does to the memos: nothing, or a task carries the memo of   *)
(* the request on, starts a predicate, or a predicate answers.             *)
LEMMA MemoStep ==
  ASSUME TypeOK, Next
  PROVE  \/ UNCHANGED memo
         \/ \E t \in Tasks : at[t] = "new" /\ at'[t] # "new" /\ holder' = InheritScopeMemo(t)
                             /\ UNCHANGED <<stage, answer, said>>
         \/ \E t \in Tasks, op \in Ops : at[t] # "new" /\ ScopeFor(t, op)
         \/ \E c \in Contexts, k \in Keys : PredicateAnswers(c, k)
<1>1. ASSUME NEW t \in Tasks, Start(t)
      PROVE  at[t] = "new" /\ at'[t] # "new" /\ holder' = InheritScopeMemo(t)
             /\ UNCHANGED <<stage, answer, said>>
  BY <1>1 DEF Start, To, TypeOK
<1>2. ASSUME NEW t \in Tasks, Asks(t) PROVE \E op \in Ops : at[t] # "new" /\ ScopeFor(t, op)
  <2>1. OpOf(t) \in Ops /\ "read" \in Ops BY Asked DEF Ops
  <2> QED BY <1>2, <2>1 DEF Asks
<1>3. ASSUME NEW t \in Tasks, Step(t) PROVE Start(t) \/ Asks(t) \/ UNCHANGED memo
  BY <1>3 DEF Step, ScopeMiss, Misconfigured, BuildQuery, Query, OwnScopeKnown, FindRows,
              AssertRowsInScope, RowInput, RowHook, RowWrite, Create
<1>4. ASSUME NEW r \in Rows, OthersWrite(r) PROVE UNCHANGED memo
  BY <1>4 DEF OthersWrite
<1>5. AllDone => UNCHANGED memo BY DEF AllDone, vars
<1> QED BY <1>1, <1>2, <1>3, <1>4, <1>5 DEF Next

(* The context whose memo a scope of a task is in.                         *)
LEMMA Memo ==
  ASSUME TypeOK, Remembers, NEW t \in Tasks, NEW op \in Ops, Answered(t, op)
  PROVE  /\ holder[Ctx(t)] \in Contexts /\ holder[holder[Ctx(t)]] = holder[Ctx(t)]
         /\ stage[holder[Ctx(t)]][KeyOf(t, op)] = "settled" /\ KeyOf(t, op) \in Keys
         /\ holder[Ctx(t)] # NoMemo
         /\ Scope(t, op) = answer[holder[Ctx(t)]][KeyOf(t, op)]
<1>1. Ctx(t) \in Contexts /\ KeyOf(t, op) \in Keys BY Asked
<1>2. holder[Ctx(t)] # NoMemo /\ stage[holder[Ctx(t)]][KeyOf(t, op)] = "settled"
  BY DEF Answered, Stage
<1> QED BY <1>1, <1>2 DEF TypeOK, Remembers, Scope

(* A scope once resolved stays what it is, for the rest of the request.    *)
LEMMA Kept ==
  ASSUME TypeOK, Remembers, Next,
         NEW t \in Tasks, NEW op \in Ops, at[t] # "new", Answered(t, op)
  PROVE  Answered(t, op)' /\ Scope(t, op)' = Scope(t, op)
<1> DEFINE d == holder[Ctx(t)]  k == KeyOf(t, op)
<1>1. /\ d \in Contexts /\ holder[d] = d /\ stage[d][k] = "settled" /\ k \in Keys
      /\ d # NoMemo /\ Ctx(t) \in Contexts /\ Ctx(t) \in {t, Request}
      /\ Ctx(t)' = Ctx(t) /\ KeyOf(t, op)' = k
  BY Memo, Asked, ConfigKept
<1>2. ASSUME holder'[Ctx(t)] = d, stage'[d][k] = "settled", answer'[d][k] = answer[d][k]
      PROVE  Answered(t, op)' /\ Scope(t, op)' = Scope(t, op)
  BY <1>1, <1>2 DEF Answered, Stage, Scope
<1>3. CASE UNCHANGED memo
  BY <1>1, <1>2, <1>3 DEF memo
<1>4. CASE \E u \in Tasks : at[u] = "new" /\ holder' = InheritScopeMemo(u)
                            /\ UNCHANGED <<stage, answer, said>>
  <2> PICK u \in Tasks : at[u] = "new" /\ holder' = InheritScopeMemo(u) /\ UNCHANGED <<stage, answer>>
    BY <1>4
  <2>1. u # Request /\ u # t BY RowScopeAssumption
  <2>2. holder'[Ctx(t)] = d BY <1>1, <2>1 DEF InheritScopeMemo, TypeOK
  <2> QED BY <1>1, <1>2, <2>2
<1>5. CASE \E u \in Tasks, o \in Ops : ScopeFor(u, o)
  <2> PICK u \in Tasks, o \in Ops : ScopeFor(u, o) BY <1>5
  <2> DEFINE e == holder[Ctx(u)]  j == KeyOf(u, o)  c == IF e = NoMemo THEN Ctx(u) ELSE e
  <2>1. /\ Ctx(u) \in Contexts /\ j \in Keys /\ c \in Contexts
        /\ holder' = [holder EXCEPT ![Ctx(u)] = c]
        /\ stage' = [stage EXCEPT ![c][j] = request[u].by]
        /\ answer' = answer
        /\ (e = NoMemo \/ stage[e][j] = "none")
    BY Asked DEF ScopeFor, Stage, TypeOK
  <2>2. holder'[Ctx(t)] = d
    BY <1>1, <2>1 DEF TypeOK
  <2>3. ~(c = d /\ j = k)
    BY <1>1, <2>1
  <2>4. stage'[d][k] = stage[d][k]
    BY <1>1, <2>1, <2>3 DEF TypeOK
  <2> QED BY <1>1, <1>2, <2>1, <2>2, <2>4
<1>6. CASE \E c \in Contexts, j \in Keys : PredicateAnswers(c, j)
  <2> PICK c \in Contexts, j \in Keys : PredicateAnswers(c, j) BY <1>6
  <2>1. PICK a \in Answers : answer' = [answer EXCEPT ![c][j] = a]
    BY DEF PredicateAnswers
  <2>2. holder' = holder /\ stage' = [stage EXCEPT ![c][j] = "settled"] /\ stage[c][j] \in Principals
    BY DEF PredicateAnswers
  <2>3. ~(c = d /\ j = k)
    BY <1>1, <2>2, RowScopeAssumption
  <2>4. stage'[d][k] = stage[d][k] /\ answer'[d][k] = answer[d][k]
    BY <1>1, <2>1, <2>2, <2>3 DEF TypeOK
  <2> QED BY <1>1, <1>2, <2>2, <2>4
<1> QED BY <1>3, <1>4, <1>5, <1>6, MemoStep

(* So what a task was allowed under is what its rows are held against.     *)
LEMMA StaysAllowed ==
  ASSUME TypeOK, Remembers, Next, NEW t \in Tasks, at[t] # "new"
  PROVE  /\ \A op \in Ops : Says(t, op, "allow") => Says(t, op, "allow")'
         /\ Says(t, "read", "allow") => Scope(t, "read")' = Scope(t, "read")
         /\ Known(t) => Known(t)' /\ ScopedWriteWhere(t)' = ScopedWriteWhere(t)
         /\ Ready(t) => Ready(t)' /\ Landing(t)' = Landing(t)
<1>1. \A op \in Ops : Answered(t, op) => Answered(t, op)' /\ Scope(t, op)' = Scope(t, op)
  BY Kept
<1>2. OpOf(t) \in Ops /\ OpOf(t)' = OpOf(t) /\ Kind(t)' = Kind(t) /\ "read" \in Ops /\ "create" \in Ops
  BY Asked, ConfigKept DEF Ops
<1>3. \A op \in Ops : Says(t, op, "allow") => Says(t, op, "allow")' /\ Scope(t, op)' = Scope(t, op)
  BY <1>1 DEF Says
<1>4. Known(t) => Known(t)' /\ ScopedWriteWhere(t)' = ScopedWriteWhere(t)
  BY <1>2, <1>3 DEF Known, ScopedWriteWhere
<1>5. Ready(t) => Ready(t)' /\ Landing(t)' = Landing(t)
  BY <1>2, <1>3, <1>4 DEF Ready, Landing
<1> QED BY <1>2, <1>3, <1>4, <1>5

(* What a promise was kept with is an answer of the predicate, to the      *)
(* principal of the task.                                                  *)
LEMMA AnswerGiven ==
  ASSUME TypeOK, Remembers, NEW t \in Tasks, NEW op \in Ops, Answered(t, op)
  PROVE  /\ Scope(t, op) \in Told(t, op) /\ Scope(t, op) \in Answers
         /\ Scope(t, op).where \subseteq Owners /\ Scope(t, op).set \in Owners \cup {NoValue}
<1>1. Scope(t, op) \in said[KeyOf(t, op)] /\ KeyOf(t, op) \in Keys
  BY Memo DEF Remembers
<1>2. KeyOf(t, op) = <<request[t].by, op>> BY Asked
<1>3. Scope(t, op) \in Told(t, op) /\ Scope(t, op) \in Answers
  BY <1>1, <1>2 DEF Told, TypeOK
<1> QED BY <1>3, RowScopeAssumption

(* A new memo is made by the context that asks, a promise is pending for   *)
(* the principal of its key, and kept with what the predicate said.        *)
LEMMA RemembersKept ==
  ASSUME TypeOK, Remembers, Next
  PROVE  Remembers'
<1>1. \A t \in Tasks : at[t] # "new" => at'[t] # "new" BY NeverNewAgain
<1> SUFFICES
      /\ \A c \in Contexts, k \in Keys : stage'[c][k] # "none" => holder'[c] = c
      /\ \A c \in Contexts :
           holder'[c] # NoMemo => holder'[c] \in {c, Request} /\ holder'[holder'[c]] = holder'[c]
      /\ \A c \in Contexts, k \in Keys : stage'[c][k] \in Principals => stage'[c][k] = k[1]
      /\ \A c \in Contexts, k \in Keys : stage'[c][k] = "settled" => answer'[c][k] \in said'[k]
      /\ \A t \in Tasks : at'[t] = "new" => holder'[t] = NoMemo
  BY DEF Remembers
<1>2. CASE UNCHANGED memo
  BY <1>1, <1>2 DEF memo, Remembers
<1>3. CASE \E t \in Tasks : at[t] = "new" /\ at'[t] # "new" /\ holder' = InheritScopeMemo(t)
                            /\ UNCHANGED <<stage, answer, said>>
  <2> PICK t \in Tasks : /\ at[t] = "new" /\ at'[t] # "new" /\ holder' = InheritScopeMemo(t)
                         /\ UNCHANGED <<stage, answer, said>>
    BY <1>3
  <2>1. t # Request /\ t # NoMemo /\ t \in Contexts /\ Request \in Contexts /\ Request # NoMemo
    BY RowScopeAssumption DEF Contexts
  <2>2. holder[t] = NoMemo BY DEF Remembers
  <2>3. holder[Request] \in {NoMemo, Request} BY <2>1 DEF Remembers
  <2>4. holder' = holder \/ holder' = [holder EXCEPT ![t] = holder[Request]]
    BY DEF InheritScopeMemo
  <2>5. \A c \in Contexts : holder'[c] = holder[c] \/ (c = t /\ holder'[c] = holder[Request])
    BY <2>4 DEF TypeOK
  <2>6. \A c \in Contexts, k \in Keys : stage'[c][k] # "none" => c # t /\ holder'[c] = c
    BY <2>1, <2>2, <2>5 DEF Remembers
  <2>7. \A c \in Contexts :
           holder'[c] # NoMemo => holder'[c] \in {c, Request} /\ holder'[holder'[c]] = holder'[c]
    BY <2>1, <2>2, <2>3, <2>5 DEF Remembers, TypeOK
  <2>8. \A u \in Tasks : at'[u] = "new" => holder'[u] = NoMemo
    BY <1>1, <2>5 DEF Remembers, Contexts
  <2> QED BY <2>6, <2>7, <2>8 DEF Remembers
<1>4. CASE \E t \in Tasks, op \in Ops : at[t] # "new" /\ ScopeFor(t, op)
  <2> PICK t \in Tasks, op \in Ops : at[t] # "new" /\ ScopeFor(t, op) BY <1>4
  <2> DEFINE x == Ctx(t)  k == KeyOf(t, op)  c == IF holder[x] = NoMemo THEN x ELSE holder[x]
  <2>1. /\ x \in Contexts /\ x \in {t, Request} /\ k \in Keys /\ k[1] = request[t].by
        /\ request[t].by \in Principals
    BY Asked
  <2>2. /\ holder' = [holder EXCEPT ![x] = c]
        /\ stage' = [stage EXCEPT ![c][k] = request[t].by]
        /\ answer' = answer /\ said' = said
    BY DEF ScopeFor
  <2>3. c \in Contexts /\ c # NoMemo /\ c \in {x, Request} /\ (c # x => holder[c] = c /\ holder[x] = c)
    BY <2>1, RowScopeAssumption DEF Remembers, TypeOK
  <2>4. \A b \in Contexts : holder'[b] = IF b = x THEN c ELSE holder[b]
    BY <2>1, <2>2 DEF TypeOK
  <2>5. \A b \in Contexts, j \in Keys :
           stage'[b][j] = IF b = c /\ j = k THEN request[t].by ELSE stage[b][j]
    BY <2>1, <2>2, <2>3 DEF TypeOK
  <2>6. holder'[c] = c BY <2>3, <2>4
  <2>7. \A b \in Contexts, j \in Keys : stage'[b][j] # "none" => holder'[b] = b
    <3> TAKE b \in Contexts, j \in Keys
    <3> HAVE stage'[b][j] # "none"
    <3>1. CASE b = c BY <2>6, <3>1
    <3>2. CASE b # c
      <4>1. holder[b] = b BY <2>5, <3>2 DEF Remembers
      <4>2. b # x \/ holder[x] = NoMemo \/ holder[x] = x BY <4>1
      <4>3. b # x BY <3>2, <4>1, RowScopeAssumption
      <4> QED BY <2>4, <4>1, <4>3
    <3> QED BY <3>1, <3>2
  <2>8. \A b \in Contexts :
           holder'[b] # NoMemo => holder'[b] \in {b, Request} /\ holder'[holder'[b]] = holder'[b]
    <3> TAKE b \in Contexts
    <3> HAVE holder'[b] # NoMemo
    <3>1. CASE b = x BY <2>3, <2>4, <2>6, <3>1
    <3>2. CASE b # x
      <4>1. holder'[b] = holder[b] /\ holder[b] \in {b, Request} /\ holder[holder[b]] = holder[b]
        BY <2>4, <3>2 DEF Remembers
      <4>2. holder[b] \in Contexts /\ holder[b] # NoMemo BY <2>4, <3>2 DEF TypeOK
      <4>3. CASE holder[b] = x
        <5>1. holder[x] = x BY <4>1, <4>3
        <5>2. c = x BY <2>1, <5>1, RowScopeAssumption
        <5> QED BY <2>4, <2>1, <4>1, <4>3, <5>2
      <4>4. CASE holder[b] # x BY <2>4, <4>1, <4>2, <4>4
      <4> QED BY <4>3, <4>4
    <3> QED BY <3>1, <3>2
  <2>9. \A b \in Contexts, j \in Keys : stage'[b][j] \in Principals => stage'[b][j] = j[1]
    BY <2>1, <2>5 DEF Remembers
  <2>10. \A b \in Contexts, j \in Keys : stage'[b][j] = "settled" => answer'[b][j] \in said'[j]
    BY <2>1, <2>2, <2>5, RowScopeAssumption DEF Remembers
  <2>11. \A u \in Tasks : at'[u] = "new" => holder'[u] = NoMemo
    <3>1. \A u \in Tasks : at'[u] = "new" => u # x /\ u \in Contexts
      BY <1>1, <2>1, RowScopeAssumption DEF Contexts
    <3> QED BY <1>1, <2>4, <3>1 DEF Remembers
  <2> QED BY <2>7, <2>8, <2>9, <2>10, <2>11
<1>5. CASE \E c \in Contexts, k \in Keys : PredicateAnswers(c, k)
  <2> PICK c \in Contexts, k \in Keys : PredicateAnswers(c, k) BY <1>5
  <2>1. PICK a \in Answers : /\ answer' = [answer EXCEPT ![c][k] = a]
                             /\ said' = [said EXCEPT ![<<stage[c][k], k[2]>>] = @ \cup {a}]
    BY DEF PredicateAnswers
  <2>2. /\ holder' = holder /\ at' = at /\ stage[c][k] \in Principals
        /\ stage' = [stage EXCEPT ![c][k] = "settled"]
    BY DEF PredicateAnswers
  <2>3. <<stage[c][k], k[2]>> = k BY <2>2 DEF Remembers, Keys
  <2>4. said' = [said EXCEPT ![k] = @ \cup {a}] BY <2>1, <2>3
  <2>5. \A b \in Contexts, j \in Keys :
           /\ stage'[b][j] = IF b = c /\ j = k THEN "settled" ELSE stage[b][j]
           /\ answer'[b][j] = IF b = c /\ j = k THEN a ELSE answer[b][j]
           /\ said[j] \subseteq said'[j] /\ a \in said'[k]
    BY <2>1, <2>2, <2>4 DEF TypeOK
  <2>6. \A b \in Contexts, j \in Keys : stage'[b][j] # "none" => holder'[b] = b
    BY <2>2, <2>5, RowScopeAssumption DEF Remembers
  <2>7. \A b \in Contexts, j \in Keys : stage'[b][j] \in Principals => stage'[b][j] = j[1]
    BY <2>5, RowScopeAssumption DEF Remembers
  <2>8. \A b \in Contexts, j \in Keys : stage'[b][j] = "settled" => answer'[b][j] \in said'[j]
    BY <2>5 DEF Remembers
  <2> QED BY <2>2, <2>6, <2>7, <2>8 DEF Remembers
<1> QED BY <1>2, <1>3, <1>4, <1>5, MemoStep

-------------------------------------------------------------------------------
(* Where a step takes a task *)

(* What a task goes on to, and what it has been told by then.              *)
LEMMA Moves ==
  ASSUME TypeOK, NEW t \in Tasks, Step(t)
  PROVE  /\ \A u \in Tasks \ {t} : at'[u] = at[u]
         /\ \/ at'[t] = at[t]
            \/ Start(t) /\ at'[t] = IF Mutates(t) THEN "own" ELSE "read"
            \/ at'[t] = "query" /\ at[t] = "read" /\ Kind(t) \in Finds /\ Says(t, "read", "allow")
            \/ at'[t] = "count" /\ at[t] = "query"
            \/ at'[t] = "read" /\ at[t] = "own" /\ Kind(t) # "create" /\ Says(t, OpOf(t), "allow")
            \/ at'[t] = "rows" /\ at[t] = "read" /\ Mutates(t) /\ Says(t, "read", "allow")
            \/ at'[t] = "rows" /\ at[t] = "own" /\ Kind(t) = "create" /\ Says(t, "create", "allow")
            \/ at'[t] \in {"done", "failed"} /\ at[t] # "new"
<1> DEFINE M(a, b) == at[t] = a /\ at' = [at EXCEPT ![t] = b]
<1>1. Start(t) => at' = [at EXCEPT ![t] = IF Mutates(t) THEN "own" ELSE "read"]
  BY Asked DEF Start, To
<1>2. Asks(t) => at' = at BY DEF Asks
<1>3. ScopeMiss(t) => \E a \in {"own", "read"}, b \in {"done", "failed"} : M(a, b)
  BY DEF ScopeMiss, AwaitedSays, Fails, Ends, To
<1>4. Misconfigured(t) => \E a \in {"own", "read"} : M(a, "failed")
  BY DEF Misconfigured, AwaitedSays, Fails, To
<1>5. BuildQuery(t) => M("read", "query") /\ Kind(t) \in Finds /\ Says(t, "read", "allow")
  BY DEF BuildQuery, To
<1>6. Query(t) => M("query", "count") \/ M("count", "done")
  BY DEF Query, Ends, To
<1>7. OwnScopeKnown(t) => M("own", "read") /\ Kind(t) # "create" /\ Says(t, OpOf(t), "allow")
  BY DEF OwnScopeKnown, To
<1>8. FindRows(t) => M("read", "rows") /\ Mutates(t) /\ Says(t, "read", "allow")
  BY DEF FindRows, To
<1>9. AssertRowsInScope(t) => M("rows", "done") \/ M("rows", "failed")
  BY DEF AssertRowsInScope, Fails, Ends, To
<1>10. ASSUME NEW r \in Rows, RowInput(t, r) \/ RowHook(t, r) \/ RowWrite(t, r)
       PROVE  at' = at \/ \E a \in {"rows", "failed"} : M(a, "failed")
  BY <1>10 DEF RowInput, RowHook, RowWrite, InHand, Fails, To
<1>11. ASSUME NEW r \in Rows, Create(t, r)
       PROVE  Kind(t) = "create" /\ Says(t, "create", "allow") /\ \E b \in {"rows", "failed"} : M("own", b)
  BY <1>11 DEF Create, Fails, To
<1>12. \A a, b : M(a, b) => at[t] = a /\ at'[t] = b /\ \A u \in Tasks \ {t} : at'[u] = at[u]
  BY DEF TypeOK
<1>13. at[t] = "new" => ~Start(t) \/ at'[t] = IF Mutates(t) THEN "own" ELSE "read"
  BY <1>1 DEF TypeOK
<1>14. Start(t) => at'[t] = (IF Mutates(t) THEN "own" ELSE "read") /\ \A u \in Tasks \ {t} : at'[u] = at[u]
  BY <1>1 DEF TypeOK
<1> HIDE DEF M
<1>15. CASE Start(t) BY <1>14, <1>15
<1>16. CASE Asks(t) BY <1>2, <1>16
<1>17. CASE ScopeMiss(t) \/ Misconfigured(t) BY <1>3, <1>4, <1>12, <1>17
<1>18. CASE BuildQuery(t) BY <1>5, <1>12, <1>18
<1>19. CASE Query(t) BY <1>6, <1>12, <1>19
<1>20. CASE OwnScopeKnown(t) BY <1>7, <1>12, <1>20
<1>21. CASE FindRows(t) BY <1>8, <1>12, <1>21
<1>22. CASE AssertRowsInScope(t) BY <1>9, <1>12, <1>22
<1>23. CASE \E r \in Rows : RowInput(t, r) \/ RowHook(t, r) \/ RowWrite(t, r)
  BY <1>10, <1>12, <1>23
<1>24. CASE \E r \in Rows : Create(t, r) BY <1>11, <1>12, <1>24
<1> QED BY <1>15, <1>16, <1>17, <1>18, <1>19, <1>20, <1>21, <1>22, <1>23, <1>24 DEF Step

(* Everybody else leaves the tasks where they are.                         *)
LEMMA OthersStay ==
  ASSUME Next
  PROVE  \/ \E t \in Tasks : Step(t)
         \/ UNCHANGED <<at, filter, mutation, job, page, reached>>
<1>1. ASSUME NEW c \in Contexts, NEW k \in Keys, PredicateAnswers(c, k)
      PROVE  UNCHANGED <<at, filter, mutation, job, page, reached>>
  BY <1>1 DEF PredicateAnswers, jobs, history
<1>2. ASSUME NEW r \in Rows, OthersWrite(r)
      PROVE  UNCHANGED <<at, filter, mutation, job, page, reached>>
  BY <1>2 DEF OthersWrite, jobs, history
<1> QED BY <1>1, <1>2 DEF Next, AllDone, vars, jobs, history

(* Only a mutation that starts becomes the one whose rows are worked on.   *)
LEMMA MutationStarts ==
  ASSUME NEW t \in Tasks, Step(t)
  PROVE  mutation' = mutation \/ (Start(t) /\ Mutates(t) /\ mutation' = t)
BY DEF Step, Start, Asks, ScopeMiss, Misconfigured, BuildQuery, Query, OwnScopeKnown, FindRows,
       AssertRowsInScope, RowInput, RowHook, RowWrite, Create, Fails, Ends, Write, jobs

LEMMA InTurnKept ==
  ASSUME TypeOK, InTurn, Next
  PROVE  InTurn'
<1>1. \A u \in Tasks : Mutates(u)' <=> Mutates(u) BY ConfigKept
<1>2. ASSUME UNCHANGED <<at, mutation>> PROVE InTurn'
  <2>1. \A u \in Tasks : Running(u)' <=> Running(u) BY <1>2 DEF Running, Ended
  <2>2. mutation # NoValue => mutation \in Tasks BY DEF TypeOK
  <2> QED BY <1>1, <1>2, <2>1, <2>2 DEF InTurn
<1>3. ASSUME NEW t \in Tasks, Step(t) PROVE InTurn'
  <2>1. \A u \in Tasks \ {t} : Running(u)' <=> Running(u)
    BY <1>3, Moves DEF Running, Ended
  <2>2. t # NoValue /\ (mutation # NoValue => mutation \in Tasks) BY RowScopeAssumption DEF TypeOK
  <2>3. CASE Start(t)
    <3>1. \A u \in Tasks : Running(u) => u # t /\ ~Mutates(u) /\ ~Mutates(t)
      BY <2>3 DEF Start, Running
    <3>2. \A u, v \in Tasks : Running(u)' /\ Running(v)' /\ u # v => ~Mutates(u)'
      BY <1>1, <2>1, <3>1
    <3>3. at'[t] # "new" /\ (Mutates(t) => mutation' = t)
      BY <1>3, <2>3, Moves DEF Start, TypeOK, To
    <3>4. mutation' = mutation \/ (Mutates(t) /\ mutation' = t)
      BY <1>3, MutationStarts
    <3>5. \A u \in Tasks : Running(u)' /\ Mutates(u)' => mutation' = u
      BY <1>1, <2>1, <3>1, <3>3
    <3>6. mutation' # NoValue => Mutates(mutation)' /\ at'[mutation'] # "new"
      <4>1. CASE mutation' = t BY <1>1, <2>2, <3>3, <3>4, <4>1 DEF InTurn, Mutates, Kind
      <4>2. CASE mutation' # t BY <1>1, <1>3, <2>2, <2>3, <3>4, <4>2, Moves DEF InTurn
      <4> QED BY <4>1, <4>2
    <3> QED BY <3>2, <3>5, <3>6 DEF InTurn
  <2>4. CASE ~Start(t)
    <3>1. mutation' = mutation BY <1>3, <2>4, MutationStarts
    <3>2. \A u \in Tasks : Running(u)' => Running(u)
      BY <1>3, <2>1, <2>4, Moves DEF Running, Ended
    <3>3. \A u \in Tasks : at[u] # "new" => at'[u] # "new" BY NeverNewAgain
    <3> QED BY <1>1, <2>2, <3>1, <3>2, <3>3 DEF InTurn
  <2> QED BY <2>3, <2>4
<1> QED BY <1>2, <1>3, OthersStay

LEMMA AllowedKept ==
  ASSUME TypeOK, Remembers, Allowed, Next
  PROVE  Allowed'
<1> SUFFICES ASSUME NEW t \in Tasks
    PROVE  /\ at'[t] \in {"query", "count"} => Kind(t)' \in Finds /\ Says(t, "read", "allow")'
           /\ at'[t] \in {"own", "rows"} => Mutates(t)'
           /\ at'[t] = "read" /\ Mutates(t)' => Kind(t)' # "create" /\ Says(t, OpOf(t), "allow")'
           /\ at'[t] = "rows" => Ready(t)'
  BY DEF Allowed
<1>1. /\ Kind(t)' = Kind(t) /\ OpOf(t)' = OpOf(t) /\ (Mutates(t)' <=> Mutates(t))
      /\ (Mutates(t) <=> Kind(t) \notin Finds) /\ OpOf(t) \in Ops /\ "read" \in Ops
  BY Asked, ConfigKept DEF Ops
<1>2. at[t] # "new" => /\ \A op \in Ops : Says(t, op, "allow") => Says(t, op, "allow")'
                       /\ Ready(t) => Ready(t)'
  BY StaysAllowed
<1>3. at[t] # "new" => (Says(t, OpOf(t), "allow") => Says(t, OpOf(t), "allow")')
  BY <1>1, <1>2
<1>4. CASE at'[t] = at[t]
  BY <1>1, <1>2, <1>3, <1>4 DEF Allowed
<1>5. CASE at'[t] # at[t]
  <2>1. Step(t) BY <1>5, OthersStay, Moves
  <2>2. "create" \notin Finds BY DEF Finds
  <2>3. \/ Start(t) /\ at'[t] = IF Mutates(t) THEN "own" ELSE "read"
        \/ at'[t] = "query" /\ at[t] = "read" /\ Kind(t) \in Finds /\ Says(t, "read", "allow")
        \/ at'[t] = "count" /\ at[t] = "query"
        \/ at'[t] = "read" /\ at[t] = "own" /\ Kind(t) # "create" /\ Says(t, OpOf(t), "allow")
        \/ at'[t] = "rows" /\ at[t] = "read" /\ Mutates(t) /\ Says(t, "read", "allow")
        \/ at'[t] = "rows" /\ at[t] = "own" /\ Kind(t) = "create" /\ Says(t, "create", "allow")
        \/ at'[t] \in {"done", "failed"} /\ at[t] # "new"
    BY <1>5, <2>1, Moves
  <2>4. at'[t] = "rows" => Ready(t) /\ Mutates(t) /\ at[t] # "new"
    BY <1>1, <2>2, <2>3 DEF Allowed, Ready, Known
  <2>5. at'[t] \in {"query", "count"} => Kind(t) \in Finds /\ Says(t, "read", "allow") /\ at[t] # "new"
    BY <2>3 DEF Allowed
  <2>6. at'[t] = "read" /\ Mutates(t) => Kind(t) # "create" /\ Says(t, OpOf(t), "allow") /\ at[t] # "new"
    BY <2>3
  <2>7. at'[t] = "own" => Mutates(t) BY <2>3
  <2> QED BY <1>1, <1>2, <1>3, <2>4, <2>5, <2>6, <2>7
<1> QED BY <1>4, <1>5

-------------------------------------------------------------------------------
(* What a task is shown, and what its write reaches *)

LEMMA ShownKept ==
  ASSUME TypeOK, Remembers, Allowed, Shown, Next
  PROVE  Shown'
<1> SUFFICES ASSUME NEW t \in Tasks
    PROVE  /\ page'[t] # {} => /\ at'[t] # "new" /\ Says(t, "read", "allow")'
                               /\ page'[t] \subseteq Scope(t, "read")'.where
           /\ at'[t] \in {"query", "count"} =>
                Kind(t)' = "rawFind" \/ filter'[t] \subseteq Scope(t, "read")'.where
           /\ Kind(t)' = "rawFind" => hooked'
  BY DEF Shown
<1>1. Kind(t)' = Kind(t) /\ "read" \in Ops /\ hooked' = hooked
  BY ConfigKept DEF Ops, config
<1>2. at[t] # "new" => /\ at'[t] # "new" /\ (Says(t, "read", "allow") => Says(t, "read", "allow")')
                       /\ (Says(t, "read", "allow") => Scope(t, "read")' = Scope(t, "read"))
  BY <1>1, StaysAllowed, NeverNewAgain
<1>3. CASE page'[t] = page[t] /\ filter'[t] = filter[t] /\ (at'[t] \in {"query", "count"} => at[t] = at'[t])
  BY <1>1, <1>2, <1>3 DEF Shown, Allowed
<1>4. CASE page'[t] = page[t] /\ at'[t] \notin {"query", "count"}
  BY <1>1, <1>2, <1>4 DEF Shown
<1>5. CASE BuildQuery(t)
  <2>1. /\ at'[t] = "query" /\ at[t] # "new" /\ Says(t, "read", "allow") /\ page'[t] = page[t]
        /\ filter'[t] = IF Kind(t) = "rawFind" THEN request[t].wants
                        ELSE IF request[t].rewrites THEN Reasserted(t, request[t].wants)
                        ELSE request[t].wants \cap Scope(t, "read").where
    BY <1>5 DEF BuildQuery, To, TypeOK, history
  <2>2. Kind(t) = "rawFind" \/ filter'[t] \subseteq Scope(t, "read").where
    BY <2>1 DEF Reasserted
  <2> QED BY <1>1, <1>2, <2>1, <2>2 DEF Shown
<1>6. CASE Query(t)
  <2>1. /\ at[t] \in {"query", "count"} /\ filter'[t] = filter[t]
        /\ page'[t] = page[t] \cup OwnersOf(Matching(Hooked(t), "live"))
    BY <1>6 DEF Query, TypeOK
  <2>2. Says(t, "read", "allow") BY <2>1 DEF Allowed
  <2>3. Hooked(t) \subseteq Scope(t, "read").where
    BY <2>1 DEF Hooked, Shown
  <2>4. OwnersOf(Matching(Hooked(t), "live")) \subseteq Hooked(t)
    BY DEF OwnersOf, Matching
  <2>5. page'[t] \subseteq Scope(t, "read").where
    BY <2>1, <2>3, <2>4 DEF Shown
  <2>6. Kind(t) = "rawFind" \/ filter'[t] \subseteq Scope(t, "read").where
    BY <2>1 DEF Shown
  <2> QED BY <1>1, <1>2, <2>1, <2>2, <2>5, <2>6 DEF Shown
<1>7. ASSUME NEW u \in Tasks, Step(u), ~(u = t /\ (BuildQuery(t) \/ Query(t)))
      PROVE  /\ page'[t] = page[t]
             /\ (filter'[t] = filter[t] /\ (at'[t] \in {"query", "count"} => at[t] = at'[t]))
                \/ at'[t] \notin {"query", "count"}
  <2>1. CASE u # t
    <3>1. at'[t] = at[t] BY <1>7, <2>1, Moves
    <3>2. page'[t] = page[t] /\ filter'[t] = filter[t]
      BY <1>7, <2>1 DEF Step, Start, Asks, ScopeMiss, Misconfigured, BuildQuery, Query, OwnScopeKnown,
         FindRows, AssertRowsInScope, RowInput, RowHook, RowWrite, Create, history, TypeOK
    <3> QED BY <3>1, <3>2
  <2>2. CASE u = t
    <3>1. page' = page
      BY <1>7, <2>2 DEF Step, Start, Asks, ScopeMiss, Misconfigured, OwnScopeKnown,
         FindRows, AssertRowsInScope, RowInput, RowHook, RowWrite, Create, history
    <3>2. filter' = filter \/ FindRows(t)
      BY <1>7, <2>2 DEF Step, Start, Asks, ScopeMiss, Misconfigured, OwnScopeKnown,
         AssertRowsInScope, RowInput, RowHook, RowWrite, Create, history
    <3>3. FindRows(t) => at'[t] = "rows" BY DEF FindRows, To, TypeOK
    <3>4. at'[t] = "query" => at[t] = "query"
      <4>1. at'[t] = "query" /\ at[t] # "query" => BuildQuery(t)
        BY <1>7, <2>2 DEF Step, Start, Asks, ScopeMiss, Misconfigured, OwnScopeKnown, BuildQuery, Query,
           FindRows, AssertRowsInScope, RowInput, RowHook, RowWrite, Create, Fails, Ends, To, TypeOK
      <4> QED BY <1>7, <2>2, <4>1
    <3>5. at'[t] = "count" => at[t] = "count"
      <4>1. at'[t] = "count" /\ at[t] # "count" => Query(t)
        BY <1>7, <2>2 DEF Step, Start, Asks, ScopeMiss, Misconfigured, OwnScopeKnown, BuildQuery, Query,
           FindRows, AssertRowsInScope, RowInput, RowHook, RowWrite, Create, Fails, Ends, To, TypeOK
      <4> QED BY <1>7, <2>2, <4>1
    <3> QED BY <3>1, <3>2, <3>3, <3>4, <3>5
  <2> QED BY <2>1, <2>2
<1>8. CASE UNCHANGED <<at, filter, mutation, job, page, reached>> BY <1>3, <1>8
<1>9. ASSUME NEW u \in Tasks, Step(u) PROVE (u = t /\ (BuildQuery(t) \/ Query(t))) \/
        (page'[t] = page[t] /\ filter'[t] = filter[t] /\ (at'[t] \in {"query", "count"} => at[t] = at'[t]))
        \/ (page'[t] = page[t] /\ at'[t] \notin {"query", "count"})
  BY <1>7, <1>9
<1> QED BY <1>3, <1>4, <1>5, <1>6, <1>8, <1>9, OthersStay

LEMMA ReachesKept ==
  ASSUME TypeOK, Remembers, Allowed, Reaches, Jobs, Next
  PROVE  Reaches'
<1> SUFFICES ASSUME NEW t \in Tasks, reached'[t] # {}
    PROVE  at'[t] # "new" /\ Known(t)' /\ reached'[t] \subseteq ScopedWriteWhere(t)'
  BY DEF Reaches
<1>1. SUFFICES at[t] # "new" /\ Known(t) /\ reached'[t] \subseteq ScopedWriteWhere(t)
  BY StaysAllowed, NeverNewAgain
<1>2. CASE reached'[t] = reached[t] BY <1>2 DEF Reaches
<1>3. CASE FindRows(t)
  <2>1. Known(t) /\ at[t] # "new" BY <1>3 DEF FindRows, Allowed, Known
  <2>2. \A owners, st : OwnersOf(Matching(owners, st)) \subseteq owners
    BY DEF OwnersOf, Matching
  <2>3. \E st : reached'[t] = OwnersOf(Matching(request[t].wants \cap ScopedWriteWhere(t), st))
    BY <1>3 DEF FindRows, TypeOK
  <2> QED BY <2>1, <2>2, <2>3
<1>4. ASSUME NEW r \in Rows, RowHook(t, r)
      PROVE  at[t] # "new" /\ Known(t) /\ reached'[t] \subseteq ScopedWriteWhere(t)
  <2>1. at[t] # "new" /\ mutation = t /\ job[r] = "ready" BY <1>4 DEF RowHook, InHand
  <2>2. Known(t) BY <2>1 DEF Jobs
  <2>3. reached'[t] = reached[t]
        \/ (reached'[t] = reached[t] \cup {row[r].owner} /\ row[r].owner \in ScopedWriteWhere(t))
    BY <1>4 DEF RowHook, TypeOK
  <2> QED BY <2>1, <2>2, <2>3 DEF Reaches
<1>5. ASSUME NEW u \in Tasks, Step(u)
      PROVE  reached'[t] = reached[t] \/ (u = t /\ (FindRows(t) \/ \E r \in Rows : RowHook(t, r)))
  BY <1>5 DEF Step, Start, Asks, ScopeMiss, Misconfigured, BuildQuery, Query, OwnScopeKnown, FindRows,
              AssertRowsInScope, RowInput, RowHook, RowWrite, Create, history, TypeOK
<1> QED BY <1>2, <1>3, <1>4, <1>5, OthersStay

-------------------------------------------------------------------------------
(* The rows a mutation is working on *)

(* While a mutation runs no other task makes a step of its own.            *)
LEMMA RunsAlone ==
  ASSUME InTurn, NEW s \in Tasks, Step(s), NEW t \in Tasks, Running(t), Mutates(t)
  PROVE  s = t
<1>1. CASE Running(s) BY <1>1 DEF InTurn
<1>2. CASE Start(s) BY <1>2 DEF Start
<1>3. CASE mutation = s BY <1>3 DEF InTurn
<1>4. Running(s) \/ Start(s) \/ mutation = s
  BY DEF Step, Asks, ScopeMiss, Misconfigured, AwaitedSays, BuildQuery, Query, OwnScopeKnown, FindRows,
         AssertRowsInScope, RowInput, RowHook, RowWrite, Create, InHand, Running, Ended
<1> QED BY <1>1, <1>2, <1>3, <1>4

(* What is left of a mutation goes on, or is dropped with it.              *)
LEMMA GoesOn ==
  ASSUME TypeOK, Remembers, Jobs, Next, mutation' = mutation,
         \A r \in Rows : job'[r] # "none" =>
           /\ job[r] # "none" /\ at'[mutation] \in {"rows", "failed"}
           /\ job[r] = "written" => job'[r] = "written"
  PROVE  Jobs'
<1> SUFFICES ASSUME NEW r \in Rows, job'[r] # "none"
    PROVE  /\ mutation' # NoValue /\ at'[mutation'] \in {"rows", "failed"}
           /\ job'[r] # "written" => Kind(mutation)' \notin {"create", "select"} /\ Known(mutation)'
  BY DEF Jobs
<1>1. mutation # NoValue /\ mutation \in Tasks /\ at[mutation] # "new" /\ job[r] # "none"
  BY DEF Jobs, TypeOK
<1>2. job'[r] # "written" => Kind(mutation) \notin {"create", "select"} /\ Known(mutation)
  BY <1>1 DEF Jobs
<1>3. Kind(mutation)' = Kind(mutation) /\ (Known(mutation) => Known(mutation)')
  BY <1>1, StaysAllowed, ConfigKept
<1> QED BY <1>1, <1>2, <1>3

LEMMA JobsKept ==
  ASSUME TypeOK, Remembers, InTurn, Allowed, Jobs, Next
  PROVE  Jobs'
<1>1. mutation # NoValue => mutation \in Tasks BY DEF TypeOK
<1>2. \A r \in Rows : job[r] # "none" => mutation # NoValue /\ at[mutation] \in {"rows", "failed"}
  BY DEF Jobs
<1>3. CASE UNCHANGED <<at, filter, mutation, job, page, reached>>
  BY <1>2, <1>3, GoesOn
<1>4. ASSUME NEW t \in Tasks, Step(t) PROVE Jobs'
  <2>1. \A u \in Tasks \ {t} : at'[u] = at[u] BY <1>4, Moves
  <2>2. CASE Start(t)
    <3>1. CASE Mutates(t)
      <4>1. \A r \in Rows : job'[r] = "none" BY <2>2, <3>1 DEF Start, NoJobs
      <4> QED BY <4>1 DEF Jobs
    <3>2. CASE ~Mutates(t)
      <4>1. UNCHANGED jobs /\ at[t] = "new" BY <2>2, <3>2 DEF Start
      <4> QED BY <1>1, <1>2, <2>1, <4>1, GoesOn DEF jobs
    <3> QED BY <3>1, <3>2
  <2>3. CASE mutation' = mutation /\ job' = job /\ (mutation = t => at'[t] \in {at[t], "failed"})
    BY <1>1, <1>2, <2>1, <2>3, GoesOn
  <2>4. CASE mutation' = mutation /\ job' = NoJobs
    <3>1. \A r \in Rows : job'[r] = "none" BY <2>4 DEF NoJobs
    <3> QED BY <2>4, <3>1, GoesOn
  <2>5. ASSUME NEW left, Fails(t, left), \A r \in Rows : left[r] # "none" =>
                 job[r] # "none" /\ (job[r] = "written" => left[r] = "written")
        PROVE  Jobs'
    <3>1. mutation' = mutation /\ (job' = NoJobs \/ job' = left) BY <2>5 DEF Fails
    <3>2. CASE job' = NoJobs BY <2>4, <3>1, <3>2
    <3>3. CASE job' = left
      <4>1. at'[t] = "failed" BY <2>5 DEF Fails, To, TypeOK
      <4> QED BY <1>1, <1>2, <2>1, <2>5, <3>1, <3>3, <4>1, GoesOn
    <3> QED BY <3>1, <3>2, <3>3
  <2>6. CASE Ends(t)
    <3>1. mutation' = mutation /\ job' = IF Mutates(t) THEN NoJobs ELSE job BY <2>6 DEF Ends
    <3>2. mutation = t => Mutates(t) BY RowScopeAssumption DEF InTurn
    <3> QED BY <2>3, <2>4, <3>1, <3>2
  <2>7. \A r \in Rows : job[r] # "none" => job[r] # "none" /\ (job[r] = "written" => job[r] = "written")
    OBVIOUS
  <2>8. CASE Asks(t)
    BY <2>3, <2>8 DEF Asks, jobs
  <2>9. CASE ScopeMiss(t) \/ Misconfigured(t)
    BY <2>5, <2>6, <2>7, <2>9 DEF ScopeMiss, Misconfigured
  <2>10. CASE BuildQuery(t) \/ OwnScopeKnown(t)
    <3>1. /\ mutation' = mutation /\ job' = job
          /\ (at[t] = "read" /\ Kind(t) \in Finds) \/ at[t] = "own"
      BY <2>10 DEF BuildQuery, OwnScopeKnown, jobs
    <3>2. \A r \in Rows : job[r] # "none" => mutation # t BY <1>2, <3>1
    <3> QED BY <1>1, <1>2, <2>1, <3>1, <3>2, GoesOn
  <2>11. CASE Query(t)
    <3>1. CASE Ends(t) BY <2>6, <3>1
    <3>2. CASE ~Ends(t)
      <4>1. mutation' = mutation /\ job' = job /\ at[t] = "query" BY <2>11, <3>2 DEF Query, jobs
      <4>2. \A r \in Rows : job[r] # "none" => mutation # t BY <1>2, <4>1
      <4> QED BY <1>1, <1>2, <2>1, <4>1, <4>2, GoesOn
    <3> QED BY <3>1, <3>2
  <2>12. CASE FindRows(t)
    <3>1. /\ at[t] = "read" /\ Mutates(t) /\ Says(t, "read", "allow") /\ mutation' = mutation
          /\ at'[t] = "rows" /\ \A r \in Rows : Kind(t) = "select" => job'[r] \in {"none", "written"}
      BY <2>12 DEF FindRows, To, TypeOK
    <3>2. Kind(t) # "create" /\ Known(t) BY <3>1 DEF Allowed, Known
    <3>3. mutation = t BY <3>1 DEF InTurn, Running, Ended
    <3>4. Kind(t)' = Kind(t) /\ Known(t)' BY <3>1, <3>2, StaysAllowed, ConfigKept
    <3>5. t # NoValue BY RowScopeAssumption
    <3>6. Kind(mutation)' = Kind(t) /\ (Known(mutation)' <=> Known(t)')
      BY <3>1, <3>3, <3>4 DEF Kind, Known, Says, Answered, Stage, Scope, OpOf, KeyOf, Ctx, Mutates
    <3> QED BY <3>1, <3>2, <3>3, <3>4, <3>5, <3>6 DEF Jobs
  <2>13. ASSUME NEW r \in Rows, RowInput(t, r) \/ RowHook(t, r) \/ RowWrite(t, r) PROVE Jobs'
    <3>1. mutation = t /\ at[t] \in {"rows", "failed"} /\ job[r] \notin {"none", "written"}
      BY <2>13 DEF RowInput, RowHook, RowWrite, InHand
    <3>2. \A q \in Rows : Done(r)[q] # "none" =>
            job[q] # "none" /\ (job[q] = "written" => Done(r)[q] = "written")
      BY <3>1 DEF Done, TypeOK
    <3>3. \/ Fails(t, Done(r))
          \/ /\ mutation' = mutation /\ at' = at
             /\ \E x \in {"ready", "checked", "written"} : job' = [job EXCEPT ![r] = x]
      BY <2>13 DEF RowInput, RowHook, RowWrite, Write, Done
    <3>4. CASE Fails(t, Done(r)) BY <2>5, <3>2, <3>4
    <3>5. CASE /\ mutation' = mutation /\ at' = at
               /\ \E x \in {"ready", "checked", "written"} : job' = [job EXCEPT ![r] = x]
      <4>1. \A q \in Rows : job'[q] = job[q] \/ q = r BY <3>5 DEF TypeOK
      <4> QED BY <3>1, <3>5, <4>1, GoesOn
    <3> QED BY <3>3, <3>4, <3>5
  <2>14. ASSUME NEW r \in Rows, Create(t, r) PROVE Jobs'
    <3>1. at[t] = "own" /\ Kind(t) = "create" BY <2>14 DEF Create
    <3>2. Mutates(t) BY <3>1 DEF Allowed
    <3>3. mutation = t BY <3>1, <3>2 DEF InTurn, Running, Ended
    <3>4. \A q \in Rows : job[q] = "none" BY <1>2, <3>1, <3>3
    <3>5. CASE Fails(t, job) BY <2>5, <3>4, <3>5
    <3>6. CASE ~Fails(t, job)
      <4>1. mutation' = mutation /\ job' = [job EXCEPT ![r] = "written"] /\ at'[t] = "rows"
        BY <2>14, <3>6 DEF Create, Write, Done, To, TypeOK
      <4>2. \A q \in Rows : job'[q] \in {"none", "written"} BY <3>4, <4>1 DEF TypeOK
      <4>3. t # NoValue BY RowScopeAssumption
      <4> QED BY <3>3, <4>1, <4>2, <4>3 DEF Jobs
    <3> QED BY <3>5, <3>6
  <2>15. CASE AssertRowsInScope(t)
    BY <2>5, <2>6, <2>7, <2>15 DEF AssertRowsInScope
  <2> QED BY <1>4, <2>2, <2>8, <2>9, <2>10, <2>11, <2>12, <2>13, <2>14, <2>15 DEF Step
<1> QED BY <1>3, <1>4, OthersStay

-------------------------------------------------------------------------------
(* The rows a mutation has written *)

(* A row was last written by whom it was, or by whoever makes the step, or *)
(* by nobody of this request.                                              *)
LEMMA LastToWrite ==
  ASSUME TypeOK, NEW s \in Tasks, Step(s), NEW r \in Rows
  PROVE  last'[r] \in {NoValue, s} \/ (last'[r] = last[r] /\ row'[r] = row[r])
<1>1. ASSUME NEW left, Fails(s, left)
      PROVE  last'[r] = NoValue \/ (last'[r] = last[r] /\ row'[r] = row[r])
  <2>1. CASE transactional /\ Mutates(s)
    BY <1>1, <2>1 DEF Fails, TypeOK
  <2>2. CASE ~(transactional /\ Mutates(s))
    BY <1>1, <2>2 DEF Fails
  <2> QED BY <2>1, <2>2
<1>2. ASSUME NEW q \in Rows, NEW new, Write(s, q, new)
      PROVE  last'[r] = s \/ (last'[r] = last[r] /\ row'[r] = row[r])
  BY <1>2 DEF Write, TypeOK
<1>3. Ends(s) => row' = row /\ last' = last BY DEF Ends
<1>4. ASSUME NEW q \in Rows, RowInput(s, q) \/ RowHook(s, q) \/ RowWrite(s, q) \/ Create(s, q)
      PROVE  \/ Fails(s, Done(q)) \/ Fails(s, job)
             \/ (row' = row /\ last' = last)
             \/ \E new : Write(s, q, new)
  BY <1>4 DEF RowInput, RowHook, RowWrite, Create, table
<1>5. (\E left : Fails(s, left)) \/ Ends(s) \/ (row' = row /\ last' = last)
      \/ \E q \in Rows : RowInput(s, q) \/ RowHook(s, q) \/ RowWrite(s, q) \/ Create(s, q)
  BY DEF Step, Start, Asks, ScopeMiss, Misconfigured, BuildQuery, Query, OwnScopeKnown, FindRows,
         AssertRowsInScope, table
<1> QED BY <1>1, <1>2, <1>3, <1>4, <1>5

(* What Landed says of one row of one task.                                *)
LandedOn(t, r) ==
  last[r] = t =>
    /\ Mutates(t) /\ Kind(t) # "select" /\ at[t] \in {"rows", "done", "failed"}
    /\ at[t] = "rows" => job[r] = "written" /\ (transactional => saved[r] # {})
    /\ at[t] = "done" => Ready(t) /\ (Kind(t) # "delete" => row[r].owner \in Landing(t))
    /\ at[t] = "failed" => ~transactional

(* A row nobody touches stays where its writer left it.                    *)
LEMMA StaysLanded ==
  ASSUME TypeOK, Remembers, Landed, Next, NEW t \in Tasks, NEW r \in Rows,
         last'[r] = last[r], row'[r] = row[r], at'[t] = at[t],
         at[t] = "rows" => job'[r] = job[r] /\ saved'[r] = saved[r]
  PROVE  LandedOn(t, r)'
<1>1. at[t] # "new" => /\ Ready(t) => Ready(t)' /\ Landing(t)' = Landing(t)
  BY StaysAllowed
<1>2. Kind(t)' = Kind(t) /\ (Mutates(t)' <=> Mutates(t)) /\ transactional' = transactional
  BY ConfigKept DEF config
<1> QED BY <1>1, <1>2 DEF Landed, LandedOn

(* A unit of work that throws puts its rows back; without one they stay.   *)
LEMMA FailsLanded ==
  ASSUME TypeOK, Landed, Next, NEW t \in Tasks, NEW left, Fails(t, left), NEW r \in Rows,
         at[t] # "done"
  PROVE  LandedOn(t, r)'
<1>1. at'[t] = "failed" /\ Kind(t)' = Kind(t) /\ (Mutates(t)' <=> Mutates(t))
      /\ transactional' = transactional
  BY ConfigKept DEF Fails, To, TypeOK, config
<1>2. t # NoValue BY RowScopeAssumption
<1>3. CASE ~transactional \/ ~Mutates(t)
  <2>1. last' = last BY <1>3 DEF Fails
  <2> QED BY <1>1, <1>3, <2>1 DEF Landed, LandedOn
<1>4. CASE transactional /\ Mutates(t)
  <2>1. last'[r] = IF saved[r] = {} THEN last[r] ELSE NoValue BY <1>4 DEF Fails
  <2>2. last'[r] = t => last[r] = t /\ saved[r] = {} BY <1>2, <2>1
  <2> QED BY <1>1, <1>4, <2>2 DEF Landed, LandedOn
<1> QED BY <1>3, <1>4

LEMMA LandedKept ==
  ASSUME TypeOK, Remembers, InTurn, Allowed, Jobs, Landed, Next
  PROVE  Landed'
<1> SUFFICES ASSUME NEW t \in Tasks, NEW r \in Rows PROVE LandedOn(t, r)'
  BY DEF Landed, LandedOn
<1>1. t # NoValue BY RowScopeAssumption
<1>2. ASSUME NEW c \in Contexts, NEW k \in Keys, PredicateAnswers(c, k) PROVE LandedOn(t, r)'
  BY <1>2, StaysLanded DEF PredicateAnswers, table, jobs
<1>3. ASSUME NEW q \in Rows, OthersWrite(q) PROVE LandedOn(t, r)'
  <2>1. last'[q] = NoValue /\ (r # q => last'[r] = last[r] /\ row'[r] = row[r])
        /\ at' = at /\ job' = job /\ saved' = saved
    BY <1>3 DEF OthersWrite, jobs, TypeOK
  <2>2. CASE r = q BY <1>1, <2>1, <2>2 DEF LandedOn
  <2>3. CASE r # q BY <2>1, <2>3, StaysLanded
  <2> QED BY <2>2, <2>3
<1>4. CASE AllDone BY <1>4, StaysLanded DEF AllDone, vars, table, jobs
<1>5. ASSUME NEW s \in Tasks, Step(s), s # t PROVE LandedOn(t, r)'
  <2>1. last'[r] = t => last'[r] = last[r] /\ row'[r] = row[r]
    BY <1>1, <1>5, LastToWrite
  <2>2. at'[t] = at[t] BY <1>5, Moves
  <2>3. last[r] = t => at[t] # "rows"
    BY <1>5, RunsAlone DEF Landed, Running, Ended
  <2>4. CASE last'[r] = t BY <2>1, <2>2, <2>3, <2>4, StaysLanded
  <2>5. CASE last'[r] # t BY <2>5 DEF LandedOn
  <2> QED BY <2>4, <2>5
<1>6. ASSUME Step(t) PROVE LandedOn(t, r)'
  <2>1. Kind(t)' = Kind(t) /\ (Mutates(t)' <=> Mutates(t)) /\ transactional' = transactional
    BY ConfigKept DEF config
  <2>2. ASSUME last[r] # t, last'[r] = last[r] PROVE LandedOn(t, r)'
    BY <2>2 DEF LandedOn
  <2>3. last[r] = t => at[t] \in {"rows", "done", "failed"} /\ Mutates(t) BY DEF Landed
  <2>4. ASSUME last' = last, at[t] \notin {"rows", "done", "failed"} PROVE LandedOn(t, r)'
    BY <2>2, <2>3, <2>4
  <2>5. ASSUME row' = row, saved' = saved, last' = last, at' = at, job'[r] = job[r]
        PROVE LandedOn(t, r)'
    BY <2>5, StaysLanded
  <2>6. CASE Start(t) BY <2>4, <2>6 DEF Start, table
  <2>7. CASE Asks(t) BY <2>4, <2>7 DEF Asks, table
  <2>8. CASE ScopeMiss(t) \/ Misconfigured(t)
    <3>1. at[t] \in {"own", "read"} /\ (Ends(t) \/ Fails(t, job))
      BY <2>8 DEF ScopeMiss, Misconfigured, AwaitedSays
    <3>2. CASE Ends(t) BY <2>4, <3>1, <3>2 DEF Ends
    <3>3. CASE Fails(t, job) BY <3>1, <3>3, FailsLanded
    <3> QED BY <3>1, <3>2, <3>3
  <2>9. CASE BuildQuery(t) \/ OwnScopeKnown(t) \/ FindRows(t)
    BY <2>4, <2>9 DEF BuildQuery, OwnScopeKnown, FindRows, table
  <2>10. CASE Query(t)
    <3>1. at[t] \in {"query", "count"} /\ last' = last BY <2>10 DEF Query, Ends, table
    <3> QED BY <2>4, <3>1
  <2>11. ASSUME NEW q \in Rows, RowInput(t, q) \/ RowHook(t, q) PROVE LandedOn(t, r)'
    <3>1. at[t] \in {"rows", "failed"} /\ job[q] \in {"found", "ready"}
      BY <2>11 DEF RowInput, RowHook, InHand
    <3>2. CASE Fails(t, Done(q)) BY <3>1, <3>2, FailsLanded
    <3>3. CASE ~Fails(t, Done(q))
      <4>1. /\ row' = row /\ saved' = saved /\ last' = last /\ at' = at
            /\ \E x \in {"ready", "checked"} : job' = [job EXCEPT ![q] = x]
        BY <2>11, <3>3 DEF RowInput, RowHook, table
      <4>2. r # q => job'[r] = job[r] BY <4>1 DEF TypeOK
      <4>3. CASE at[t] = "rows" /\ last[r] = t
        <5>1. job[r] = "written" BY <4>3 DEF Landed
        <5> QED BY <2>5, <3>1, <4>1, <4>2, <5>1
      <4>4. CASE last[r] # t BY <2>2, <4>1, <4>4
      <4>5. CASE at[t] # "rows" BY <4>1, <4>5, StaysLanded
      <4> QED BY <4>3, <4>4, <4>5
    <3> QED BY <3>2, <3>3
  <2>12. ASSUME NEW q \in Rows, RowWrite(t, q) PROVE LandedOn(t, r)'
    <3>1. /\ mutation = t /\ at' = at /\ (at[t] = "rows" \/ (at[t] = "failed" /\ ~transactional))
          /\ job[q] \notin {"none", "written"}
      BY <2>12 DEF RowWrite, InHand
    <3>2. Mutates(t) /\ Kind(t) # "select"
      BY <1>1, <3>1 DEF Jobs, InTurn
    <3>3. PICK new : Write(t, q, new) BY <2>12 DEF RowWrite
    <3>4. CASE r = q
      <4>1. job'[r] = "written" /\ (transactional => saved'[r] # {})
        BY <3>3, <3>4 DEF Write, Done, TypeOK
      <4> QED BY <2>1, <3>1, <3>2, <4>1 DEF LandedOn
    <3>5. CASE r # q
      <4>1. last'[r] = last[r] /\ row'[r] = row[r] /\ job'[r] = job[r] /\ saved'[r] = saved[r]
        BY <3>3, <3>5 DEF Write, Done, TypeOK
      <4> QED BY <3>1, <4>1, StaysLanded
    <3> QED BY <3>4, <3>5
  <2>13. ASSUME NEW q \in Rows, Create(t, q) PROVE LandedOn(t, r)'
    <3>1. at[t] = "own" /\ Kind(t) = "create" /\ Mutates(t) BY <2>13 DEF Create, Allowed
    <3>2. CASE Fails(t, job) BY <3>1, <3>2, FailsLanded
    <3>3. CASE ~Fails(t, job)
      <4>1. at'[t] = "rows" BY <2>13, <3>3 DEF Create, To, TypeOK
      <4>2. PICK new : Write(t, q, new) BY <2>13, <3>3 DEF Create
      <4>3. CASE r = q
        <5>1. job'[r] = "written" /\ (transactional => saved'[r] # {})
          BY <4>2, <4>3 DEF Write, Done, TypeOK
        <5> QED BY <2>1, <3>1, <4>1, <5>1 DEF LandedOn
      <4>4. CASE r # q
        <5>1. last'[r] = last[r] BY <4>2, <4>4 DEF Write, TypeOK
        <5> QED BY <2>2, <2>3, <3>1, <5>1
      <4> QED BY <4>3, <4>4
    <3> QED BY <3>2, <3>3
  <2>14. CASE AssertRowsInScope(t)
    <3> DEFINE rows == {q \in Rows : job[q] = "written"}
    <3>1. at[t] = "rows" BY <2>14 DEF AssertRowsInScope
    <3>2. CASE Fails(t, job) BY <3>1, <3>2, FailsLanded
    <3>3. CASE ~Fails(t, job)
      <4>1. /\ Ends(t)
            /\ Kind(t) \in {"delete", "select"} \/ rows = {} \/ RowsInScope(t, rows)
        BY <2>14, <3>3 DEF AssertRowsInScope
      <4>2. at'[t] = "done" /\ row' = row /\ last' = last BY <4>1 DEF Ends, To, TypeOK
      <4>3. Ready(t) /\ Ready(t)' /\ Landing(t)' = Landing(t) BY <3>1, StaysAllowed DEF Allowed
      <4>4. ASSUME last[r] = t, Kind(t) # "delete" PROVE row[r].owner \in Landing(t)
        <5>1. r \in rows /\ Kind(t) # "select" BY <3>1, <4>4 DEF Landed
        <5>2. RowsInScope(t, rows) BY <4>1, <4>4, <5>1
        <5>3. CASE Landing(t) = Owners
          BY <5>3 DEF TypeOK, Tables, RowStates
        <5>4. CASE rows \subseteq Matching(Landing(t), "live")
          BY <5>1, <5>4 DEF Matching
        <5> QED BY <5>2, <5>3, <5>4 DEF RowsInScope
      <4>5. last[r] = t => Mutates(t) /\ Kind(t) # "select" BY DEF Landed
      <4> QED BY <2>1, <4>2, <4>3, <4>4, <4>5 DEF LandedOn
    <3> QED BY <3>2, <3>3
  <2> QED BY <1>6, <2>6, <2>7, <2>8, <2>9, <2>10, <2>11, <2>12, <2>13, <2>14 DEF Step
<1> QED BY <1>2, <1>3, <1>4, <1>5, <1>6 DEF Next

-------------------------------------------------------------------------------
(* Types.  What a write leaves in a row comes of an answer, so the types   *)
(* need the scopes to be known.                                            *)

JobStates == {"none", "found", "ready", "checked", "written"}

LEMMA MemoTypes ==
  ASSUME TypeOK, Next
  PROVE  /\ holder' \in [Contexts -> Contexts \cup {NoMemo}]
         /\ stage' \in [Contexts -> [Keys -> Principals \cup {"none", "settled"}]]
         /\ answer' \in [Contexts -> [Keys -> Answers \cup {NoValue}]]
         /\ said' \in [Keys -> SUBSET Answers]
<1>1. CASE UNCHANGED memo BY <1>1 DEF memo, TypeOK
<1>2. CASE \E t \in Tasks : holder' = InheritScopeMemo(t) /\ UNCHANGED <<stage, answer, said>>
  <2>1. Request \in Contexts /\ Tasks \subseteq Contexts BY DEF Contexts
  <2> QED BY <1>2, <2>1 DEF InheritScopeMemo, TypeOK
<1>3. CASE \E t \in Tasks, op \in Ops : ScopeFor(t, op)
  <2> PICK t \in Tasks, op \in Ops : ScopeFor(t, op) BY <1>3
  <2> DEFINE c == IF holder[Ctx(t)] = NoMemo THEN Ctx(t) ELSE holder[Ctx(t)]
  <2>1. c \in Contexts /\ KeyOf(t, op) \in Keys /\ request[t].by \in Principals
    BY Asked DEF TypeOK
  <2>2. /\ holder' = [holder EXCEPT ![Ctx(t)] = c] /\ answer' = answer /\ said' = said
        /\ stage' = [stage EXCEPT ![c][KeyOf(t, op)] = request[t].by]
    BY DEF ScopeFor
  <2> QED BY <2>1, <2>2 DEF TypeOK
<1>4. CASE \E c \in Contexts, k \in Keys : PredicateAnswers(c, k)
  <2> PICK c \in Contexts, k \in Keys : PredicateAnswers(c, k) BY <1>4
  <2>1. PICK a \in Answers : /\ answer' = [answer EXCEPT ![c][k] = a]
                             /\ said' = [said EXCEPT ![<<stage[c][k], k[2]>>] = @ \cup {a}]
    BY DEF PredicateAnswers
  <2>2. holder' = holder /\ stage' = [stage EXCEPT ![c][k] = "settled"]
    BY DEF PredicateAnswers
  <2> QED BY <2>1, <2>2 DEF TypeOK
<1> QED BY <1>1, <1>2, <1>3, <1>4, MemoStep

(* The part of the state the tasks change.                                 *)
WorkTypes ==
  /\ row \in Tables /\ saved \in [Rows -> SUBSET RowStates]
  /\ at \in [Tasks -> {"new", "own", "read", "query", "count", "rows", "done", "failed"}]
  /\ mutation \in Tasks \cup {NoValue} /\ job \in [Rows -> JobStates]
  /\ last \in [Rows -> Tasks \cup {NoValue}] /\ others \in Nat

LEMMA FailsTypes ==
  ASSUME TypeOK, NEW t \in Tasks, NEW left \in [Rows -> JobStates], Fails(t, left)
  PROVE  WorkTypes'
<1>1. at' \in [Tasks -> {"new", "own", "read", "query", "count", "rows", "done", "failed"}]
  BY DEF Fails, To, TypeOK
<1>2. mutation' = mutation /\ others' = others /\ (job' = NoJobs \/ job' = left) BY DEF Fails
<1>3. job' \in [Rows -> JobStates] BY <1>2 DEF NoJobs, JobStates
<1>4. CASE ~(transactional /\ Mutates(t)) BY <1>1, <1>2, <1>3, <1>4 DEF Fails, TypeOK, WorkTypes
<1>5. CASE transactional /\ Mutates(t)
  <2>1. \A r \in Rows : saved[r] # {} => (CHOOSE x \in saved[r] : TRUE) \in RowStates
    BY DEF TypeOK
  <2>2. row' = [r \in Rows |-> IF saved[r] = {} THEN row[r] ELSE CHOOSE x \in saved[r] : TRUE]
    BY <1>5 DEF Fails
  <2>3. row' \in Tables BY <2>1, <2>2 DEF TypeOK, Tables
  <2>4. saved' \in [Rows -> SUBSET RowStates] /\ last' \in [Rows -> Tasks \cup {NoValue}]
    BY <1>5 DEF Fails, TypeOK
  <2> QED BY <1>1, <1>2, <1>3, <2>3, <2>4 DEF TypeOK, WorkTypes
<1> QED BY <1>4, <1>5

LEMMA EndsTypes ==
  ASSUME TypeOK, NEW t \in Tasks, Ends(t)
  PROVE  WorkTypes'
BY DEF Ends, To, NoJobs, JobStates, TypeOK, WorkTypes

LEMMA WriteTypes ==
  ASSUME TypeOK, NEW t \in Tasks, NEW r \in Rows, NEW new \in RowStates, Write(t, r, new),
         at' \in [Tasks -> {"new", "own", "read", "query", "count", "rows", "done", "failed"}]
  PROVE  WorkTypes'
<1>1. row' \in Tables /\ job' \in [Rows -> JobStates]
  BY DEF Write, Done, TypeOK, Tables, JobStates
<1>2. row[r] \in RowStates BY DEF TypeOK, Tables
<1>3. saved' \in [Rows -> SUBSET RowStates] BY <1>2 DEF Write, TypeOK
<1> QED BY <1>1, <1>3 DEF Write, TypeOK, WorkTypes

(* The owner a write leaves is the client's or one an answer forces.       *)
LEMMA WrittenOwner ==
  ASSUME TypeOK, Remembers, NEW t \in Tasks, Says(t, OpOf(t), "allow")
  PROVE  Written(t) \in Owners \cup {NoValue}
<1>1. OpOf(t) \in Ops /\ request[t].value \in Owners \cup {NoValue} BY Asked
<1>2. Scope(t, OpOf(t)).set \in Owners \cup {NoValue} BY <1>1, AnswerGiven DEF Says
<1> QED BY <1>1, <1>2 DEF Written

LEMMA WorkTypesKept ==
  ASSUME Inv, NEW t \in Tasks, Step(t)
  PROVE  WorkTypes' /\ filter' \in [Tasks -> SUBSET Owners]
         /\ page' \in [Tasks -> SUBSET Owners] /\ reached' \in [Tasks -> SUBSET Owners]
<1> USE DEF Inv
<1>1. WorkTypes /\ filter \in [Tasks -> SUBSET Owners] /\ request[t].wants \subseteq Owners
      /\ page \in [Tasks -> SUBSET Owners] /\ reached \in [Tasks -> SUBSET Owners]
  BY Asked DEF TypeOK, WorkTypes, JobStates
<1>2. \A rows \in SUBSET Rows : OwnersOf(rows) \subseteq Owners /\ \A r \in Rows : row[r].owner \in Owners
  BY DEF OwnersOf, TypeOK, Tables, RowStates
<1>3. \A owners, st : Matching(owners, st) \in SUBSET Rows BY DEF Matching
<1>4. \A r \in Rows : Done(r) \in [Rows -> JobStates] BY DEF Done, TypeOK, JobStates
<1>5. job \in [Rows -> JobStates] BY DEF TypeOK, JobStates
<1>6. CASE Start(t)
  BY <1>1, <1>6 DEF Start, To, NoJobs, JobStates, WorkTypes, table, jobs, history
<1>7. CASE Asks(t)
  BY <1>1, <1>7 DEF Asks, WorkTypes, table, jobs, history
<1>8. CASE ScopeMiss(t) \/ Misconfigured(t)
  BY <1>1, <1>5, <1>8, FailsTypes, EndsTypes DEF ScopeMiss, Misconfigured, history
<1>9. CASE BuildQuery(t)
  BY <1>1, <1>9 DEF BuildQuery, Reasserted, To, WorkTypes, table, jobs, history
<1>10. CASE Query(t)
  <2>1. filter' = filter /\ reached' = reached /\ page' \in [Tasks -> SUBSET Owners]
    BY <1>1, <1>2, <1>3, <1>10 DEF Query
  <2>2. CASE Ends(t) BY <1>1, <2>1, <2>2, EndsTypes
  <2>3. CASE ~Ends(t)
    BY <1>1, <1>10, <2>1, <2>3 DEF Query, To, WorkTypes, table, jobs
  <2> QED BY <2>2, <2>3
<1>11. CASE OwnScopeKnown(t)
  BY <1>1, <1>11 DEF OwnScopeKnown, To, WorkTypes, table, jobs, history
<1>12. CASE FindRows(t)
  <2>1. filter' \in [Tasks -> SUBSET Owners] /\ reached' \in [Tasks -> SUBSET Owners]
    BY <1>1, <1>2, <1>3, <1>12 DEF FindRows
  <2>2. job' \in [Rows -> JobStates] BY <1>12 DEF FindRows, JobStates
  <2> QED BY <1>1, <1>12, <2>1, <2>2 DEF FindRows, To, WorkTypes, table
<1>13. CASE AssertRowsInScope(t)
  BY <1>1, <1>5, <1>13, FailsTypes, EndsTypes DEF AssertRowsInScope, history
<1>14. ASSUME NEW r \in Rows, RowInput(t, r)
       PROVE  WorkTypes' /\ filter' = filter /\ page' = page /\ reached' = reached
  <2>1. Fails(t, Done(r)) \/ (job' = [job EXCEPT ![r] = "ready"] /\ UNCHANGED <<table, mutation, at>>)
    BY <1>14 DEF RowInput
  <2>2. CASE Fails(t, Done(r)) BY <1>4, <1>14, <2>2, FailsTypes DEF RowInput, history
  <2>3. CASE job' = [job EXCEPT ![r] = "ready"] /\ UNCHANGED <<table, mutation, at>>
    BY <1>1, <1>14, <2>3 DEF RowInput, history, WorkTypes, table, JobStates
  <2> QED BY <2>1, <2>2, <2>3
<1>15. ASSUME NEW r \in Rows, RowHook(t, r)
       PROVE  WorkTypes' /\ filter' = filter /\ page' = page /\ reached' \in [Tasks -> SUBSET Owners]
  <2>1. \/ Fails(t, Done(r)) /\ reached' = reached
        \/ /\ job' = [job EXCEPT ![r] = "checked"] /\ UNCHANGED <<table, mutation, at>>
           /\ reached' = [reached EXCEPT ![t] = @ \cup {row[r].owner}]
    BY <1>15 DEF RowHook
  <2>2. filter' = filter /\ page' = page BY <1>15 DEF RowHook
  <2>3. CASE Fails(t, Done(r)) /\ reached' = reached BY <1>1, <1>4, <2>2, <2>3, FailsTypes
  <2>4. CASE /\ job' = [job EXCEPT ![r] = "checked"] /\ UNCHANGED <<table, mutation, at>>
             /\ reached' = [reached EXCEPT ![t] = @ \cup {row[r].owner}]
    <3>1. reached' \in [Tasks -> SUBSET Owners] BY <1>1, <1>2, <2>4
    <3>2. job' \in [Rows -> JobStates] BY <1>1, <2>4 DEF WorkTypes, JobStates
    <3> QED BY <1>1, <2>2, <2>4, <3>1, <3>2 DEF WorkTypes, table
  <2> QED BY <2>1, <2>2, <2>3, <2>4
<1>16. ASSUME NEW r \in Rows, RowWrite(t, r)
       PROVE  WorkTypes' /\ filter' = filter /\ page' = page /\ reached' = reached
  <2>1. mutation = t /\ job[r] \notin {"none", "written"} /\ at' = at
    BY <1>16 DEF RowWrite, InHand
  <2>2. Written(t) \in Owners \cup {NoValue} BY <2>1, WrittenOwner DEF Jobs, Known
  <2>3. row[r] \in RowStates BY DEF TypeOK, Tables
  <2>4. /\ [row[r] EXCEPT !.state = "deleted"] \in RowStates
        /\ [row[r] EXCEPT !.state = "live"] \in RowStates
        /\ \A o \in Owners : [row[r] EXCEPT !.owner = o] \in RowStates
    BY <2>3 DEF RowStates
  <2>5. \E new \in RowStates : Write(t, r, new)
    <3>1. CASE Kind(t) = "delete" BY <1>16, <2>4, <3>1 DEF RowWrite
    <3>2. CASE Kind(t) = "restore" BY <1>16, <2>4, <3>2 DEF RowWrite
    <3>3. CASE Kind(t) \notin {"delete", "restore"}
      <4>1. Write(t, r, IF Written(t) = NoValue THEN row[r] ELSE [row[r] EXCEPT !.owner = Written(t)])
        BY <1>16, <3>3 DEF RowWrite
      <4> QED BY <2>2, <2>3, <2>4, <4>1
    <3> QED BY <3>1, <3>2, <3>3
  <2> QED BY <1>1, <1>16, <2>1, <2>5, WriteTypes DEF RowWrite, history, WorkTypes
<1>17. ASSUME NEW r \in Rows, Create(t, r)
       PROVE  WorkTypes' /\ filter' = filter /\ page' = page /\ reached' = reached
  <2>1. filter' = filter /\ page' = page /\ reached' = reached BY <1>17 DEF Create, history
  <2>2. CASE Fails(t, job) BY <1>5, <2>1, <2>2, FailsTypes
  <2>3. CASE ~Fails(t, job)
    <3>1. Write(t, r, [state |-> "live", owner |-> Written(t)]) /\ To(t, "rows")
      BY <1>17, <2>3 DEF Create
    <3>2. Says(t, OpOf(t), "allow") BY <1>17 DEF Create, OpOf, Finds
    <3>3. Written(t) \in Owners BY <1>17, <3>2, WrittenOwner DEF Create
    <3>4. [state |-> "live", owner |-> Written(t)] \in RowStates BY <3>3 DEF RowStates
    <3> QED BY <2>1, <3>1, <3>4, WriteTypes DEF To, TypeOK
  <2> QED BY <2>2, <2>3
<1> QED BY <1>1, <1>6, <1>7, <1>8, <1>9, <1>10, <1>11, <1>12, <1>13, <1>14, <1>15, <1>16, <1>17 DEF Step

LEMMA TypesKept ==
  ASSUME Inv, Next
  PROVE  TypeOK'
<1>1. TypeOK BY DEF Inv
<1>2. hooked' \in BOOLEAN /\ transactional' \in BOOLEAN /\ request' \in Requests
  BY <1>1, ConfigKept DEF config, TypeOK
<1>3. ASSUME NEW t \in Tasks, Step(t) PROVE TypeOK'
  BY <1>1, <1>2, <1>3, MemoTypes, WorkTypesKept DEF TypeOK, WorkTypes, JobStates
<1>4. ASSUME NEW c \in Contexts, NEW k \in Keys, PredicateAnswers(c, k) PROVE TypeOK'
  <2>1. UNCHANGED <<table, at, filter, jobs, history, mutation, job, page, reached>>
    BY <1>4 DEF PredicateAnswers, jobs, history
  <2>2. UNCHANGED <<row, saved, last, others>> BY <2>1 DEF table
  <2> QED BY <1>1, <1>2, <2>1, <2>2, MemoTypes DEF TypeOK
<1>5. ASSUME NEW r \in Rows, OthersWrite(r) PROVE TypeOK'
  <2>1. UNCHANGED <<saved, at, filter, mutation, job, page, reached>>
    BY <1>5 DEF OthersWrite, jobs, history
  <2>2. PICK o \in Owners : row' = [row EXCEPT ![r].owner = o] BY <1>5 DEF OthersWrite
  <2>3. row[r] \in RowStates BY <1>1 DEF TypeOK, Tables
  <2>4. [row[r] EXCEPT !.owner = o] \in RowStates BY <2>3 DEF RowStates
  <2>5. row' \in Tables BY <1>1, <2>2, <2>4 DEF TypeOK, Tables
  <2>6. last' \in [Rows -> Tasks \cup {NoValue}] /\ others' \in Nat
    BY <1>1, <1>5 DEF OthersWrite, TypeOK
  <2> QED BY <1>1, <1>2, <2>1, <2>5, <2>6, MemoTypes DEF TypeOK
<1>6. CASE AllDone
  BY <1>1, <1>6 DEF AllDone, vars, config, table, memo, jobs, history, TypeOK
<1> QED BY <1>3, <1>4, <1>5, <1>6 DEF Next

-------------------------------------------------------------------------------
(* The theorems *)

LEMMA InvInit == Init => Inv
<1> SUFFICES ASSUME Init PROVE Inv OBVIOUS
<1>1. PICK a \in Adapters : hooked = a[1] /\ transactional = a[2] BY DEF Init
<1>2. hooked \in BOOLEAN /\ transactional \in BOOLEAN BY <1>1, RowScopeAssumption
<1>3. TypeOK BY <1>2, RowScopeAssumption DEF Init, TypeOK, NoJobs
<1>4. Remembers
  <2>1. \A t \in Tasks : t \in Contexts BY DEF Contexts
  <2> QED BY <2>1, RowScopeAssumption DEF Init, Remembers
<1>5. InTurn /\ Allowed /\ Reaches /\ Landed
  BY RowScopeAssumption DEF Init, InTurn, Running, Ended, Allowed, Reaches, Landed
<1>6. Shown /\ Jobs BY DEF Init, Shown, Jobs, NoJobs
<1> QED BY <1>3, <1>4, <1>5, <1>6 DEF Inv

LEMMA InvStep == Inv /\ [Next]_vars => Inv'
<1>1. ASSUME Inv, Next PROVE Inv'
  <2>1. TypeOK /\ Remembers /\ InTurn /\ Allowed /\ Shown /\ Reaches /\ Jobs /\ Landed
    BY <1>1 DEF Inv
  <2> QED BY <1>1, <2>1, TypesKept, RemembersKept, InTurnKept, AllowedKept, ShownKept, ReachesKept,
             JobsKept, LandedKept DEF Inv
<1>2. ASSUME Inv, UNCHANGED vars PROVE Inv'
  <2>1. UNCHANGED <<hooked, transactional, request, row, saved, holder, stage, answer, at, filter,
                    mutation, job, page, reached, said, last, others>>
    BY <1>2 DEF vars, config, table, memo, jobs, history
  <2>2. TypeOK' BY <1>2, <2>1 DEF Inv, TypeOK
  <2>3. Remembers' BY <1>2, <2>1 DEF Inv, Remembers
  <2>4. InTurn' BY <1>2, <2>1 DEF Inv, InTurn, Running, Ended, Mutates, Kind
  <2>5. \A t : Kind(t)' = Kind(t) /\ (Mutates(t)' <=> Mutates(t)) /\ OpOf(t)' = OpOf(t) /\ Ctx(t)' = Ctx(t)
    BY <2>1 DEF Kind, Mutates, OpOf, Ctx
  <2>6. \A t, op : (Says(t, op, "allow")' <=> Says(t, op, "allow")) /\ Scope(t, op)' = Scope(t, op)
    BY <2>1, <2>5 DEF Says, Answered, Stage, Scope, KeyOf
  <2>7. \A t : (Known(t)' <=> Known(t)) /\ ScopedWriteWhere(t)' = ScopedWriteWhere(t)
    BY <2>5, <2>6 DEF Known, ScopedWriteWhere
  <2>8. \A t : (Ready(t)' <=> Ready(t)) /\ Landing(t)' = Landing(t)
    BY <2>5, <2>6, <2>7 DEF Ready, Landing
  <2>9. Allowed' BY <1>2, <2>1, <2>5, <2>6, <2>8 DEF Inv, Allowed
  <2>10. Shown' BY <1>2, <2>1, <2>5, <2>6 DEF Inv, Shown
  <2>11. Reaches' BY <1>2, <2>1, <2>7 DEF Inv, Reaches
  <2>12. Jobs' BY <1>2, <2>1, <2>5, <2>7 DEF Inv, Jobs
  <2>13. Landed' BY <1>2, <2>1, <2>5, <2>8 DEF Inv, Landed
  <2> QED BY <2>2, <2>3, <2>4, <2>9, <2>10, <2>11, <2>12, <2>13 DEF Inv
<1> QED BY <1>1, <1>2

LEMMA Invariance == Spec => []Inv
BY InvInit, InvStep, PTL DEF Spec

(* Type correctness: among it that what a scope imposes on a write is a    *)
(* value of the column, which needs the scopes to be known by then.        *)
THEOREM TypeCorrect == Spec => []TypeOK
<1>1. Inv => TypeOK BY DEF Inv
<1> QED BY <1>1, Invariance, PTL

(* No hook of a definition, no adapter that fires or does not fire hooks   *)
(* and no sharing of promises shows a task a row that one answer of the    *)
(* predicate, to its own principal, does not let through.                  *)
THEOREM ShowsOnlyVisibleRows == Spec => []OnlyVisibleRows
<1>1. ASSUME Inv PROVE OnlyVisibleRows
  <2> SUFFICES ASSUME NEW t \in Tasks, page[t] # {}
      PROVE  \E a \in Told(t, "read") : a.says = "allow" /\ page[t] \subseteq a.where
    BY DEF OnlyVisibleRows
  <2>1. Says(t, "read", "allow") /\ page[t] \subseteq Scope(t, "read").where
    BY <1>1 DEF Inv, Shown
  <2>2. Scope(t, "read") \in Told(t, "read")
    BY <1>1, <2>1, AnswerGiven DEF Inv, Says, Ops
  <2> QED BY <2>1, <2>2 DEF Says
<1> QED BY <1>1, Invariance, PTL

(* A write starts from rows its principal may read and may write, and what *)
(* it leaves behind, when it returns, is in scope; a unit of work that     *)
(* fails leaves nothing, whatever was written around it.                   *)
THEOREM WritesStayWithin == Spec => []WritesStayInScope
<1>1. ASSUME Inv PROVE WritesReachable
  <2> SUFFICES ASSUME NEW t \in Tasks, reached[t] # {}
      PROVE  \E a \in Told(t, "read"), b \in Told(t, OpOf(t)) : reached[t] \subseteq a.where \cap b.where
    BY DEF WritesReachable
  <2>1. Known(t) /\ reached[t] \subseteq ScopedWriteWhere(t) BY <1>1 DEF Inv, Reaches
  <2>2. TypeOK /\ Remembers BY <1>1 DEF Inv
  <2>3. "read" \in Ops /\ OpOf(t) \in Ops BY <2>2, Asked DEF Ops
  <2>4. Scope(t, "read") \in Told(t, "read") /\ Scope(t, OpOf(t)) \in Told(t, OpOf(t))
    BY <2>1, <2>2, <2>3, AnswerGiven DEF Known, Says
  <2> QED BY <2>1, <2>4 DEF ScopedWriteWhere
<1>2. Inv => LandsInside BY DEF Inv, Landed, LandsInside
<1> QED BY <1>1, <1>2, Invariance, PTL DEF WritesStayInScope
===============================================================================
