--------------------------- MODULE OrmizeTransaction ---------------------------
(***************************************************************************)
(* One coordinated unit of work: OrmizeTransaction                         *)
(* (packages/ormize/src/transaction.ts) driven by transaction() and        *)
(* withTransaction() (packages/ormize/src/engine/transactions.ts).         *)
(*                                                                         *)
(* The body `fn` is a set of Branches.  A branch runs its mutations one    *)
(* after the other, each through withTransaction -> handleFor -> the       *)
(* write -> afterCommit.  One branch is a body that awaits every mutation; *)
(* several are a Promise.all over mutations, which is what                 *)
(* applyUpdate and applyDelete of relationship-mutations.ts do: the body   *)
(* rejects with the first branch that fails, the others run on.  A branch  *)
(* the body does not await is a mutation it called and let go of: the      *)
(* body's promise settles without it, and it runs on under the             *)
(* coordinator of its async context.                                       *)
(*                                                                         *)
(* Steps are cut at every await; between two awaits JavaScript runs alone. *)
(***************************************************************************)
EXTENDS Naturals, Sequences, Functions

CONSTANTS
  Adapters,     \* names of the registered adapters
  TxAdapters,   \* the ones with a beginTransaction
  Branches,     \* concurrent chains of mutations in the body
  Plans,        \* the bodies: the adapters each branch works on, the branches awaited
  MaxOps,       \* bound: mutations per branch
  MaxTx,        \* bound: transactions one adapter begins for this unit
  NoHandle      \* the `undefined` handle of an unenrolled operation

ASSUME AdaptersAssumption ==
  /\ TxAdapters \subseteq Adapters /\ Adapters # {}
  /\ Plans \subseteq [work : [Branches -> SUBSET Adapters], awaits : SUBSET Branches]
  /\ MaxOps \in Nat /\ MaxTx \in Nat \ {0}
  /\ NoHandle \notin TxAdapters \X (1..MaxTx)

(* The n-th transaction begun on adapter a is <<a, n>>. *)
Handles == TxAdapters \X (1..MaxTx)
AdapterOf(h) == h[1]

VARIABLES
  txs,        \* this.txs, a Map in insertion order: at most one per adapter
  callbacks,  \* this.committed: <<branch, mutation>> that asked for a callback
  phase,      \* where transaction() and commit()/rollback() stand
  all,        \* `all` of commit()
  done,       \* committed.length of commit()
  undoing,    \* rollbacks called and not settled yet
  running,    \* afterCommit callbacks called and not settled yet
  ran,        \* afterCommit callbacks that settled
  error,      \* commit() is rejecting
  tx,         \* the adapters' side: the state of every transaction
  pc, at, handle, ops, \* per branch: position, adapter, handle, mutations done
  wrote,      \* handles under which a mutation reported success
  late,       \* history: handles a mutation got once the body had settled
  plan        \* the body of this unit

coordinator == <<txs, callbacks, phase, all, done, undoing, running, ran, error>>
branch == <<pc, at, handle, ops>>
vars == <<coordinator, tx, branch, wrote, late, plan>>

Phases == {"work", "commit", "undo", "callbacks", "rollback", "resolved", "rejected"}
Settled == {"resolved", "rejected"}
TxStates == {"unused", "open", "committed", "rolledback", "stuck", "misused"}
Ended == {"ended", "failed"}

Init ==
  /\ txs = <<>> /\ all = <<>> /\ done = 0
  /\ callbacks = {} /\ running = {} /\ ran = {} /\ undoing = {}
  /\ phase = "work" /\ error = FALSE
  /\ tx = [h \in Handles |-> "unused"]
  /\ pc = [b \in Branches |-> "run"]
  /\ at = [b \in Branches |-> CHOOSE a \in Adapters : TRUE]
  /\ handle = [b \in Branches |-> NoHandle]
  /\ ops = [b \in Branches |-> 0]
  /\ wrote = {} /\ late = {} /\ plan \in Plans

-------------------------------------------------------------------------------
(* handleFor *)

Existing(a) == {h \in Range(txs) : AdapterOf(h) = a}

(* Map.set: a key already there keeps its place and gets the new value. *)
Put(map, h) ==
  IF \E i \in DOMAIN map : AdapterOf(map[i]) = AdapterOf(h)
  THEN [i \in DOMAIN map |-> IF AdapterOf(map[i]) = AdapterOf(h) THEN h ELSE map[i]]
  ELSE Append(map, h)

Enter(b, position, h) ==
  /\ pc' = [pc EXCEPT ![b] = position]
  /\ handle' = [handle EXCEPT ![b] = h]

(* The handles among hs that come too late: the body has settled.          *)
TooLate(hs) == IF phase = "work" THEN {} ELSE hs

(* The synchronous part of handleFor: the transaction the map holds, no    *)
(* handle for an adapter without transactions, or a call to the adapter's  *)
(* beginTransaction, whose answer is awaited.                              *)
HandleFor(b, a) ==
  /\ pc[b] = "run" /\ ops[b] < MaxOps /\ a \in plan.work[b]
  /\ at' = [at EXCEPT ![b] = a] /\ late' = late \cup TooLate(Existing(a))
  /\ \/ \E h \in Existing(a) : Enter(b, "work", h)
     \/ Existing(a) = {} /\ a \notin TxAdapters /\ Enter(b, "work", NoHandle)
     \/ Existing(a) = {} /\ a \in TxAdapters /\ Enter(b, "begin", NoHandle)
  /\ UNCHANGED <<coordinator, tx, ops, wrote, plan>>

(* beginTransaction resolved: the map is set, whatever it holds by now. *)
BeginResolves(b) ==
  /\ pc[b] = "begin"
  /\ \E h \in Handles :
       /\ AdapterOf(h) = at[b] /\ tx[h] = "unused"
       /\ \A g \in Handles : AdapterOf(g) = at[b] /\ tx[g] = "unused" => h[2] <= g[2]
       /\ tx' = [tx EXCEPT ![h] = "open"]
       /\ txs' = Put(txs, h) /\ late' = late \cup TooLate({h})
       /\ Enter(b, "work", h)
  /\ UNCHANGED <<callbacks, phase, all, done, undoing, running, ran, error, at, ops, wrote, plan>>

BeginRejects(b) ==
  /\ pc[b] = "begin"
  /\ pc' = [pc EXCEPT ![b] = "failed"]
  /\ UNCHANGED <<coordinator, tx, at, handle, ops, wrote, late, plan>>

-------------------------------------------------------------------------------
(* The mutation itself *)

(* The adapter's write resolved, and the mutation asked for a callback     *)
(* after the commit (the read cache's invalidate does).                    *)
OpResolves(b) ==
  /\ pc[b] = "work"
  /\ wrote' = wrote \cup ({handle[b]} \ {NoHandle})
  /\ ops' = [ops EXCEPT ![b] = @ + 1]
  /\ callbacks' = callbacks \cup {<<b, ops[b] + 1>>}
  /\ pc' = [pc EXCEPT ![b] = "run"]
  /\ UNCHANGED <<txs, phase, all, done, undoing, running, ran, error, tx, at, handle, late, plan>>

(* It asks for the callback on a throw too: it may have written something. *)
OpRejects(b) ==
  /\ pc[b] = "work"
  /\ callbacks' = callbacks \cup {<<b, ops[b] + 1>>}
  /\ pc' = [pc EXCEPT ![b] = "failed"]
  /\ UNCHANGED <<txs, phase, all, done, undoing, running, ran, error, tx, at, handle, ops, wrote, late, plan>>

BranchEnds(b) ==
  /\ pc[b] = "run"
  /\ pc' = [pc EXCEPT ![b] = "ended"]
  /\ UNCHANGED <<coordinator, tx, at, handle, ops, wrote, late, plan>>

-------------------------------------------------------------------------------
(* commit() *)

(* A transaction is finalised once; a second call on it is a misuse.  A    *)
(* commit that fails leaves it open for the rollback.                      *)
Finalised(h, s) == [tx EXCEPT ![h] = IF @ = "open" THEN s ELSE "misused"]

(* Mutant: the map is not cleared. *)
FnResolvesKeepingTheMap ==
  /\ phase = "work" /\ \A b \in plan.awaits : pc[b] = "ended"
  /\ phase' = "commit" /\ all' = txs /\ txs' = txs /\ done' = 0
  /\ UNCHANGED <<callbacks, undoing, running, ran, error, tx, branch, wrote, late, plan>>

(* fn resolved, whatever the branches it did not await are doing: the      *)
(* prefix of commit() up to its first await.                               *)
FnResolves ==
  /\ phase = "work" /\ \A b \in plan.awaits : pc[b] = "ended"
  /\ phase' = "commit" /\ all' = txs /\ txs' = <<>> /\ done' = 0
  /\ UNCHANGED <<callbacks, undoing, running, ran, error, tx, branch, wrote, late, plan>>

CommitResolves ==
  /\ phase = "commit" /\ done < Len(all)
  /\ tx' = Finalised(all[done + 1], "committed")
  /\ done' = done + 1
  /\ UNCHANGED <<txs, callbacks, phase, all, undoing, running, ran, error, branch, wrote, late, plan>>

(* Mutants: the transaction whose commit rejects is passed over; every     *)
(* transaction is rolled back, the committed ones too.                     *)
RemainingAfterTheFailure == {all[i] : i \in done + 2 .. Len(all)}
RemainingUnfiltered == Range(all)

(* One commit rejects: everything not committed yet is rolled back, the    *)
(* rejecting transaction included.                                         *)
Remaining == {all[i] : i \in done + 1 .. Len(all)}

CommitRejects ==
  /\ phase = "commit" /\ done < Len(all)
  /\ phase' = "undo" /\ error' = TRUE /\ undoing' = Remaining
  /\ UNCHANGED <<txs, callbacks, all, done, running, ran, tx, branch, wrote, late, plan>>

(* The finally block. *)
RunCallbacks ==
  /\ phase' = "callbacks"
  /\ running' = IF done > 0 \/ Len(all) = 0 THEN callbacks ELSE {}
  /\ callbacks' = {}
  /\ UNCHANGED <<txs, all, done, undoing, ran, error, tx, branch, wrote, late, plan>>

CommitEnds == phase = "commit" /\ done = Len(all) /\ RunCallbacks

(* Mutants: the rollbacks are not awaited; a failed one is waited for. *)
UndoNotAwaited == phase = "undo" /\ RunCallbacks
UndoWaitsForSuccess ==
  phase = "undo" /\ (\A h \in Remaining : tx[h] = "rolledback") /\ RunCallbacks
UndoEnds == phase = "undo" /\ undoing = {} /\ RunCallbacks

CallbackSettles(c) ==
  /\ c \in running
  /\ running' = running \ {c} /\ ran' = ran \cup {c}
  /\ UNCHANGED <<txs, callbacks, phase, all, done, undoing, error, tx, branch, wrote, late, plan>>

-------------------------------------------------------------------------------
(* rollback() *)

StartRollback ==
  /\ phase' = "rollback"
  /\ callbacks' = {} /\ undoing' = Range(txs) /\ txs' = <<>>
  /\ UNCHANGED <<all, done, running, ran, error, tx, branch, wrote, late, plan>>

FnRejects == phase = "work" /\ (\E b \in plan.awaits : pc[b] = "failed") /\ StartRollback

CommitThrows == phase = "callbacks" /\ running = {} /\ error /\ StartRollback

(* allSettled: a rollback that fails is passed over. *)
RollbackSettles(h) ==
  /\ h \in undoing
  /\ undoing' = undoing \ {h}
  /\ \E s \in {"rolledback", "stuck"} : tx' = Finalised(h, s)
  /\ UNCHANGED <<txs, callbacks, phase, all, done, running, ran, error, branch, wrote, late, plan>>

(* transaction() returns or throws. *)
Settle(from, to) ==
  /\ phase = from /\ phase' = to
  /\ UNCHANGED <<txs, callbacks, all, done, undoing, running, ran, error, tx, branch, wrote, late, plan>>

(* Mutant: the error of commit() is swallowed. *)
ReturnsAnyway == running = {} /\ Settle("callbacks", "resolved")
Returns == running = {} /\ ~error /\ Settle("callbacks", "resolved")
Throws == undoing = {} /\ Settle("rollback", "rejected")

-------------------------------------------------------------------------------
BranchStep(b) ==
  \/ \E a \in Adapters : HandleFor(b, a)
  \/ BeginResolves(b) \/ BeginRejects(b)
  \/ OpResolves(b) \/ OpRejects(b) \/ BranchEnds(b)

CoordinatorStep ==
  \/ FnResolves \/ FnRejects
  \/ CommitResolves \/ CommitRejects \/ CommitEnds
  \/ UndoEnds \/ CommitThrows \/ Returns \/ Throws
  \/ \E c \in running : CallbackSettles(c)
  \/ \E h \in undoing : RollbackSettles(h)

(* The unit is over: it has settled and no branch is still running. *)
Over ==
  /\ phase \in Settled /\ \A b \in Branches : pc[b] \in Ended
  /\ UNCHANGED vars

Next == (\E b \in Branches : BranchStep(b)) \/ CoordinatorStep \/ Over

Spec == Init /\ [][Next]_vars

(* Adapters answer every call they get and bodies end: nothing waits for ever. *)
FairSpec == Spec /\ WF_vars(CoordinatorStep) /\ \A b \in Branches : WF_vars(BranchStep(b))
-------------------------------------------------------------------------------
(* Properties *)

OnePerAdapter(map) ==
  \A i, j \in DOMAIN map : AdapterOf(map[i]) = AdapterOf(map[j]) => i = j

TypeOK ==
  /\ txs \in Seq(Handles) /\ all \in Seq(Handles)
  /\ OnePerAdapter(txs) /\ OnePerAdapter(all)
  /\ done \in 0..Len(all)
  /\ phase \in Phases /\ error \in BOOLEAN
  /\ undoing \subseteq Handles
  /\ callbacks \subseteq Branches \X Nat
  /\ running \subseteq Branches \X Nat /\ ran \subseteq Branches \X Nat
  /\ tx \in [Handles -> TxStates]
  /\ pc \in [Branches -> {"run", "begin", "work"} \cup Ended]
  /\ at \in [Branches -> Adapters]
  /\ handle \in [Branches -> Handles \cup {NoHandle}]
  /\ ops \in [Branches -> Nat]
  /\ wrote \subseteq Handles /\ late \subseteq Handles
  /\ plan \in [work : [Branches -> SUBSET Adapters], awaits : SUBSET Branches]

(* A mutation the body did not await may still ask for a transaction when  *)
(* the body has settled.  It is never handed one that commit() is about to *)
(* commit: what it writes after its siblings were decided on cannot become *)
(* part of what commits (transaction.ts clears the map before the first    *)
(* await of commit() and of rollback()), whichever of its awaits - begin,  *)
(* write - the settling falls into.                                        *)
LateWorkIsNeverCommitted == \A h \in late : tx[h] # "committed"

(* No transaction is finalised twice: none is committed and rolled back,   *)
(* and none is rolled back by commit() and again by transaction()'s catch, *)
(* which calls rollback() on a coordinator whose commit() just threw.      *)
NeverFinalisedTwice == \A h \in Handles : tx[h] # "misused"

(* A body that awaits every mutation before it goes on to the next: one    *)
(* branch has all the work, and no branch is let go of.                    *)
AwaitsEveryMutation ==
  /\ plan.awaits = Branches
  /\ \A b, c \in Branches : plan.work[b] # {} /\ plan.work[c] # {} => b = c

(* When transaction() returns, everything a mutation of the body wrote on  *)
(* a transactional adapter is committed (engine/transactions.ts: "they     *)
(* commit together on success and all" roll back on a throw).              *)
ReturnMeansCommitted ==
  phase = "resolved" => \A h \in wrote : tx[h] = "committed"

(* A body that awaits every mutation gets that, and when transaction() has *)
(* returned or thrown no adapter transaction is left open, a begin or a    *)
(* commit that failed included ("commit() commits all, rollback() rolls    *)
(* all back", transaction.ts).                                             *)
NothingLeftOpen ==
  AwaitsEveryMutation =>
    /\ ReturnMeansCommitted
    /\ phase \in Settled /\ (\A b \in Branches : pc[b] \in Ended)
         => \A h \in Handles : tx[h] # "open"

(* The callbacks of the mutations that the body awaited run exactly when   *)
(* data changed: all of them when some adapter committed (a partial commit *)
(* included) or when nothing was transactional, and none, of whichever     *)
(* mutation, when the work was undone.  And each finds every commit and    *)
(* rollback of the unit answered: a read that it lets back into the cache  *)
(* cannot see rows from before a commit that is still under way.           *)
Registered == {c \in Branches \X (1..MaxOps) : c[2] <= ops[c[1]]}
OfAwaited(cs) == {c \in cs : c[1] \in plan.awaits}
CallbacksFollowTheCommits ==
  /\ phase \in Settled =>
       IF phase = "resolved" \/ \E h \in Handles : tx[h] = "committed"
       THEN OfAwaited(ran) = OfAwaited(Registered)
       ELSE ran = {}
  /\ running # {} => \A h \in Range(all) : tx[h] # "open"

(* Every unit of work ends: no failure of a commit, a rollback or a        *)
(* callback leaves transaction() waiting.                                  *)
EventuallySettles == <>(phase \in Settled)

Verdict ==
  IF phase = "work" THEN "undecided"
  ELSE IF phase \in {"rollback", "rejected"} /\ ~error THEN "undo"
  ELSE IF error THEN "partial"
  ELSE "commit"

(* Of a body with concurrent mutations the promise says nothing.           *)
Promised(value, otherwise) == IF AwaitsEveryMutation THEN value ELSE otherwise

Promise == INSTANCE UnitOfWork WITH
  Adapters <- TxAdapters,
  state <- [a \in TxAdapters |-> Promised(tx[<<a, 1>>], "unused")],
  verdict <- Promised(Verdict, "undecided"),
  outcome <- Promised(IF phase \in Settled THEN phase ELSE "pending", "pending")

(* A body that awaits every mutation gets what UnitOfWork promises: one    *)
(* transaction per adapter, all of them committed, or all undone, or the   *)
(* rest undone after a commit that was refused, and no other outcome.      *)
KeepsThePromise == Promise!Spec
===============================================================================
