------------------------------ MODULE UnitOfWork ------------------------------
(***************************************************************************)
(* What a coordinated unit of work over several adapters promises          *)
(* (packages/ormize/src/transaction.ts, the class comment): one            *)
(* transaction per adapter, begun on first use; the adapters commit        *)
(* together once the work succeeded, all roll back when it failed; and a   *)
(* failure in the middle of the commits rolls back what had not committed  *)
(* (best effort, not two-phase commit).  The unit settles only when no     *)
(* adapter transaction is left open.                                       *)
(***************************************************************************)
CONSTANT Adapters

VARIABLES
  state,      \* the transaction of each adapter
  verdict,    \* what was decided about the work as a whole
  outcome     \* what the caller has been told

abstractVars == <<state, verdict, outcome>>

Init ==
  /\ state = [a \in Adapters |-> "unused"]
  /\ verdict = "undecided"
  /\ outcome = "pending"

Open(a) ==
  /\ verdict = "undecided" /\ state[a] = "unused"
  /\ state' = [state EXCEPT ![a] = "open"]
  /\ UNCHANGED <<verdict, outcome>>

Decide ==
  /\ verdict = "undecided"
  /\ verdict' \in {"commit", "undo"}
  /\ UNCHANGED <<state, outcome>>

Commit(a) ==
  /\ verdict = "commit" /\ outcome = "pending" /\ state[a] = "open"
  /\ state' = [state EXCEPT ![a] = "committed"]
  /\ UNCHANGED <<verdict, outcome>>

(* One adapter refused to commit: the others that have not committed yet   *)
(* are undone, the ones that have stay committed.                          *)
CommitRefused ==
  /\ verdict = "commit" /\ outcome = "pending"
  /\ \E a \in Adapters : state[a] = "open"
  /\ verdict' = "partial"
  /\ UNCHANGED <<state, outcome>>

Undo(a) ==
  /\ verdict \in {"undo", "partial"} /\ outcome = "pending" /\ state[a] = "open"
  /\ \E s \in {"rolledback", "stuck"} : state' = [state EXCEPT ![a] = s]
  /\ UNCHANGED <<verdict, outcome>>

Settle ==
  /\ outcome = "pending" /\ verdict # "undecided"
  /\ \A a \in Adapters : state[a] # "open"
  /\ outcome' = IF verdict = "commit" THEN "resolved" ELSE "rejected"
  /\ UNCHANGED <<state, verdict>>

Next ==
  \/ Decide \/ CommitRefused \/ Settle
  \/ \E a \in Adapters : Open(a) \/ Commit(a) \/ Undo(a)

Spec == Init /\ [][Next]_abstractVars
===============================================================================
