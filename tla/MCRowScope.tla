------------------------------ MODULE MCRowScope ------------------------------
(* Small instances of RowScope: two tasks over two rows of two owners.     *)
EXTENDS RowScope, Sequences

CONSTANTS p1, p2, o1, o2, r1, r2, t1, t2

Finding(p, k, w) == [kind |-> k, by |-> p, wants |-> Owners, value |-> NoValue, rewrites |-> w]
Writing(k, v) == [kind |-> k, by |-> p1, wants |-> Owners, value |-> v, rewrites |-> FALSE]

Asked == <<
  Finding(p1, "find", TRUE), Finding(p2, "find", FALSE), Finding(p1, "rawFind", FALSE),
  Writing("create", o1), Writing("update", o2), Writing("delete", NoValue),
  Writing("restore", NoValue), Writing("select", NoValue)>>

(* Any two of them: which task asks which does not matter.                 *)
MCRequests ==
  {[t \in {t1, t2} |-> IF t = t1 THEN Asked[p[1]] ELSE Asked[p[2]]] :
     p \in {q \in (1 .. 8) \X (1 .. 8) : q[1] <= q[2]}}

MCAnswers ==
  {[says |-> "allow", where |-> {o1}, set |-> NoValue],
   [says |-> "allow", where |-> {o1, o2}, set |-> o1],
   [says |-> "deny", where |-> {}, set |-> NoValue],
   [says |-> "fail", where |-> {}, set |-> NoValue]}

(* The Sequelize adapter, and one with neither hooks nor transactions.    *)
MCAdapters == {<<TRUE, TRUE>>, <<FALSE, FALSE>>}

(* A live row of one owner and, of the other, a live, a deleted or a free one. *)
MCTables ==
  {t \in Tables : t[r1] = [state |-> "live", owner |-> o1] /\ t[r2].owner = o2}
===============================================================================
