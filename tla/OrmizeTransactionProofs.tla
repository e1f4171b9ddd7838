------------------------ MODULE OrmizeTransactionProofs ------------------------
(***************************************************************************)
(* Proofs about OrmizeTransaction, for every set of adapters and branches: *)
(* whatever fails, whatever the body awaits and however the branches       *)
(* interleave, the coordinator finalises no transaction twice, commits     *)
(* nothing that a mutation began after the body had settled and runs the   *)
(* callbacks after the commits; and to a body that awaits every mutation   *)
(* it keeps the promise of UnitOfWork.                                     *)
(***************************************************************************)
EXTENDS OrmizeTransaction, SequenceTheorems, TLAPS

-------------------------------------------------------------------------------
(* The invariant: the coordinator only holds transactions that are open,   *)
(* and each of them in one place: what commit() has taken out of the map   *)
(* is never in it again.                                                   *)

AwaitedEnded == \A b \in plan.awaits : pc[b] = "ended"

HeldAreOpen ==
  /\ \A i \in DOMAIN txs : tx[txs[i]] = "open"
  /\ \A h \in undoing : tx[h] = "open" /\ h \notin Range(txs)
  /\ phase = "commit" => \A i \in DOMAIN all : i > done => tx[all[i]] = "open"
Ownership ==
  /\ phase \notin {"undo", "rollback"} => undoing = {}
  /\ \A i \in DOMAIN all : tx[all[i]] # "unused" /\ all[i] \notin Range(txs)

Inv == TypeOK /\ HeldAreOpen /\ Ownership /\ NeverFinalisedTwice

LEMMA NothingHeld ==
  /\ <<>> \in Seq(Handles) /\ Len(<<>>) = 0 /\ 0 \in 0..0
  /\ OnePerAdapter(<<>>)
<1>1. <<>> \in Seq(Handles) /\ Len(<<>>) = 0 /\ 0 \in 0..0
  OBVIOUS
<1>2. DOMAIN <<>> = {}
  OBVIOUS
<1> QED BY <1>1, <1>2 DEF OnePerAdapter

LEMMA InvInit == Init => Inv
<1> SUFFICES ASSUME Init PROVE Inv
  OBVIOUS
<1>1. (CHOOSE a \in Adapters : TRUE) \in Adapters
  BY AdaptersAssumption
<1>2. TypeOK
  BY <1>1, NothingHeld, AdaptersAssumption DEF Init, TypeOK, Phases, TxStates, Ended
<1> QED
  BY <1>2 DEF Init, Inv, HeldAreOpen, Ownership, NeverFinalisedTwice, Range

-------------------------------------------------------------------------------
(* The transaction map *)

(* Setting the map keeps one transaction per adapter, and leaves nothing   *)
(* in it but the new handle and handles that were there.                   *)
LEMMA PutType ==
  ASSUME NEW map \in Seq(Handles), OnePerAdapter(map), NEW h \in Handles
  PROVE  /\ Put(map, h) \in Seq(Handles)
         /\ OnePerAdapter(Put(map, h))
         /\ \A i \in DOMAIN Put(map, h) : Put(map, h)[i] = h \/ Put(map, h)[i] \in Range(map)
<1>1. CASE \E i \in DOMAIN map : AdapterOf(map[i]) = AdapterOf(h)
  <2> DEFINE new == [i \in DOMAIN map |-> IF AdapterOf(map[i]) = AdapterOf(h) THEN h ELSE map[i]]
  <2>1. Put(map, h) = new BY <1>1 DEF Put
  <2>2. new \in [1..Len(map) -> Handles] /\ Len(map) \in Nat
    OBVIOUS
  <2>3. new \in Seq(Handles) BY <2>2, SeqDef
  <2>4. \A i \in DOMAIN new : AdapterOf(new[i]) = AdapterOf(map[i])
    OBVIOUS
  <2>5. OnePerAdapter(new) BY <2>4 DEF OnePerAdapter
  <2>6. \A i \in DOMAIN new : new[i] = h \/ new[i] \in Range(map)
    BY DEF Range
  <2> QED BY <2>1, <2>3, <2>5, <2>6
<1>2. CASE ~ \E i \in DOMAIN map : AdapterOf(map[i]) = AdapterOf(h)
  <2>1. Put(map, h) = Append(map, h) BY <1>2 DEF Put
  <2>2. /\ Append(map, h) \in Seq(Handles)
        /\ DOMAIN map = 1..Len(map) /\ DOMAIN Append(map, h) = 1..(Len(map) + 1)
        /\ \A i \in 1..Len(map) : Append(map, h)[i] = map[i]
        /\ Append(map, h)[Len(map) + 1] = h /\ Len(map) \in Nat
    OBVIOUS
  <2>3. \A i \in DOMAIN Append(map, h) : i \in DOMAIN map \/ i = Len(map) + 1
    BY <2>2
  <2>4. OnePerAdapter(Append(map, h)) BY <1>2, <2>2, <2>3 DEF OnePerAdapter
  <2> QED BY <2>1, <2>2, <2>3, <2>4 DEF Range
<1> QED BY <1>1, <1>2

(* Finalising an open transaction is no misuse and touches no other.       *)
LEMMA FinalisedOpen ==
  ASSUME TypeOK, NEW h \in Handles, tx[h] = "open", NEW s \in {"committed", "rolledback", "stuck"}
  PROVE  /\ Finalised(h, s) \in [Handles -> TxStates]
         /\ Finalised(h, s)[h] = s
         /\ \A g \in Handles : g # h => Finalised(h, s)[g] = tx[g]
BY DEF TypeOK, Finalised, TxStates

-------------------------------------------------------------------------------
(* The branches *)

LEMMA InvBranchStep ==
  ASSUME Inv, NEW b \in Branches, BranchStep(b)
  PROVE  Inv'
<1> USE DEF Inv, Enter, branch, coordinator
<1>3. CASE \E a \in Adapters : HandleFor(b, a)
  <2>1. PICK a \in Adapters : HandleFor(b, a) BY <1>3
  <2>2. Existing(a) \subseteq Handles BY DEF Existing, TypeOK, Range
  <2>3. late' \subseteq Handles BY <2>1, <2>2 DEF HandleFor, TooLate, TypeOK
  <2>4. TypeOK' BY <2>1, <2>2, <2>3 DEF HandleFor, TypeOK, Ended
  <2> QED BY <2>1, <2>4 DEF HandleFor, HeldAreOpen, Ownership, NeverFinalisedTwice
<1>4. CASE BeginResolves(b)
  <2>1. PICK h \in Handles : /\ tx[h] = "unused" /\ tx' = [tx EXCEPT ![h] = "open"]
                             /\ txs' = Put(txs, h) /\ Enter(b, "work", h)
                             /\ late' = late \cup TooLate({h})
    BY <1>4 DEF BeginResolves
  <2>2. /\ txs' \in Seq(Handles) /\ OnePerAdapter(txs')
        /\ \A i \in DOMAIN txs' : txs'[i] = h \/ txs'[i] \in Range(txs)
    BY <2>1, PutType DEF TypeOK
  <2>3. TypeOK' BY <1>4, <2>1, <2>2 DEF BeginResolves, TypeOK, TooLate, Ended, TxStates
  <2>4. tx'[h] = "open" /\ \A g \in Handles : g # h => tx'[g] = tx[g]
    BY <2>1 DEF TypeOK
  <2>5. \A g \in Range(txs) : g \in Handles /\ g # h /\ tx[g] = "open"
    BY <2>1 DEF Range, HeldAreOpen, TypeOK
  <2>6. \A i \in DOMAIN txs' : tx'[txs'[i]] = "open" /\ (txs'[i] = h \/ txs'[i] \in Range(txs))
    BY <2>2, <2>4, <2>5
  <2>7. \A g \in undoing : g \in Handles /\ g # h /\ tx'[g] = "open" /\ g \notin Range(txs')
    <3> SUFFICES ASSUME NEW g \in undoing
                 PROVE  g \in Handles /\ g # h /\ tx'[g] = "open" /\ g \notin Range(txs')
      OBVIOUS
    <3>1. g \in Handles /\ tx[g] = "open" /\ g \notin Range(txs)
      BY DEF HeldAreOpen, TypeOK
    <3>2. g # h BY <2>1, <3>1
    <3>3. \A i \in DOMAIN txs' : txs'[i] # g BY <2>6, <3>1, <3>2
    <3> QED BY <2>4, <3>1, <3>2, <3>3 DEF Range
  <2>8. ASSUME NEW i \in DOMAIN all
        PROVE  /\ all[i] \in Handles /\ all[i] # h /\ tx'[all[i]] = tx[all[i]]
               /\ tx[all[i]] # "unused" /\ all[i] \notin Range(txs')
    <3>1. all[i] \in Handles /\ tx[all[i]] # "unused" /\ all[i] \notin Range(txs)
      BY DEF Ownership, TypeOK
    <3>2. all[i] # h BY <2>1, <3>1
    <3>3. \A j \in DOMAIN txs' : txs'[j] # all[i] BY <2>2, <3>1, <3>2
    <3> QED BY <2>4, <3>1, <3>2, <3>3 DEF Range
  <2>9. HeldAreOpen' BY <1>4, <2>6, <2>7, <2>8 DEF BeginResolves, HeldAreOpen
  <2>10. Ownership' BY <1>4, <2>8 DEF BeginResolves, Ownership
  <2>11. NeverFinalisedTwice' BY <2>1, <2>4 DEF NeverFinalisedTwice
  <2> QED BY <2>3, <2>9, <2>10, <2>11
<1>5. CASE BeginRejects(b)
  <2>1. TypeOK' BY <1>5 DEF BeginRejects, TypeOK, Ended
  <2> QED BY <1>5, <2>1 DEF BeginRejects, HeldAreOpen, Ownership, NeverFinalisedTwice
<1>6. CASE OpResolves(b)
  <2>1. TypeOK' BY <1>6 DEF OpResolves, TypeOK, Ended
  <2> QED BY <1>6, <2>1 DEF OpResolves, HeldAreOpen, Ownership, NeverFinalisedTwice
<1>7. CASE OpRejects(b)
  <2>1. TypeOK' BY <1>7 DEF OpRejects, TypeOK, Ended
  <2> QED BY <1>7, <2>1 DEF OpRejects, HeldAreOpen, Ownership, NeverFinalisedTwice
<1>8. CASE BranchEnds(b)
  <2>1. TypeOK' BY <1>8 DEF BranchEnds, TypeOK, Ended
  <2> QED BY <1>8, <2>1 DEF BranchEnds, HeldAreOpen, Ownership, NeverFinalisedTwice
<1> QED BY <1>3, <1>4, <1>5, <1>6, <1>7, <1>8 DEF BranchStep

-------------------------------------------------------------------------------
(* The coordinator *)

LEMMA InvFinaliseStep ==
  ASSUME Inv, CommitResolves \/ \E h \in undoing : RollbackSettles(h)
  PROVE  Inv'
<1> USE DEF Inv, branch
<1>1. CASE CommitResolves
  <2> DEFINE h == all[done + 1]
  <2>1. /\ phase = "commit" /\ done + 1 \in DOMAIN all /\ h \in Handles /\ tx[h] = "open"
        /\ h \notin Range(txs) /\ undoing = {}
    BY <1>1 DEF CommitResolves, TypeOK, HeldAreOpen, Ownership
  <2>2. /\ tx' \in [Handles -> TxStates] /\ tx'[h] = "committed"
        /\ \A g \in Handles : g # h => tx'[g] = tx[g]
    BY <1>1, <2>1, FinalisedOpen DEF CommitResolves
  <2>3. done' = done + 1 /\ done' \in 0..Len(all)
    BY <1>1 DEF CommitResolves, TypeOK
  <2>4. TypeOK' BY <1>1, <2>2, <2>3 DEF CommitResolves, TypeOK
  <2>5. \A i \in DOMAIN all : i > done' => all[i] \in Handles /\ all[i] # h /\ tx[all[i]] = "open"
    BY <2>1, <2>3 DEF TypeOK, OnePerAdapter, HeldAreOpen
  <2>6. \A i \in DOMAIN txs : txs[i] \in Handles /\ txs[i] # h
    BY <2>1 DEF TypeOK, Range
  <2>7. HeldAreOpen' BY <1>1, <2>1, <2>2, <2>5, <2>6 DEF CommitResolves, HeldAreOpen
  <2>8. \A g \in Handles : tx[g] # "unused" => tx'[g] # "unused"
    BY <2>2
  <2>9. Ownership' BY <1>1, <2>1, <2>8 DEF CommitResolves, Ownership, TypeOK
  <2>10. NeverFinalisedTwice' BY <2>2 DEF NeverFinalisedTwice
  <2> QED BY <2>4, <2>7, <2>9, <2>10
<1>2. ASSUME NEW h \in undoing, RollbackSettles(h) PROVE Inv'
  <2>1. h \in Handles /\ tx[h] = "open" /\ phase # "commit" /\ h \notin Range(txs)
    BY <1>2 DEF TypeOK, HeldAreOpen, Ownership
  <2>2. PICK s \in {"rolledback", "stuck"} : tx' = Finalised(h, s)
    BY <1>2 DEF RollbackSettles
  <2>3. /\ tx' \in [Handles -> TxStates] /\ tx'[h] = s
        /\ \A g \in Handles : g # h => tx'[g] = tx[g]
    BY <2>1, <2>2, FinalisedOpen
  <2>4. TypeOK' BY <1>2, <2>3 DEF RollbackSettles, TypeOK
  <2>5. \A i \in DOMAIN txs : txs[i] \in Handles /\ txs[i] # h
    BY <2>1 DEF TypeOK, Range
  <2>6. HeldAreOpen' BY <1>2, <2>1, <2>3, <2>5 DEF RollbackSettles, HeldAreOpen, TypeOK
  <2>7. \A g \in Handles : tx[g] # "unused" => tx'[g] # "unused"
    BY <2>3
  <2>8. Ownership' BY <1>2, <2>7 DEF RollbackSettles, Ownership, TypeOK
  <2>9. NeverFinalisedTwice' BY <2>3 DEF NeverFinalisedTwice
  <2> QED BY <2>4, <2>6, <2>8, <2>9
<1> QED BY <1>1, <1>2

LEMMA InvCoordinatorStep ==
  ASSUME Inv, CoordinatorStep
  PROVE  Inv'
<1> USE DEF Inv, branch
<1>1. tx' = tx => NeverFinalisedTwice'
  BY DEF NeverFinalisedTwice
<1>2. Range(<<>>) = {} /\ Range(txs) \subseteq Handles
  BY NothingHeld DEF Range, TypeOK
<1>3. CASE FnResolves
  <2>1. TypeOK' BY <1>3, NothingHeld DEF FnResolves, TypeOK, Phases
  <2>2. HeldAreOpen' BY <1>3, <1>2 DEF FnResolves, HeldAreOpen, Ownership
  <2>3. \A i \in DOMAIN txs : tx[txs[i]] # "unused" BY DEF HeldAreOpen
  <2>4. Ownership' BY <1>3, <1>2, <2>3 DEF FnResolves, Ownership
  <2> QED BY <1>1, <1>3, <2>1, <2>2, <2>4 DEF FnResolves
<1>4. CASE CommitRejects
  <2>1. Remaining \subseteq Handles /\ \A h \in Remaining : tx[h] = "open" /\ h \notin Range(txs)
    BY <1>4 DEF CommitRejects, Remaining, TypeOK, HeldAreOpen, Ownership
  <2>2. TypeOK' BY <1>4, <2>1 DEF CommitRejects, TypeOK, Phases
  <2>3. HeldAreOpen' BY <1>4, <2>1 DEF CommitRejects, HeldAreOpen
  <2>4. Ownership' BY <1>4 DEF CommitRejects, Ownership
  <2> QED BY <1>1, <1>4, <2>2, <2>3, <2>4 DEF CommitRejects
<1>5. CASE CommitEnds \/ UndoEnds
  <2>1. TypeOK' BY <1>5 DEF CommitEnds, UndoEnds, RunCallbacks, TypeOK, Phases
  <2>2. HeldAreOpen' BY <1>5 DEF CommitEnds, UndoEnds, RunCallbacks, HeldAreOpen
  <2>3. Ownership' BY <1>5 DEF CommitEnds, UndoEnds, RunCallbacks, Ownership
  <2> QED BY <1>1, <1>5, <2>1, <2>2, <2>3 DEF CommitEnds, UndoEnds, RunCallbacks
<1>6. CASE FnRejects \/ CommitThrows
  <2>1. TypeOK' BY <1>6, <1>2, NothingHeld DEF FnRejects, CommitThrows, StartRollback, TypeOK, Phases
  <2>2. \A h \in Range(txs) : tx[h] = "open" BY DEF HeldAreOpen, Range
  <2>3. HeldAreOpen' BY <1>6, <1>2, <2>2 DEF FnRejects, CommitThrows, StartRollback, HeldAreOpen
  <2>4. Ownership' BY <1>6, <1>2 DEF FnRejects, CommitThrows, StartRollback, Ownership
  <2> QED BY <1>1, <1>6, <2>1, <2>3, <2>4 DEF FnRejects, CommitThrows, StartRollback
<1>7. CASE Returns \/ Throws
  <2>1. TypeOK' BY <1>7 DEF Returns, Throws, Settle, TypeOK, Phases
  <2>2. HeldAreOpen' /\ Ownership' BY <1>7 DEF Returns, Throws, Settle, HeldAreOpen, Ownership
  <2> QED BY <1>1, <1>7, <2>1, <2>2 DEF Returns, Throws, Settle
<1>8. CASE \E c \in running : CallbackSettles(c)
  <2>1. TypeOK' BY <1>8 DEF CallbackSettles, TypeOK
  <2>2. HeldAreOpen' /\ Ownership' BY <1>8 DEF CallbackSettles, HeldAreOpen, Ownership
  <2> QED BY <1>1, <1>8, <2>1, <2>2 DEF CallbackSettles
<1> QED BY <1>3, <1>4, <1>5, <1>6, <1>7, <1>8, InvFinaliseStep DEF CoordinatorStep

LEMMA Invariance == Spec => []Inv
<1>1. Inv /\ [Next]_vars => Inv'
  <2> SUFFICES ASSUME Inv, [Next]_vars PROVE Inv'
    OBVIOUS
  <2>1. CASE \E b \in Branches : BranchStep(b) BY <2>1, InvBranchStep
  <2>2. CASE CoordinatorStep BY <2>2, InvCoordinatorStep
  <2>3. CASE UNCHANGED vars
    BY <2>3 DEF vars, coordinator, branch, Inv, TypeOK, HeldAreOpen, Ownership, NeverFinalisedTwice
  <2> QED BY <2>1, <2>2, <2>3 DEF Next, Over
<1> QED BY <1>1, InvInit, PTL DEF Spec

-------------------------------------------------------------------------------
(* The coordinator's state is well typed, its two lists hold one           *)
(* transaction per adapter, and the counters stay inside them.             *)
THEOREM TypesHold == Spec => []TypeOK
BY Invariance, PTL DEF Inv

(* No adapter transaction is committed or rolled back a second time.       *)
THEOREM FinalisedOnce == Spec => []NeverFinalisedTwice
BY Invariance, PTL DEF Inv

-------------------------------------------------------------------------------
(* What the callbacks wait for.  `all` up to `done` is what has been       *)
(* committed, an error means that one commit was refused, and the          *)
(* callbacks owed are those of the awaited mutations that succeeded.       *)

Counted ==
  \A b \in Branches : /\ ops[b] \in 0..MaxOps
                      /\ pc[b] \in {"begin", "work"} => ops[b] < MaxOps
Kept ==
  /\ \A h \in Handles : tx[h] = "committed" <=> \E i \in 1..done : h = all[i]
  /\ phase = "work" => done = 0 /\ ~error /\ all = <<>>
  /\ phase = "commit" => ~error
  /\ phase = "undo" => error
  /\ error => done < Len(all)
  /\ phase \in {"callbacks", "resolved"} /\ ~error => done = Len(all)
  /\ phase = "resolved" => ~error
  /\ phase \in {"commit", "undo", "callbacks", "resolved"} \/ done > 0 => AwaitedEnded
Answered ==
  /\ phase = "undo" => \A i \in DOMAIN all : tx[all[i]] = "open" => all[i] \in undoing
  /\ phase = "callbacks" => \A i \in DOMAIN all : tx[all[i]] # "open"

Owed(cs) == OfAwaited(cs) = OfAwaited(Registered)
CallbacksDue ==
  /\ phase = "work" => /\ OfAwaited(Registered) \subseteq OfAwaited(callbacks)
                       /\ \A c \in OfAwaited(callbacks) : c \in Registered \/ pc[c[1]] = "failed"
  /\ phase \in {"work", "commit", "undo"} => running = {} /\ ran = {}
  /\ phase \in {"commit", "undo"} => Owed(callbacks)
  /\ phase = "callbacks" => IF done > 0 \/ Len(all) = 0 THEN Owed(running \cup ran)
                            ELSE running \cup ran = {}
  /\ phase \in {"rollback", "rejected"} => running = {} /\ IF done > 0 THEN Owed(ran) ELSE ran = {}
  /\ phase = "resolved" => running = {} /\ Owed(ran)

CommitInv == Counted /\ Kept /\ Answered /\ CallbacksDue

LEMMA CommitInvInit == Init => CommitInv
<1> SUFFICES ASSUME Init PROVE CommitInv
  OBVIOUS
<1>1. Counted BY AdaptersAssumption DEF Init, Counted
<1>2. Kept BY DEF Init, Kept
<1>3. Answered BY DEF Init, Answered
<1>4. OfAwaited(Registered) = {} /\ OfAwaited(callbacks) = {} BY DEF Init, Registered, OfAwaited
<1>5. CallbacksDue BY <1>4 DEF Init, CallbacksDue
<1> QED BY <1>1, <1>2, <1>3, <1>5 DEF CommitInv

LEMMA BranchFrame ==
  ASSUME NEW b \in Branches, BranchStep(b)
  PROVE  /\ UNCHANGED <<phase, all, done, undoing, running, ran, error, plan>>
         /\ pc[b] \in {"run", "begin", "work"}
BY DEF BranchStep, HandleFor, BeginResolves, BeginRejects, OpResolves, OpRejects, BranchEnds,
       coordinator

(* The tx of a branch step is never one that the lists of commit() hold.   *)
LEMMA BranchTx ==
  ASSUME Inv, NEW b \in Branches, BranchStep(b)
  PROVE  \A h \in Handles : tx'[h] = tx[h] \/ (tx[h] = "unused" /\ tx'[h] = "open")
<1>1. CASE BeginResolves(b)
  <2>1. PICK g \in Handles : tx[g] = "unused" /\ tx' = [tx EXCEPT ![g] = "open"]
    BY <1>1 DEF BeginResolves
  <2> QED BY <2>1 DEF Inv, TypeOK
<1>2. CASE ~BeginResolves(b)
  <2>1. tx' = tx
    BY <1>2 DEF BranchStep, HandleFor, BeginRejects, OpResolves, OpRejects, BranchEnds
  <2> QED BY <2>1
<1> QED BY <1>1, <1>2

(* A mutation that ends is counted, and its callback is registered.        *)
LEMMA Registers ==
  ASSUME Inv, CommitInv, NEW b \in Branches, OpResolves(b)
  PROVE  Registered' = Registered \cup {<<b, ops[b] + 1>>}
<1>1. /\ ops' = [ops EXCEPT ![b] = @ + 1] /\ ops \in [Branches -> Nat]
      /\ ops[b] + 1 \in 1..MaxOps /\ MaxOps \in Nat
  BY AdaptersAssumption DEF OpResolves, CommitInv, Counted, Inv, TypeOK
<1>2. \A c \in Branches, n \in 1..MaxOps :
        n <= ops'[c] <=> n <= ops[c] \/ (c = b /\ n = ops[b] + 1)
  BY <1>1
<1> QED BY <1>1, <1>2 DEF Registered

LEMMA BranchCallbacks ==
  ASSUME Inv, CommitInv, NEW b \in Branches, BranchStep(b)
  PROVE  \/ Registered' = Registered /\ callbacks' = callbacks
         \/ /\ Registered' = Registered \cup {<<b, ops[b] + 1>>}
            /\ callbacks' = callbacks \cup {<<b, ops[b] + 1>>}
         \/ /\ Registered' = Registered /\ pc'[b] = "failed"
            /\ callbacks' = callbacks \cup {<<b, ops[b] + 1>>}
<1>1. CASE OpResolves(b) BY <1>1, Registers DEF OpResolves
<1>2. CASE ~OpResolves(b)
  <2>1. Registered' = Registered
    BY <1>2 DEF BranchStep, HandleFor, BeginResolves, BeginRejects, OpRejects, BranchEnds, Registered
  <2>2. \/ callbacks' = callbacks
        \/ callbacks' = callbacks \cup {<<b, ops[b] + 1>>} /\ pc'[b] = "failed"
    BY <1>2 DEF BranchStep, HandleFor, BeginResolves, BeginRejects, OpRejects, BranchEnds,
                coordinator, Inv, TypeOK
  <2> QED BY <2>1, <2>2
<1> QED BY <1>1, <1>2

LEMMA CommitInvBranchStep ==
  ASSUME Inv, CommitInv, NEW b \in Branches, BranchStep(b)
  PROVE  CommitInv'
<1>1. /\ UNCHANGED <<phase, all, done, undoing, running, ran, error, plan>>
      /\ pc[b] \in {"run", "begin", "work"}
  BY BranchFrame
<1>2. \A c \in Branches : (c # b => pc'[c] = pc[c]) /\ (pc[c] = "failed" => pc'[c] = "failed")
  BY DEF Inv, TypeOK, Enter, BranchStep, HandleFor, BeginResolves,
         BeginRejects, OpResolves, OpRejects, BranchEnds
<1>3. Counted'
  <2>1. \/ ops' = ops /\ ops[b] < MaxOps
        \/ ops' = ops /\ pc'[b] \notin {"begin", "work"}
        \/ ops' = [ops EXCEPT ![b] = @ + 1] /\ ops[b] < MaxOps /\ pc'[b] = "run"
    BY DEF CommitInv, Counted, Inv, TypeOK, Enter, BranchStep, HandleFor, BeginResolves,
           BeginRejects, OpResolves, OpRejects, BranchEnds
  <2> QED BY <1>2, <2>1, AdaptersAssumption DEF CommitInv, Counted, Inv, TypeOK
<1>4. \A h \in Handles : tx'[h] = "committed" <=> tx[h] = "committed"
  BY BranchTx
<1>5. \A i \in DOMAIN all : tx'[all[i]] = tx[all[i]]
  BY BranchTx DEF Inv, TypeOK, Ownership
<1>6. AwaitedEnded => b \notin plan.awaits /\ AwaitedEnded'
  BY <1>1, <1>2 DEF AwaitedEnded, Inv, TypeOK
<1>7. Kept'
  BY <1>1, <1>4, <1>6 DEF CommitInv, Kept
<1>8. Answered'
  BY <1>1, <1>5 DEF CommitInv, Answered
<1>9. phase = "work" =>
        /\ OfAwaited(Registered)' \subseteq OfAwaited(callbacks)'
        /\ \A c \in OfAwaited(callbacks)' : c \in Registered' \/ pc'[c[1]] = "failed"
  <2> SUFFICES ASSUME phase = "work"
               PROVE  /\ OfAwaited(Registered)' \subseteq OfAwaited(callbacks)'
                      /\ \A c \in OfAwaited(callbacks)' : c \in Registered' \/ pc'[c[1]] = "failed"
    OBVIOUS
  <2>1. /\ OfAwaited(Registered) \subseteq OfAwaited(callbacks)
        /\ \A c \in OfAwaited(callbacks) : c \in Registered \/ pc[c[1]] = "failed"
    BY DEF CommitInv, CallbacksDue
  <2>2. \A c \in callbacks : c[1] \in Branches BY DEF Inv, TypeOK
  <2> QED BY <1>1, <1>2, <2>1, <2>2, BranchCallbacks DEF OfAwaited
<1>10. CASE b \in plan.awaits
  <2>1. phase \notin {"commit", "undo", "callbacks", "resolved"} /\ ~(done > 0)
    BY <1>6, <1>10 DEF CommitInv, Kept
  <2>2. CallbacksDue' BY <1>1, <1>9, <2>1 DEF CommitInv, CallbacksDue
  <2> QED BY <1>3, <1>7, <1>8, <2>2 DEF CommitInv
<1>11. CASE b \notin plan.awaits
  <2>1. OfAwaited(Registered)' = OfAwaited(Registered) /\ OfAwaited(callbacks)' = OfAwaited(callbacks)
    BY <1>1, <1>11, BranchCallbacks DEF OfAwaited
  <2>2. OfAwaited(running \cup ran)' = OfAwaited(running \cup ran) /\ OfAwaited(ran)' = OfAwaited(ran)
    BY <1>1 DEF OfAwaited
  <2>3. CallbacksDue' BY <1>1, <1>9, <2>1, <2>2 DEF CommitInv, CallbacksDue, Owed
  <2> QED BY <1>3, <1>7, <1>8, <2>3 DEF CommitInv
<1> QED BY <1>10, <1>11

LEMMA CommitInvCoordinatorStep ==
  ASSUME Inv, CommitInv, CoordinatorStep
  PROVE  CommitInv'
<1> USE DEF branch
<1>1. /\ pc' = pc /\ ops' = ops /\ plan' = plan /\ Counted' /\ Registered' = Registered
      /\ (AwaitedEnded' <=> AwaitedEnded)
  BY DEF CoordinatorStep, FnResolves, FnRejects, CommitResolves, CommitRejects, CommitEnds, UndoEnds,
         RunCallbacks, CommitThrows, StartRollback, Returns, Throws, Settle, CallbackSettles,
         RollbackSettles, CommitInv, Counted, Registered, AwaitedEnded
<1>2. CASE FnResolves
  <2>1. \A h \in Handles : tx[h] # "committed"
    BY <1>2 DEF FnResolves, CommitInv, Kept
  <2>2. Kept' BY <1>1, <1>2, <2>1 DEF FnResolves, CommitInv, Kept, AwaitedEnded
  <2>3. Answered' BY <1>2 DEF FnResolves, Answered
  <2>4. Owed(callbacks)
    BY <1>2 DEF FnResolves, CommitInv, CallbacksDue, Owed, OfAwaited
  <2>5. CallbacksDue' BY <1>1, <1>2, <2>4 DEF FnResolves, CommitInv, CallbacksDue, Owed, OfAwaited
  <2> QED BY <1>1, <2>2, <2>3, <2>5 DEF CommitInv
<1>3. CASE CommitResolves
  <2> DEFINE h == all[done + 1]
  <2>1. /\ phase = "commit" /\ done + 1 \in DOMAIN all /\ h \in Handles /\ tx[h] = "open"
        /\ done \in Nat /\ done' = done + 1 /\ done' <= Len(all)
        /\ UNCHANGED <<phase, all, error, running, ran, callbacks>> /\ ~error
    BY <1>3 DEF CommitResolves, Inv, TypeOK, HeldAreOpen, CommitInv, Kept
  <2>2. /\ tx'[h] = "committed" /\ \A g \in Handles : g # h => tx'[g] = tx[g]
    BY <1>3, <2>1, FinalisedOpen DEF CommitResolves, Inv
  <2>3. \A i \in 1..done' : i \in 1..done \/ i = done + 1
    BY <2>1
  <2>4. \A g \in Handles : tx'[g] = "committed" <=> \E i \in 1..done' : g = all'[i]
    BY <2>1, <2>2, <2>3 DEF CommitInv, Kept
  <2>5. Kept' BY <1>1, <2>1, <2>4 DEF CommitInv, Kept
  <2>6. Answered' BY <2>1 DEF Answered
  <2>7. CallbacksDue' BY <1>1, <2>1 DEF CommitInv, CallbacksDue, Owed, OfAwaited
  <2> QED BY <1>1, <2>5, <2>6, <2>7 DEF CommitInv
<1>4. CASE CommitRejects
  <2>1. /\ phase = "commit" /\ phase' = "undo" /\ error' = TRUE /\ undoing' = Remaining
        /\ UNCHANGED <<callbacks, all, done, running, ran, tx>> /\ done < Len(all)
    BY <1>4 DEF CommitRejects
  <2>2. Kept' BY <1>1, <2>1 DEF CommitInv, Kept
  <2>3. ASSUME NEW i \in DOMAIN all, tx[all[i]] = "open" PROVE all[i] \in Remaining
    <3>1. all[i] \in Handles BY DEF Inv, TypeOK
    <3>2. i \notin 1..done BY <2>3, <3>1 DEF CommitInv, Kept
    <3>3. i \in done + 1 .. Len(all) BY <3>2 DEF Inv, TypeOK
    <3> QED BY <3>3 DEF Remaining
  <2>4. Answered' BY <2>1, <2>3 DEF Answered
  <2>5. CallbacksDue' BY <1>1, <2>1 DEF CommitInv, CallbacksDue, Owed, OfAwaited
  <2> QED BY <1>1, <2>2, <2>4, <2>5 DEF CommitInv
<1>5. CASE CommitEnds \/ UndoEnds
  <2>1. /\ phase' = "callbacks" /\ UNCHANGED <<all, done, error, ran, tx>>
        /\ phase \in {"commit", "undo"} /\ (phase = "commit" => done = Len(all))
        /\ (phase = "undo" => undoing = {})
        /\ running' = IF done > 0 \/ Len(all) = 0 THEN callbacks ELSE {}
    BY <1>5 DEF CommitEnds, UndoEnds, RunCallbacks
  <2>2. Kept' BY <1>1, <2>1 DEF CommitInv, Kept
  <2>3. ASSUME NEW i \in DOMAIN all PROVE tx[all[i]] # "open"
    <3>1. all[i] \in Handles /\ i \in 1..Len(all) BY DEF Inv, TypeOK
    <3>2. CASE phase = "commit" BY <2>1, <3>1, <3>2 DEF CommitInv, Kept
    <3>3. CASE phase = "undo" BY <2>1, <3>3 DEF CommitInv, Answered
    <3> QED BY <2>1, <3>2, <3>3
  <2>4. Answered' BY <2>1, <2>3 DEF Answered
  <2>5. CallbacksDue' BY <1>1, <2>1 DEF CommitInv, CallbacksDue, Owed, OfAwaited
  <2> QED BY <1>1, <2>2, <2>4, <2>5 DEF CommitInv
<1>6. CASE CommitThrows
  <2>1. /\ phase = "callbacks" /\ running = {} /\ error /\ phase' = "rollback"
        /\ UNCHANGED <<all, done, error, running, ran, tx>>
    BY <1>6 DEF CommitThrows, StartRollback
  <2>2. Kept' BY <1>1, <2>1 DEF CommitInv, Kept
  <2>3. Answered' BY <2>1 DEF Answered
  <2>4. done < Len(all) /\ done \in Nat /\ Len(all) \in Nat
    BY <2>1 DEF CommitInv, Kept, Inv, TypeOK
  <2>5. CallbacksDue' BY <1>1, <2>1, <2>4 DEF CommitInv, CallbacksDue, Owed, OfAwaited
  <2> QED BY <1>1, <2>2, <2>3, <2>5 DEF CommitInv
<1>7. CASE FnRejects
  <2>1. phase = "work" /\ phase' = "rollback" /\ UNCHANGED <<all, done, error, running, ran, tx>>
    BY <1>7 DEF FnRejects, StartRollback
  <2>2. Kept' BY <1>1, <2>1 DEF CommitInv, Kept
  <2>3. Answered' BY <2>1 DEF Answered
  <2>4. CallbacksDue' BY <1>1, <2>1 DEF CommitInv, CallbacksDue, Owed, OfAwaited, Kept
  <2> QED BY <1>1, <2>2, <2>3, <2>4 DEF CommitInv
<1>8. CASE Returns \/ Throws
  <2>1. UNCHANGED <<all, done, error, running, ran, callbacks, tx>>
    BY <1>8 DEF Returns, Throws, Settle
  <2>2. \/ phase = "callbacks" /\ phase' = "resolved" /\ ~error /\ running = {}
        \/ phase = "rollback" /\ phase' = "rejected"
    BY <1>8 DEF Returns, Throws, Settle, Inv, Ownership
  <2>3. Kept' BY <1>1, <2>1, <2>2 DEF CommitInv, Kept
  <2>4. Answered' BY <2>1, <2>2 DEF Answered
  <2>5. phase = "callbacks" => done > 0 \/ Len(all) = 0
    BY <2>2 DEF CommitInv, Kept, Inv, TypeOK
  <2>6. CallbacksDue' BY <1>1, <2>1, <2>2, <2>5 DEF CommitInv, CallbacksDue, Owed, OfAwaited
  <2> QED BY <1>1, <2>3, <2>4, <2>6 DEF CommitInv
<1>9. ASSUME NEW c \in running, CallbackSettles(c) PROVE CommitInv'
  <2>1. /\ running' = running \ {c} /\ ran' = ran \cup {c}
        /\ UNCHANGED <<callbacks, phase, all, done, undoing, error, tx>>
    BY <1>9 DEF CallbackSettles
  <2>2. Kept' /\ Answered' BY <1>1, <2>1 DEF CommitInv, Kept, Answered
  <2>3. phase = "callbacks" BY DEF CommitInv, CallbacksDue, Inv, TypeOK, Phases
  <2>4. CallbacksDue' BY <1>1, <2>1, <2>3 DEF CommitInv, CallbacksDue, Owed, OfAwaited
  <2> QED BY <1>1, <2>2, <2>4 DEF CommitInv
<1>10. ASSUME NEW h \in undoing, RollbackSettles(h) PROVE CommitInv'
  <2>1. h \in Handles /\ tx[h] = "open" /\ phase \in {"undo", "rollback"}
    BY DEF Inv, TypeOK, HeldAreOpen, Ownership, Phases
  <2>2. PICK s \in {"rolledback", "stuck"} : tx' = Finalised(h, s)
    BY <1>10 DEF RollbackSettles
  <2>3. /\ tx'[h] = s /\ \A g \in Handles : g # h => tx'[g] = tx[g]
        /\ UNCHANGED <<callbacks, phase, all, done, running, ran, error>>
        /\ undoing' = undoing \ {h}
    BY <1>10, <2>1, <2>2, FinalisedOpen DEF RollbackSettles, Inv
  <2>4. \A g \in Handles : tx'[g] = "committed" <=> tx[g] = "committed"
    BY <2>1, <2>3
  <2>5. Kept' BY <1>1, <2>1, <2>3, <2>4 DEF CommitInv, Kept
  <2>6. \A i \in DOMAIN all : all[i] \in Handles BY DEF Inv, TypeOK
  <2>7. Answered' BY <2>1, <2>3, <2>6 DEF CommitInv, Answered
  <2>8. CallbacksDue' BY <1>1, <2>1, <2>3 DEF CommitInv, CallbacksDue, Owed, OfAwaited
  <2> QED BY <1>1, <2>5, <2>7, <2>8 DEF CommitInv
<1> QED BY <1>2, <1>3, <1>4, <1>5, <1>6, <1>7, <1>8, <1>9, <1>10 DEF CoordinatorStep

LEMMA CommitInvariance == Spec => []CommitInv
<1>1. Inv /\ CommitInv /\ [Next]_vars => CommitInv'
  <2> SUFFICES ASSUME Inv, CommitInv, [Next]_vars PROVE CommitInv'
    OBVIOUS
  <2>1. CASE \E b \in Branches : BranchStep(b) BY <2>1, CommitInvBranchStep
  <2>2. CASE CoordinatorStep BY <2>2, CommitInvCoordinatorStep
  <2>3. CASE UNCHANGED vars
    BY <2>3 DEF vars, coordinator, branch, CommitInv, Counted, Kept, AwaitedEnded, Answered,
                CallbacksDue, Owed, OfAwaited, Registered
  <2> QED BY <2>1, <2>2, <2>3 DEF Next, Over
<1> QED BY <1>1, CommitInvInit, Invariance, PTL DEF Spec

(* What comes late.  A mutation that gets its handle once the body has     *)
(* settled gets one that commit() did not take out of the map, and only    *)
(* what it took is committed.                                              *)
LateIsApart ==
  /\ phase = "work" => late = {}
  /\ \A i \in DOMAIN all : all[i] \notin late

LEMMA LateIsApartStep ==
  ASSUME Inv, LateIsApart, [Next]_vars
  PROVE  LateIsApart'
<1>1. CASE UNCHANGED vars
  BY <1>1 DEF vars, coordinator, LateIsApart
<1>2. ASSUME NEW b \in Branches, BranchStep(b) PROVE LateIsApart'
  <2>1. phase' = phase /\ all' = all BY <1>2, BranchFrame
  <2>2. \/ late' = late
        \/ \E a \in Adapters : late' = late \cup TooLate(Existing(a))
        \/ \E h \in Handles : tx[h] = "unused" /\ late' = late \cup TooLate({h})
    BY <1>2 DEF BranchStep, HandleFor, BeginResolves, BeginRejects, OpResolves, OpRejects, BranchEnds
  <2>3. \A i \in DOMAIN all : tx[all[i]] # "unused" /\ all[i] \notin Range(txs)
    BY DEF Inv, Ownership
  <2>4. \A a \in Adapters : Existing(a) \subseteq Range(txs)
    BY DEF Existing
  <2> QED BY <2>1, <2>2, <2>3, <2>4 DEF LateIsApart, TooLate
<1>3. CASE FnResolves
  BY <1>3 DEF FnResolves, LateIsApart
<1>4. CASE CoordinatorStep /\ ~FnResolves
  BY <1>4 DEF CoordinatorStep, FnRejects, CommitResolves, CommitRejects, CommitEnds, UndoEnds,
       RunCallbacks, CommitThrows, StartRollback, Returns, Throws, Settle, CallbackSettles,
       RollbackSettles, LateIsApart
<1> QED BY <1>1, <1>2, <1>3, <1>4 DEF Next, Over

(* No mutation that begins its work when the body has settled is part of   *)
(* what the unit commits, however many of them there are and wherever the  *)
(* coordinator stands.                                                     *)
THEOREM CommitsNothingLate == Spec => []LateWorkIsNeverCommitted
<1>1. Init => LateIsApart
  BY DEF Init, LateIsApart
<1>2. Inv /\ CommitInv /\ LateIsApart => LateWorkIsNeverCommitted
  <2> SUFFICES ASSUME Inv, CommitInv, LateIsApart, NEW h \in late, tx[h] = "committed"
               PROVE  FALSE
    BY DEF LateWorkIsNeverCommitted
  <2>1. h \in Handles BY DEF Inv, TypeOK
  <2>2. PICK i \in 1..done : h = all[i] BY <2>1 DEF CommitInv, Kept
  <2>3. i \in DOMAIN all BY DEF Inv, TypeOK
  <2> QED BY <2>2, <2>3 DEF LateIsApart
<1> QED BY <1>1, <1>2, LateIsApartStep, Invariance, CommitInvariance, PTL DEF Spec

(* The callbacks of awaited mutations all run when data changed, none of   *)
(* any mutation runs otherwise, and they run when every commit and         *)
(* rollback of the unit has been answered.                                 *)
THEOREM CallbacksRunAfterTheCommits == Spec => []CallbacksFollowTheCommits
<1>1. Inv /\ CommitInv => CallbacksFollowTheCommits
  <2> SUFFICES ASSUME Inv, CommitInv PROVE CallbacksFollowTheCommits
    OBVIOUS
  <2>1. done \in Nat /\ all \in Seq(Handles) /\ done <= Len(all) /\ phase \in Phases
    BY DEF Inv, TypeOK
  <2>2. (\E h \in Handles : tx[h] = "committed") <=> done > 0
    <3>1. done > 0 => 1 \in 1..done /\ all[1] \in Handles BY <2>1
    <3> QED BY <2>1, <3>1 DEF CommitInv, Kept
  <2>3. phase \in Settled =>
          IF phase = "resolved" \/ \E h \in Handles : tx[h] = "committed"
          THEN OfAwaited(ran) = OfAwaited(Registered) ELSE ran = {}
    BY <2>1, <2>2 DEF CommitInv, CallbacksDue, Owed, Settled
  <2>4. running # {} => phase = "callbacks"
    BY <2>1 DEF CommitInv, CallbacksDue, Phases
  <2>5. running # {} => \A h \in Range(all) : tx[h] # "open"
    BY <2>4 DEF CommitInv, Answered, Range
  <2> QED BY <2>3, <2>5 DEF CallbacksFollowTheCommits
<1> QED BY <1>1, Invariance, CommitInvariance, PTL

-------------------------------------------------------------------------------
(* A body that awaits every mutation.  One branch does all the work, so it *)
(* never begins on an adapter that the map has a transaction for: each     *)
(* adapter gets one transaction, and every open one is held somewhere.     *)

Alone ==
  /\ \A b \in Branches : pc[b] \in {"begin", "work", "failed"} => plan.work[b] # {}
  /\ phase # "work" => \A b \in Branches : pc[b] \notin Ended => plan.work[b] = {}
  /\ \A b \in Branches : pc[b] = "begin" => at[b] \in TxAdapters /\ Existing(at[b]) = {}
  /\ \A b \in Branches : pc[b] = "work" => handle[b] \in Range(txs) \cup {NoHandle}
  /\ \A h \in Handles : h[2] # 1 => tx[h] = "unused"
Accounted ==
  /\ phase = "work" => \A h \in Handles : tx[h] # "unused" => h \in Range(txs)
  /\ phase = "commit" => \A h \in Handles : tx[h] = "open" => h \in Range(all)
  /\ phase \in {"undo", "rollback"} => \A h \in Handles : tx[h] = "open" => h \in undoing
  /\ phase \in {"callbacks"} \cup Settled => \A h \in Handles : tx[h] # "open"
  /\ ~error /\ phase \in {"work", "commit", "callbacks", "resolved"} =>
       \A h \in wrote : tx[h] \in {"open", "committed"}

AloneInv == AwaitsEveryMutation => Alone /\ Accounted

LEMMA AloneInvInit == Init => AloneInv
<1> SUFFICES ASSUME Init PROVE Alone /\ Accounted
  BY DEF AloneInv
<1>1. Alone BY DEF Init, Alone
<1>2. Accounted BY DEF Init, Accounted, Settled
<1> QED BY <1>1, <1>2

(* A handle of an adapter that the map does not know yet is added to it.   *)
LEMMA PutNew ==
  ASSUME NEW map \in Seq(Handles), NEW h \in Handles,
         \A i \in DOMAIN map : AdapterOf(map[i]) # AdapterOf(h)
  PROVE  Range(Put(map, h)) = Range(map) \cup {h}
<1>1. Put(map, h) = Append(map, h) BY DEF Put
<1>2. /\ DOMAIN map = 1..Len(map) /\ DOMAIN Append(map, h) = 1..(Len(map) + 1)
      /\ \A i \in 1..Len(map) : Append(map, h)[i] = map[i]
      /\ Append(map, h)[Len(map) + 1] = h /\ Len(map) \in Nat
  OBVIOUS
<1>3. \A i \in 1..(Len(map) + 1) : i \in 1..Len(map) \/ i = Len(map) + 1
  BY <1>2
<1> QED BY <1>1, <1>2, <1>3 DEF Range

(* While a branch has work to do, the unit is still undecided and no other *)
(* branch has any.                                                         *)
LEMMA OnlyWorker ==
  ASSUME Inv, Alone, AwaitsEveryMutation, NEW b \in Branches, plan.work[b] # {}, pc[b] \notin Ended
  PROVE  /\ phase = "work"
         /\ \A c \in Branches : c # b => pc[c] \notin {"begin", "work", "failed"}
BY DEF Alone, AwaitsEveryMutation

(* It begins the first transaction of its adapter.                         *)
LEMMA BeginsTheFirst ==
  ASSUME Inv, Alone, Accounted, AwaitsEveryMutation, NEW b \in Branches, BeginResolves(b)
  PROVE  LET h == <<at[b], 1>>
         IN  /\ phase = "work" /\ h \in Handles /\ at[b] \in TxAdapters
             /\ tx[h] = "unused" /\ tx' = [tx EXCEPT ![h] = "open"]
             /\ Enter(b, "work", h) /\ Range(txs') = Range(txs) \cup {h}
<1> DEFINE h == <<at[b], 1>>
<1>1. /\ pc[b] = "begin" /\ plan.work[b] # {} /\ at[b] \in TxAdapters /\ Existing(at[b]) = {}
  BY DEF BeginResolves, Alone
<1>2. phase = "work" BY <1>1, OnlyWorker DEF Ended
<1>3. h \in Handles /\ AdapterOf(h) = at[b]
  BY <1>1, AdaptersAssumption DEF Handles, AdapterOf
<1>4. tx[h] = "unused"
  BY <1>1, <1>2, <1>3 DEF Accounted, Existing
<1>5. PICK g \in Handles :
         /\ AdapterOf(g) = at[b] /\ tx[g] = "unused"
         /\ \A f \in Handles : AdapterOf(f) = at[b] /\ tx[f] = "unused" => g[2] <= f[2]
         /\ tx' = [tx EXCEPT ![g] = "open"] /\ txs' = Put(txs, g) /\ Enter(b, "work", g)
  BY DEF BeginResolves
<1>6. g = h
  <2>1. g[2] <= 1 BY <1>3, <1>4, <1>5
  <2>2. g[1] = at[b] /\ g[2] \in 1..MaxTx /\ g = <<g[1], g[2]>>
    BY <1>5 DEF AdapterOf, Handles
  <2> QED BY <2>1, <2>2, AdaptersAssumption
<1>7. \A i \in DOMAIN txs : AdapterOf(txs[i]) # AdapterOf(h)
  BY <1>1, <1>3 DEF Existing, Range
<1>8. Range(txs') = Range(txs) \cup {h}
  BY <1>3, <1>5, <1>6, <1>7, PutNew DEF Inv, TypeOK
<1> QED BY <1>1, <1>2, <1>3, <1>4, <1>5, <1>6, <1>8

LEMMA AloneInvBranchStep ==
  ASSUME Inv, CommitInv, AloneInv, NEW b \in Branches, BranchStep(b)
  PROVE  AloneInv'
<1> SUFFICES ASSUME AwaitsEveryMutation PROVE Alone' /\ Accounted'
  BY BranchFrame DEF AloneInv, AwaitsEveryMutation
<1> USE DEF AloneInv, Enter
<1>1. /\ UNCHANGED <<phase, all, done, undoing, running, ran, error, plan>>
      /\ pc[b] \in {"run", "begin", "work"}
  BY BranchFrame
<1>2. CASE \E a \in Adapters : HandleFor(b, a)
  <2>1. PICK a \in Adapters : HandleFor(b, a) BY <1>2
  <2>2. phase = "work" /\ plan.work[b] # {} BY <2>1, OnlyWorker DEF HandleFor, Ended
  <2>3. UNCHANGED <<txs, tx, wrote>> /\ at' = [at EXCEPT ![b] = a] /\ a \in Adapters
    BY <2>1 DEF HandleFor, coordinator
  <2>4. \/ \E h \in Existing(a) : pc' = [pc EXCEPT ![b] = "work"] /\ handle' = [handle EXCEPT ![b] = h]
        \/ pc' = [pc EXCEPT ![b] = "work"] /\ handle' = [handle EXCEPT ![b] = NoHandle]
        \/ /\ Existing(a) = {} /\ a \in TxAdapters
           /\ pc' = [pc EXCEPT ![b] = "begin"] /\ handle' = [handle EXCEPT ![b] = NoHandle]
    BY <2>1 DEF HandleFor
  <2>5. Existing(a) \subseteq Range(txs) BY DEF Existing
  <2>6. Alone' BY <1>1, <2>2, <2>3, <2>4, <2>5 DEF Alone, Existing, Inv, TypeOK
  <2>7. Accounted' BY <1>1, <2>3 DEF Accounted
  <2> QED BY <2>6, <2>7
<1>3. CASE BeginResolves(b)
  <2> DEFINE h == <<at[b], 1>>
  <2>1. /\ phase = "work" /\ h \in Handles /\ h[2] = 1 /\ pc[b] = "begin" /\ plan.work[b] # {}
        /\ tx[h] = "unused" /\ tx' = [tx EXCEPT ![h] = "open"]
        /\ pc' = [pc EXCEPT ![b] = "work"] /\ handle' = [handle EXCEPT ![b] = h]
        /\ Range(txs') = Range(txs) \cup {h} /\ UNCHANGED <<at, wrote>>
    BY <1>3, BeginsTheFirst DEF BeginResolves, Alone
  <2>2. \A c \in Branches : c # b => pc[c] \notin {"begin", "work", "failed"}
    BY <2>1, OnlyWorker DEF Ended
  <2>3. tx'[h] = "open" /\ \A g \in Handles : g # h => tx'[g] = tx[g]
    BY <2>1 DEF Inv, TypeOK
  <2>4. Alone' BY <1>1, <2>1, <2>2, <2>3 DEF Alone, Inv, TypeOK
  <2>5. \A g \in wrote : g # h /\ g \in Handles
    BY <1>1, <2>1 DEF Accounted, Inv, TypeOK, CommitInv, Kept
  <2>6. Accounted' BY <1>1, <2>1, <2>3, <2>5 DEF Accounted, Settled
  <2> QED BY <2>4, <2>6
<1>4. CASE BeginRejects(b) \/ OpRejects(b) \/ BranchEnds(b)
  <2>1. UNCHANGED <<txs, tx, at, handle, wrote>> /\ pc'[b] \in Ended
        /\ (pc'[b] = "failed" => plan.work[b] # {})
        /\ \A c \in Branches : c # b => pc'[c] = pc[c]
    BY <1>4 DEF BeginRejects, OpRejects, BranchEnds, coordinator, Ended, Inv, TypeOK, Alone
  <2>2. Alone' BY <1>1, <2>1 DEF Alone, Existing, Ended
  <2>3. Accounted' BY <1>1, <2>1 DEF Accounted
  <2> QED BY <2>2, <2>3
<1>5. CASE OpResolves(b)
  <2>1. /\ UNCHANGED <<txs, tx, at, handle>> /\ pc[b] = "work" /\ plan.work[b] # {}
        /\ pc' = [pc EXCEPT ![b] = "run"] /\ wrote' = wrote \cup ({handle[b]} \ {NoHandle})
        /\ phase = "work"
    BY <1>5, OnlyWorker DEF OpResolves, Alone, Ended
  <2>2. Alone' BY <1>1, <2>1 DEF Alone, Existing, Inv, TypeOK
  <2>3. handle[b] # NoHandle => tx[handle[b]] = "open"
    BY <2>1 DEF Alone, Inv, HeldAreOpen, Range
  <2>4. Accounted' BY <1>1, <2>1, <2>3 DEF Accounted, Settled
  <2> QED BY <2>2, <2>4
<1> QED BY <1>2, <1>3, <1>4, <1>5 DEF BranchStep

LEMMA AloneInvCoordinatorStep ==
  ASSUME Inv, CommitInv, AloneInv, CoordinatorStep
  PROVE  AloneInv'
<1> USE DEF branch
<1>0. UNCHANGED <<pc, at, handle, ops, wrote, late, plan>>
  BY DEF CoordinatorStep, FnResolves, FnRejects, CommitResolves, CommitRejects, CommitEnds, UndoEnds,
         RunCallbacks, CommitThrows, StartRollback, Returns, Throws, Settle, CallbackSettles,
         RollbackSettles
<1> SUFFICES ASSUME AwaitsEveryMutation PROVE Alone' /\ Accounted'
  BY <1>0 DEF AloneInv, AwaitsEveryMutation
<1>1. Alone /\ Accounted BY DEF AloneInv
<1>2. txs' = txs /\ tx' = tx /\ phase # "work" /\ phase' # "work" => Alone'
  BY <1>0, <1>1 DEF Alone, Existing
<1>3. CASE FnResolves
  <2>1. /\ phase = "work" /\ (\A b \in Branches : pc[b] = "ended") /\ phase' = "commit" /\ all' = txs /\ txs' = <<>>
        /\ UNCHANGED <<error, undoing, tx>>
    BY <1>3 DEF FnResolves, AwaitsEveryMutation
  <2>2. Alone' BY <1>0, <1>1, <2>1 DEF Alone, Ended
  <2>3. Accounted' BY <1>0, <1>1, <2>1 DEF Accounted, Settled, Kept, CommitInv
  <2> QED BY <2>2, <2>3
<1>4. CASE FnRejects
  <2>1. PICK c \in Branches : pc[c] = "failed" BY <1>4 DEF FnRejects, AwaitsEveryMutation
  <2>2. phase = "work" /\ phase' = "rollback" /\ undoing' = Range(txs) /\ txs' = <<>> /\ UNCHANGED tx
    BY <1>4 DEF FnRejects, StartRollback
  <2>3. \A b \in Branches : pc[b] \notin Ended => plan.work[b] = {} /\ pc[b] \notin {"begin", "work"}
    BY <1>1, <2>1 DEF Alone, AwaitsEveryMutation, Ended
  <2>4. Alone' BY <1>0, <1>1, <2>2, <2>3 DEF Alone, Ended
  <2>5. Accounted' BY <1>0, <1>1, <2>2 DEF Accounted, Settled
  <2> QED BY <2>4, <2>5
<1>5. CASE CommitResolves
  <2> DEFINE h == all[done + 1]
  <2>1. /\ phase = "commit" /\ done + 1 \in DOMAIN all /\ h \in Handles /\ tx[h] = "open"
        /\ UNCHANGED <<txs, phase, all, error, undoing>>
    BY <1>5 DEF CommitResolves, Inv, TypeOK, HeldAreOpen
  <2>2. /\ tx'[h] = "committed" /\ \A g \in Handles : g # h => tx'[g] = tx[g]
    BY <1>5, <2>1, FinalisedOpen DEF CommitResolves, Inv
  <2>3. Alone' BY <1>0, <1>1, <2>1, <2>2 DEF Alone, Existing
  <2>4. Accounted' BY <1>0, <1>1, <2>1, <2>2 DEF Accounted, Settled, Inv, TypeOK
  <2> QED BY <2>3, <2>4
<1>6. CASE CommitRejects
  <2>1. /\ phase = "commit" /\ phase' = "undo" /\ error' = TRUE /\ undoing' = Remaining
        /\ UNCHANGED <<txs, all, done, tx>>
    BY <1>6 DEF CommitRejects
  <2>2. ASSUME NEW h \in Handles, tx[h] = "open" PROVE h \in Remaining
    <3>1. PICK i \in DOMAIN all : h = all[i] BY <1>1, <2>1, <2>2 DEF Accounted, Range
    <3>2. i \notin 1..done BY <2>2, <3>1 DEF CommitInv, Kept
    <3>3. i \in done + 1 .. Len(all) BY <3>2 DEF Inv, TypeOK
    <3> QED BY <3>1, <3>3 DEF Remaining
  <2>3. Accounted' BY <2>1, <2>2 DEF Accounted, Settled
  <2> QED BY <1>2, <2>1, <2>3
<1>7. CASE CommitEnds \/ UndoEnds
  <2>1. /\ phase' = "callbacks" /\ UNCHANGED <<txs, all, done, error, tx>>
        /\ phase \in {"commit", "undo"} /\ (phase = "commit" => done = Len(all))
        /\ (phase = "undo" => undoing = {} /\ error)
    BY <1>7 DEF CommitEnds, UndoEnds, RunCallbacks, CommitInv, Kept
  <2>2. ASSUME NEW h \in Handles PROVE tx[h] # "open"
    <3>1. CASE phase = "undo" BY <1>1, <2>1, <3>1 DEF Accounted
    <3>2. ASSUME phase = "commit", tx[h] = "open" PROVE FALSE
      <4>1. PICK i \in DOMAIN all : h = all[i] BY <1>1, <3>2 DEF Accounted, Range
      <4>2. i \in 1..done BY <2>1, <3>2, <4>1 DEF Inv, TypeOK
      <4> QED BY <3>2, <4>1, <4>2 DEF CommitInv, Kept
    <3> QED BY <2>1, <3>1, <3>2
  <2>3. Accounted' BY <1>0, <1>1, <2>1, <2>2 DEF Accounted, Settled
  <2> QED BY <1>2, <2>1, <2>3
<1>8. CASE CommitThrows
  <2>1. /\ phase = "callbacks" /\ phase' = "rollback" /\ UNCHANGED tx /\ txs' = <<>>
    BY <1>8 DEF CommitThrows, StartRollback
  <2>2. Accounted' BY <1>1, <2>1 DEF Accounted, Settled
  <2>3. \A b \in Branches : pc[b] \notin {"begin", "work"} BY <1>1, <2>1 DEF Alone, Ended
  <2>4. Alone' BY <1>0, <1>1, <2>1, <2>3 DEF Alone
  <2> QED BY <2>2, <2>4
<1>9. CASE Returns \/ Throws
  <2>1. /\ UNCHANGED <<txs, all, error, tx, undoing>> /\ phase # "work" /\ phase' \in Settled
        /\ \/ phase = "callbacks"
           \/ phase = "rollback" /\ phase' = "rejected" /\ undoing = {}
    BY <1>9 DEF Returns, Throws, Settle, Settled
  <2>2. Accounted' BY <1>0, <1>1, <2>1 DEF Accounted, Settled
  <2> QED BY <1>2, <2>1, <2>2 DEF Settled
<1>10. CASE \E c \in running : CallbackSettles(c)
  <2>1. UNCHANGED <<txs, phase, all, error, tx, undoing>>
    BY <1>10 DEF CallbackSettles
  <2>2. Alone' /\ Accounted' BY <1>0, <1>1, <2>1 DEF Alone, Existing, Accounted
  <2> QED BY <2>2
<1>11. ASSUME NEW h \in undoing, RollbackSettles(h) PROVE Alone' /\ Accounted'
  <2>1. h \in Handles /\ tx[h] = "open" /\ phase \in {"undo", "rollback"}
    BY DEF Inv, TypeOK, HeldAreOpen, Ownership, Phases
  <2>2. PICK s \in {"rolledback", "stuck"} : tx' = Finalised(h, s)
    BY <1>11 DEF RollbackSettles
  <2>3. /\ tx'[h] = s /\ \A g \in Handles : g # h => tx'[g] = tx[g]
        /\ UNCHANGED <<txs, phase, all, error>> /\ undoing' = undoing \ {h}
    BY <1>11, <2>1, <2>2, FinalisedOpen DEF RollbackSettles, Inv
  <2>4. Alone' BY <1>0, <1>1, <2>1, <2>3 DEF Alone, Existing
  <2>5. Accounted' BY <1>0, <1>1, <2>1, <2>3 DEF Accounted, Settled
  <2> QED BY <2>4, <2>5
<1> QED BY <1>3, <1>4, <1>5, <1>6, <1>7, <1>8, <1>9, <1>10, <1>11 DEF CoordinatorStep

LEMMA AloneInvariance == Spec => []AloneInv
<1>1. Inv /\ CommitInv /\ AloneInv /\ [Next]_vars => AloneInv'
  <2> SUFFICES ASSUME Inv, CommitInv, AloneInv, [Next]_vars PROVE AloneInv'
    OBVIOUS
  <2>1. CASE \E b \in Branches : BranchStep(b) BY <2>1, AloneInvBranchStep
  <2>2. CASE CoordinatorStep BY <2>2, AloneInvCoordinatorStep
  <2>3. CASE UNCHANGED vars
    BY <2>3 DEF vars, coordinator, branch, AloneInv, AwaitsEveryMutation, Alone, Existing, Accounted
  <2> QED BY <2>1, <2>2, <2>3 DEF Next, Over
<1> QED BY <1>1, AloneInvInit, Invariance, CommitInvariance, PTL DEF Spec

(* When transaction() returns to a body that awaited every mutation, what  *)
(* it wrote is committed, and once it has returned or thrown no adapter    *)
(* transaction is open.                                                    *)
THEOREM ClosesWhatItOpened == Spec => []NothingLeftOpen
<1>1. CommitInv /\ AloneInv /\ Inv => NothingLeftOpen
  BY DEF CommitInv, Kept, AloneInv, Accounted, Inv, TypeOK, NothingLeftOpen, ReturnMeansCommitted, Settled
<1> QED BY <1>1, Invariance, CommitInvariance, AloneInvariance, PTL

-------------------------------------------------------------------------------
(* The coordinator implements UnitOfWork.  The abstract verdict falls when *)
(* fn settles and when a commit is refused; beginning, committing and      *)
(* rolling back a transaction are the abstract steps of its adapter, and   *)
(* everything else the coordinator and the body do is invisible.           *)

Outcome == IF phase \in Settled THEN phase ELSE "pending"

LEMMA AbstractInit == Init => Promise!Init
BY AdaptersAssumption
   DEF Init, Promise!Init, Promised, Verdict, Handles, Settled

(* Steps that leave the transactions, the verdict and the outcome alone.   *)
LEMMA Invisible ==
  ASSUME UNCHANGED <<tx, plan, Verdict, Outcome>>
  PROVE  UNCHANGED Promise!abstractVars
BY DEF Promise!abstractVars, Promised, AwaitsEveryMutation, Outcome

LEMMA AbstractBranchStep ==
  ASSUME Inv, CommitInv, AloneInv, AwaitsEveryMutation, NEW b \in Branches, BranchStep(b)
  PROVE  Promise!Next \/ UNCHANGED Promise!abstractVars
<1>1. UNCHANGED <<phase, error, plan, Verdict, Outcome>>
  BY BranchFrame DEF Verdict, Outcome
<1>2. CASE BeginResolves(b)
  <2> DEFINE a == at[b]
  <2>1. /\ phase = "work" /\ ~error /\ <<a, 1>> \in Handles /\ a \in TxAdapters
        /\ tx[<<a, 1>>] = "unused" /\ tx' = [tx EXCEPT ![<<a, 1>>] = "open"]
    BY <1>2, BeginsTheFirst DEF AloneInv, CommitInv, Kept
  <2>2. AwaitsEveryMutation' BY <1>1 DEF AwaitsEveryMutation
  <2>3. \A c \in TxAdapters : tx'[<<c, 1>>] = IF c = a THEN "open" ELSE tx[<<c, 1>>]
    BY <2>1, AdaptersAssumption DEF Inv, TypeOK, Handles
  <2>4. Promise!Open(a)
    BY <1>1, <2>1, <2>2, <2>3 DEF Promise!Open, Promised, Verdict, Outcome
  <2> QED BY <2>1, <2>4 DEF Promise!Next
<1>3. CASE ~BeginResolves(b)
  <2>1. tx' = tx
    BY <1>3 DEF BranchStep, HandleFor, BeginRejects, OpResolves, OpRejects, BranchEnds
  <2> QED BY <1>1, <2>1, Invisible
<1> QED BY <1>2, <1>3

(* What finalising the transaction of an adapter does to the states.       *)
LEMMA FinalisedState ==
  ASSUME Inv, AloneInv, AwaitsEveryMutation, NEW h \in Handles, tx[h] = "open",
         NEW s \in {"committed", "rolledback", "stuck"}, tx' = Finalised(h, s), UNCHANGED plan
  PROVE  /\ h[1] \in TxAdapters /\ tx[<<h[1], 1>>] = "open"
         /\ \A c \in TxAdapters : tx'[<<c, 1>>] = IF c = h[1] THEN s ELSE tx[<<c, 1>>]
         /\ AwaitsEveryMutation'
<1>1. h = <<h[1], 1>> /\ h[1] \in TxAdapters
  <2>1. h[2] = 1 BY DEF AloneInv, Alone
  <2> QED BY <2>1 DEF Handles
<1>2. \A c \in TxAdapters : <<c, 1>> \in Handles /\ (<<c, 1>> = h <=> c = h[1])
  BY <1>1, AdaptersAssumption DEF Handles
<1>3. tx'[h] = s /\ \A g \in Handles : g # h => tx'[g] = tx[g]
  BY FinalisedOpen DEF Inv
<1> QED BY <1>1, <1>2, <1>3 DEF AwaitsEveryMutation

LEMMA AbstractCoordinatorStep ==
  ASSUME Inv, CommitInv, AloneInv, AwaitsEveryMutation, CoordinatorStep
  PROVE  Promise!Next \/ UNCHANGED Promise!abstractVars
<1> USE DEF branch
<1>0. UNCHANGED plan /\ AwaitsEveryMutation'
  BY DEF CoordinatorStep, FnResolves, FnRejects, CommitResolves, CommitRejects, CommitEnds, UndoEnds,
         RunCallbacks, CommitThrows, StartRollback, Returns, Throws, Settle, CallbackSettles,
         RollbackSettles, AwaitsEveryMutation
<1>1. CASE FnResolves \/ FnRejects
  <2>1. /\ phase = "work" /\ phase' \in {"commit", "rollback"} /\ ~error /\ UNCHANGED <<error, tx>>
    BY <1>1 DEF FnResolves, FnRejects, StartRollback, CommitInv, Kept
  <2>2. Promise!Decide
    BY <1>0, <2>1 DEF Promise!Decide, Promised, Verdict, Settled
  <2> QED BY <2>2 DEF Promise!Next
<1>2. CASE CommitResolves
  <2> DEFINE h == all[done + 1]
  <2>1. /\ phase = "commit" /\ ~error /\ h \in Handles /\ tx[h] = "open"
        /\ UNCHANGED <<phase, error>> /\ tx' = Finalised(h, "committed")
    BY <1>2 DEF CommitResolves, Inv, TypeOK, HeldAreOpen, CommitInv, Kept
  <2>2. /\ h[1] \in TxAdapters /\ tx[<<h[1], 1>>] = "open"
        /\ \A c \in TxAdapters : tx'[<<c, 1>>] = IF c = h[1] THEN "committed" ELSE tx[<<c, 1>>]
    BY <1>0, <2>1, FinalisedState
  <2>3. Promise!Commit(h[1])
    BY <1>0, <2>1, <2>2 DEF Promise!Commit, Promised, Verdict, Settled
  <2> QED BY <2>2, <2>3 DEF Promise!Next
<1>3. CASE CommitRejects
  <2> DEFINE h == all[done + 1]
  <2>1. /\ phase = "commit" /\ ~error /\ h \in Handles /\ tx[h] = "open"
        /\ phase' = "undo" /\ error' /\ UNCHANGED tx
    BY <1>3 DEF CommitRejects, Inv, TypeOK, HeldAreOpen, CommitInv, Kept
  <2>2. h[1] \in TxAdapters /\ tx[<<h[1], 1>>] = "open"
    <3>1. h[2] = 1 BY <2>1 DEF AloneInv, Alone
    <3> QED BY <2>1, <3>1 DEF Handles
  <2>3. Promise!CommitRefused
    BY <1>0, <2>1, <2>2 DEF Promise!CommitRefused, Promised, Verdict, Settled
  <2> QED BY <2>3 DEF Promise!Next
<1>4. CASE CommitEnds \/ UndoEnds \/ CommitThrows \/ \E c \in running : CallbackSettles(c)
  <2>1. UNCHANGED <<error, tx>> /\ phase \notin {"work"} \cup Settled /\ phase' \notin {"work"} \cup Settled
        /\ (phase \in {"rollback"} => error) /\ (phase' \in {"rollback"} => error)
    BY <1>4 DEF CommitEnds, UndoEnds, RunCallbacks, CommitThrows, StartRollback, CallbackSettles,
                CommitInv, Kept, CallbacksDue, Settled, Inv, TypeOK, Phases
  <2>2. UNCHANGED <<Verdict, Outcome>> BY <2>1 DEF Verdict, Outcome, Settled
  <2> QED BY <1>0, <2>1, <2>2, Invisible
<1>5. CASE Returns \/ Throws
  <2>1. /\ UNCHANGED <<error, tx>>
        /\ \/ phase = "callbacks" /\ phase' = "resolved" /\ ~error
           \/ phase = "rollback" /\ phase' = "rejected" /\ undoing = {}
    BY <1>5 DEF Returns, Throws, Settle
  <2>2. \A c \in TxAdapters : <<c, 1>> \in Handles /\ tx[<<c, 1>>] # "open"
    BY <2>1, AdaptersAssumption DEF AloneInv, Accounted, Handles
  <2>3. Promise!Settle
    BY <1>0, <2>1, <2>2 DEF Promise!Settle, Promised, Verdict, Settled
  <2> QED BY <2>3 DEF Promise!Next
<1>6. ASSUME NEW h \in undoing, RollbackSettles(h) PROVE Promise!Next
  <2>1. /\ h \in Handles /\ tx[h] = "open" /\ phase \in {"undo", "rollback"}
        /\ UNCHANGED <<phase, error>> /\ (phase = "undo" => error)
    BY <1>6 DEF RollbackSettles, Inv, TypeOK, HeldAreOpen, Ownership, Phases, CommitInv, Kept
  <2>2. PICK s \in {"rolledback", "stuck"} : tx' = Finalised(h, s)
    BY <1>6 DEF RollbackSettles
  <2>3. /\ h[1] \in TxAdapters /\ tx[<<h[1], 1>>] = "open"
        /\ \A c \in TxAdapters : tx'[<<c, 1>>] = IF c = h[1] THEN s ELSE tx[<<c, 1>>]
    BY <1>0, <2>1, <2>2, FinalisedState
  <2>4. Promise!Undo(h[1])
    BY <1>0, <2>1, <2>2, <2>3 DEF Promise!Undo, Promised, Verdict, Settled
  <2> QED BY <2>3, <2>4 DEF Promise!Next
<1> QED BY <1>1, <1>2, <1>3, <1>4, <1>5, <1>6 DEF CoordinatorStep

(* Whatever fails, a body that awaits every mutation gets one transaction  *)
(* per adapter, and these are all committed, or all undone, or those left  *)
(* after a refused commit are undone.                                      *)
THEOREM ImplementsUnitOfWork == Spec => KeepsThePromise
<1>1. Inv /\ CommitInv /\ AloneInv /\ [Next]_vars => [Promise!Next]_(Promise!abstractVars)
  <2> SUFFICES ASSUME Inv, CommitInv, AloneInv, [Next]_vars
               PROVE  Promise!Next \/ UNCHANGED Promise!abstractVars
    OBVIOUS
  <2>1. CASE UNCHANGED vars
    BY <2>1, Invisible DEF vars, coordinator, Verdict, Outcome
  <2>2. CASE ~AwaitsEveryMutation /\ Next
    <3>1. UNCHANGED plan
      <4>1. CASE CoordinatorStep
        BY <4>1 DEF CoordinatorStep, FnResolves, FnRejects, CommitResolves, CommitRejects, CommitEnds,
               UndoEnds, RunCallbacks, CommitThrows, StartRollback, Returns, Throws, Settle,
               CallbackSettles, RollbackSettles
      <4> QED BY <2>2, <4>1, BranchFrame DEF Next, Over, vars
    <3> QED BY <2>2, <3>1 DEF Promise!abstractVars, Promised, AwaitsEveryMutation
  <2>3. CASE AwaitsEveryMutation /\ Next
    BY <2>1, <2>3, AbstractBranchStep, AbstractCoordinatorStep DEF Next, Over
  <2> QED BY <2>1, <2>2, <2>3
<1> QED BY <1>1, AbstractInit, Invariance, CommitInvariance, AloneInvariance, PTL
     DEF Spec, KeepsThePromise, Promise!Spec
===============================================================================
