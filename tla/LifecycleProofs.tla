---------------------------- MODULE LifecycleProofs ----------------------------
(***************************************************************************)
(* Theorems about Lifecycle: the audit of the methods that the engine      *)
(* cannot reach, the hooks of the instances, what an orm that has started  *)
(* consists of, and what initialise() refuses.  None depends on the order  *)
(* in which relationships are wired or models come, or on the bounds, and  *)
(* of what a host declares they assume LifecycleAssumption only.           *)
(***************************************************************************)
EXTENDS Lifecycle, TLAPS

-----------------------------------------------------------------------------
(* A model stays on the adapter it was created on. *)

Placed == \A n \in DOMAIN models : "adapter" \in DOMAIN models[n]
ModelsStay == /\ DOMAIN models \subseteq DOMAIN models'
              /\ \A n \in DOMAIN models : models'[n].adapter = models[n].adapter

LEMMA ReadKeeps ==
  ASSUME Placed, NEW names
  PROVE  /\ DOMAIN Read(models, names) = DOMAIN models
         /\ \A n \in DOMAIN models : /\ Read(models, names)[n].adapter = models[n].adapter
                                     /\ "adapter" \in DOMAIN Read(models, names)[n]
BY DEF Read, Placed

LEMMA KeyedKeeps ==
  ASSUME Placed, NEW keys
  PROVE  /\ DOMAIN Keyed(models, keys) = DOMAIN models
         /\ \A n \in DOMAIN models : /\ Keyed(models, keys)[n].adapter = models[n].adapter
                                     /\ "adapter" \in DOMAIN Keyed(models, keys)[n]
BY DEF Keyed, Placed

LEMMA AddStep ==
  ASSUME Placed, NEW d, NEW failed, Add(d, failed)
  PROVE  Placed' /\ ModelsStay
<1>1. CASE UNCHANGED models BY <1>1 DEF Placed, ModelsStay
<1>2. CASE ~ UNCHANGED models
  <2>1. d \notin DOMAIN models /\ models' = With(models, d, Model(HomeOf(d), app.columns[d]))
    BY <1>2 DEF Add
  <2>2. /\ DOMAIN models' = DOMAIN models \cup {d}
        /\ \A n \in DOMAIN models : models'[n] = models[n]
        /\ "adapter" \in DOMAIN models'[d]
    BY <2>1 DEF With, Model
  <2> QED BY <2>2 DEF Placed, ModelsStay
<1> QED BY <1>1, <1>2

LEMMA ModelsStep ==
  ASSUME Placed, [Next]_vars
  PROVE  Placed' /\ ModelsStay /\ app' = app
<1>0. UNCHANGED models => Placed' /\ ModelsStay BY DEF Placed, ModelsStay
<1>1. CASE \E d \in app.models, failed \in BOOLEAN : AddDefinition(d, failed)
  BY <1>1, AddStep DEF AddDefinition, Add
<1>2. CASE \E failed \in BOOLEAN : AddPending(failed)
  BY <1>2, AddStep DEF AddPending, Add
<1>3. CASE \E d \in DOMAIN todo : Wire(d)
  <2>1. PICK d \in DOMAIN todo : Wire(d) BY <1>3
  <2>2. UNCHANGED models \/ \E keys : models' = Keyed(models, keys) BY <2>1 DEF Wire
  <2> QED BY <1>0, <2>1, <2>2, KeyedKeeps DEF Wire, Placed, ModelsStay
<1>4. CASE \E n \in DOMAIN joins : GenerateJoin(n)
  <2>1. PICK n \in DOMAIN joins : GenerateJoin(n) BY <1>4
  <2>2. CASE n \in DOMAIN models BY <1>0, <2>1, <2>2 DEF GenerateJoin
  <2>3. CASE n \notin DOMAIN models
    <3> DEFINE known == Read(models, {joins[n].source, joins[n].target})
    <3>1. models' = With(known, n, Model(DefaultAdapter, {joins[n].foreignKey, joins[n].otherKey}))
      BY <2>1, <2>3 DEF GenerateJoin
    <3>2. /\ DOMAIN known = DOMAIN models
          /\ \A m \in DOMAIN models : known[m].adapter = models[m].adapter /\ "adapter" \in DOMAIN known[m]
      BY ReadKeeps
    <3> HIDE DEF known
    <3>3. /\ DOMAIN models' = DOMAIN models \cup {n}
          /\ \A m \in DOMAIN models : models'[m] = known[m]
          /\ "adapter" \in DOMAIN models'[n]
      BY <2>3, <3>1, <3>2 DEF With, Model
    <3> QED BY <2>1, <3>2, <3>3 DEF GenerateJoin, Placed, ModelsStay
  <2> QED BY <2>2, <2>3
<1>5. CASE ValidateKeys
  <2>1. \E names : models' = Read(models, names) BY <1>5 DEF ValidateKeys
  <2> QED BY <1>5, <2>1, ReadKeeps DEF ValidateKeys, Placed, ModelsStay
<1> QED BY <1>0, <1>1, <1>2, <1>3, <1>4, <1>5
  DEF Next, Engine, vars, wiring, RegisterAdapter, Define, Initialise, Queued, Relink, Finish, AdapterStarts,
      SetPermission, CallClassMethod

-----------------------------------------------------------------------------
(* What the audit finds of a model stays true of it. *)

Pair == <<answer.model, answer.method>>
IsFound(n, m) == n \in DOMAIN models /\ m \in MethodsOf(n) /\ Problem(m) # "fine"
IsFatal(n, m) == IsFound(n, m) /\ (Problem(m) # "unannotated" \/ ~ Enforced(n))

LEMMA FindingsAre ==
  ASSUME NEW n, NEW m
  PROVE  /\ <<n, m>> \in Findings <=> IsFound(n, m)
         /\ <<n, m>> \in Fatal <=> IsFatal(n, m)
<1>1. <<n, m>> \in Findings <=> IsFound(n, m) BY DEF Findings, IsFound
<1> QED BY <1>1 DEF Fatal, IsFatal

LEMMA FindingsStay ==
  ASSUME ModelsStay, app' = app, NEW n \in DOMAIN models, NEW m
  PROVE  (IsFound(n, m) <=> IsFound(n, m)') /\ (IsFatal(n, m) <=> IsFatal(n, m)')
BY DEF ModelsStay, IsFound, IsFatal, MethodsOf, Enforced

(* Once there is something to call, a scope that is installed has been     *)
(* asked about: every surface was accepted, warned of, or has refused the  *)
(* scope.                                                                  *)
Audited == phase = "returned" =>
             /\ initialised
             /\ permission = "scoped" => /\ refused <=> Fatal # {}
                                         /\ Findings \ Fatal \subseteq warned

(* An answer was given by a method of a model under the scope that is      *)
(* installed still, and unless it was warned of, one that reads everything *)
(* says so or has refused the scope.                                       *)
Answered == answer # None =>
              /\ permission = "scoped"
              /\ answer.model \in DOMAIN models
              /\ answer.rows = "all" => \/ Disposition(answer.method) # "none"
                                        \/ Pair \in warned
                                        \/ IsFatal(answer.model, answer.method) /\ refused

IInv == Placed /\ Audited /\ Answered

(* A method that says nothing of the scope and reads all rows is a finding.*)
LEMMA ReadsAllIsFound ==
  ASSUME NEW n \in DOMAIN models, NEW m \in MethodsOf(n), RowsOf(n, m) = "all", Disposition(m) = "none"
  PROVE  IsFound(n, m)
BY DEF RowsOf, IsFound, Problem

LEMMA AuditFinds ==
  ASSUME NEW p, Audit(p), UNCHANGED <<app, models>>
  PROVE  /\ warned \subseteq warned'
         /\ p = "scoped" => /\ refused' <=> Fatal' # {}
                            /\ (Findings \ Fatal)' \subseteq warned'
<1>1. Findings' = Findings /\ Fatal' = Fatal BY DEF Findings, Fatal, MethodsOf, Enforced
<1> QED BY <1>1 DEF Audit

LEMMA InitInv == Init => IInv
BY DEF Init, IInv, Placed, Audited, Answered

LEMMA StepInv == IInv /\ [Next]_vars => IInv'
<1> SUFFICES ASSUME IInv, [Next]_vars PROVE IInv' OBVIOUS
<1>1. Placed' /\ ModelsStay /\ app' = app BY ModelsStep DEF IInv
<1>2. ASSUME UNCHANGED <<permission, refused, warned, answer>>, phase' # "returned"
      PROVE  IInv'
  <2>1. Answered'
    <3> SUFFICES ASSUME answer # None PROVE Answered' BY <1>2 DEF Answered
    <3>1. answer.model \in DOMAIN models BY DEF IInv, Answered
    <3> QED BY <1>1, <1>2, <3>1, FindingsStay DEF IInv, Answered, ModelsStay, Pair
  <2> QED BY <1>1, <1>2, <2>1 DEF IInv, Audited
<1>3. CASE Finish
  <2>1. UNCHANGED <<app, models, permission, answer>> /\ initialised' = TRUE /\ Audit(permission)
    BY <1>3 DEF Finish, wiring
  <2>2. /\ warned \subseteq warned'
        /\ permission = "scoped" => (refused' <=> Fatal' # {}) /\ (Findings \ Fatal)' \subseteq warned'
    BY <2>1, AuditFinds
  <2>3. Audited' BY <2>1, <2>2 DEF Audited
  <2>4. Answered'
    <3> SUFFICES ASSUME answer # None PROVE Answered' BY <2>1 DEF Answered
    <3>1. permission = "scoped" /\ answer.model \in DOMAIN models BY DEF IInv, Answered
    <3>2. ASSUME IsFatal(answer.model, answer.method)
          PROVE  IsFatal(answer.model, answer.method)' /\ refused'
      <4>1. IsFatal(answer.model, answer.method)' BY <1>1, <2>1, <3>1, <3>2, FindingsStay
      <4>2. Pair \in Fatal BY <3>2, FindingsAre DEF Pair
      <4>3. Fatal' = Fatal BY <2>1 DEF Findings, Fatal, MethodsOf, Enforced
      <4> QED BY <2>2, <3>1, <4>1, <4>2, <4>3
    <3> QED BY <2>1, <2>2, <3>1, <3>2 DEF IInv, Answered, Pair
  <2> QED BY <1>1, <2>3, <2>4 DEF IInv
<1>4. ASSUME NEW p \in {"none", "open", "scoped"}, SetPermission(p) PROVE IInv'
  <2>1. /\ UNCHANGED <<app, models, phase, initialised>> /\ permission' = p /\ answer' = None
        /\ initialised => Audit(p)
    BY <1>4 DEF SetPermission, AuditsAtOnce, wiring
  <2>2. Audited' BY <2>1, AuditFinds DEF IInv, Audited
  <2> QED BY <1>1, <2>1, <2>2 DEF IInv, Answered
<1>5. ASSUME NEW n \in DOMAIN models, NEW m \in MethodsOf(n), CallClassMethod(n, m) PROVE IInv'
  <2>1. /\ UNCHANGED <<app, models, phase, initialised, permission, refused, warned>>
        /\ phase = "returned" /\ permission = "scoped"
        /\ answer' = [model |-> n, method |-> m, rows |-> RowsOf(n, m)]
    BY <1>5 DEF CallClassMethod, wiring
  <2>2. answer'.model = n /\ answer'.method = m /\ answer'.rows = RowsOf(n, m) BY <2>1
  <2>3. Findings' = Findings /\ Fatal' = Fatal BY <2>1 DEF Findings, Fatal, MethodsOf, Enforced
  <2>4. Audited' BY <2>1, <2>3 DEF IInv, Audited
  <2>5. ASSUME RowsOf(n, m) = "all", Disposition(m) = "none"
        PROVE  <<n, m>> \in warned \/ (IsFatal(n, m) /\ refused)
    <3>1. <<n, m>> \in Findings BY <2>5, ReadsAllIsFound, FindingsAre
    <3>2. <<n, m>> \in Fatal => IsFatal(n, m) /\ refused BY <2>1, FindingsAre DEF IInv, Audited
    <3> QED BY <2>1, <3>1, <3>2 DEF IInv, Audited
  <2>6. IsFatal(n, m) => IsFatal(n, m)' BY <1>1, FindingsStay
  <2>7. Answered' BY <2>1, <2>2, <2>5, <2>6 DEF Answered, Pair
  <2> QED BY <1>1, <2>4, <2>7 DEF IInv
<1>6. CASE UNCHANGED vars
  <2>1. Findings' = Findings /\ Fatal' = Fatal
    BY <1>6 DEF vars, wiring, Findings, Fatal, MethodsOf, Enforced
  <2>2. Audited' BY <1>6, <2>1 DEF IInv, Audited, vars, host
  <2>3. answer # None => (IsFatal(answer.model, answer.method) => IsFatal(answer.model, answer.method)')
    BY <1>1, <1>6, FindingsStay DEF IInv, Answered, vars, host
  <2>4. Answered' BY <1>6, <2>3 DEF IInv, Answered, vars, host, wiring, Pair
  <2> QED BY <1>1, <2>2, <2>4 DEF IInv
<1>7. CASE \/ \E a \in app.adapters : RegisterAdapter(a)
           \/ \E d \in app.models : Define(d) \/ \E failed \in BOOLEAN : AddDefinition(d, failed)
           \/ Initialise
           \/ \E failed \in BOOLEAN : AddPending(failed)
           \/ Queued \/ Relink \/ ValidateKeys
           \/ \E d \in DOMAIN todo : Wire(d)
           \/ \E n \in DOMAIN joins : GenerateJoin(n)
           \/ \E a \in starting, failed \in BOOLEAN : AdapterStarts(a, failed)
  BY <1>2, <1>7 DEF RegisterAdapter, Define, AddDefinition, AddPending, Add, Initialise, Queued, Relink,
                    ValidateKeys, Wire, GenerateJoin, AdapterStarts, host
<1> QED BY <1>3, <1>4, <1>5, <1>6, <1>7 DEF Next, Engine

(* A scope that was accepted is not read around in silence: for any        *)
(* declarations, any order of registering, wiring and changing the         *)
(* permission, and any failures of the adapters.                           *)
THEOREM ReadsAreHeardOf == Spec => []NothingReadsAroundUnheard
<1>1. IInv => NothingReadsAroundUnheard BY DEF IInv, Answered, NothingReadsAroundUnheard, Pair
<1> QED BY InitInv, StepInv, <1>1, PTL DEF Spec

-----------------------------------------------------------------------------
(* An adapter is given the hooks of the instances when the keys are valid  *)
(* the first time, and never again.                                        *)

Hooks ==
  /\ adapters \in Seq(app.adapters)
  /\ hooked \in [app.adapters -> 0..1]
  /\ phase \in {"starting", "returned"} => \A a \in Registered : hooked[a] = 1

LEMMA HooksStep == Hooks /\ [Next]_vars => Hooks'
<1> SUFFICES ASSUME Hooks, [Next]_vars PROVE Hooks' OBVIOUS
<1>1. ASSUME UNCHANGED <<app, adapters, hooked>>, phase' \in {"starting", "returned"} => phase \in {"starting", "returned"}
      PROVE  Hooks'
  BY <1>1 DEF Hooks, Registered
<1>2. ASSUME NEW a \in app.adapters, RegisterAdapter(a) PROVE Hooks'
  BY <1>2 DEF RegisterAdapter, Hooks
<1>3. CASE ValidateKeys
  <2>1. Registered \subseteq app.adapters BY DEF Hooks, Registered
  <2>2. CASE UNCHANGED hooked
    BY <1>3, <2>1, <2>2 DEF ValidateKeys, Hooks, Registered
  <2>3. CASE hooked' = [a \in DOMAIN hooked |-> IF a \in Registered /\ hooked[a] = 0 THEN 1 ELSE hooked[a]]
    <3>1. hooked' \in [app.adapters -> 0..1] BY <2>3 DEF Hooks
    <3>2. \A a \in Registered : hooked'[a] = 1 BY <2>1, <2>3 DEF Hooks
    <3> QED BY <1>3, <3>1, <3>2 DEF ValidateKeys, Hooks, Registered
  <2> QED BY <1>3, <2>2, <2>3 DEF ValidateKeys
<1>4. CASE UNCHANGED vars
  BY <1>1, <1>4 DEF vars
<1>5. CASE \/ \E d \in app.models : Define(d) \/ \E failed \in BOOLEAN : AddDefinition(d, failed)
           \/ Initialise
           \/ \E failed \in BOOLEAN : AddPending(failed)
           \/ Queued \/ Relink \/ Finish
           \/ \E d \in DOMAIN todo : Wire(d)
           \/ \E n \in DOMAIN joins : GenerateJoin(n)
           \/ \E a \in starting, failed \in BOOLEAN : AdapterStarts(a, failed)
           \/ \E p \in {"none", "open", "scoped"} : SetPermission(p)
           \/ \E n \in DOMAIN models : \E m \in MethodsOf(n) : CallClassMethod(n, m)
  BY <1>1, <1>5 DEF Define, AddDefinition, AddPending, Add, Initialise, Queued, Relink, Finish, Wire, GenerateJoin,
                    AdapterStarts, SetPermission, CallClassMethod
<1> QED BY <1>2, <1>3, <1>4, <1>5 DEF Next, Engine

(* However often initialise() is called, no adapter gets the hooks twice,  *)
(* and every one has them before it starts.                                *)
THEOREM HookedOnce ==
  Spec => [](\A a \in Registered : hooked[a] <= 1 /\ (phase \in {"starting", "returned"} => hooked[a] = 1))
<1>1. Init => Hooks BY DEF Init, Hooks, Registered
<1>2. Hooks => \A a \in Registered : hooked[a] <= 1 /\ (phase \in {"starting", "returned"} => hooked[a] = 1)
  <2> SUFFICES ASSUME Hooks, NEW a \in Registered
               PROVE  hooked[a] <= 1 /\ (phase \in {"starting", "returned"} => hooked[a] = 1)
    OBVIOUS
  <2>1. a \in app.adapters BY DEF Hooks, Registered
  <2> QED BY <2>1 DEF Hooks
<1> QED BY HooksStep, <1>1, <1>2, PTL DEF Spec

-----------------------------------------------------------------------------
(* An orm that has started is the one declared, whatever is declared and   *)
(* in whatever order its relationships are wired.                          *)

NthOf(d, i) == RelationshipsOf(d)[i]
WiredAs(d, i) == Wired(d, NthOf(d, i), ~ Crosses(<<d, NthOf(d, i)>>))

(* The relationships of a model before its k-th are wired, each under a    *)
(* name of its own and with the keys that its adapter adds.                *)
WiredBefore(d, k) ==
  \A i \in DOMAIN RelationshipsOf(d) : i < k =>
    /\ WiredAs(d, i) \in relationships
    /\ \A j \in DOMAIN RelationshipsOf(d) : j < i => NthOf(d, j).name # NthOf(d, i).name
    /\ ~ Crosses(<<d, NthOf(d, i)>>) =>
         \A key \in KeyOwners(d, NthOf(d, i)) : key[1] \in app.models => key[2] \in models[key[1]].columns
Complete == /\ app.models \subseteq DOMAIN models
            /\ \A d \in app.models : WiredBefore(d, Len(RelationshipsOf(d)) + 1)

(* A model that was declared has its columns and those of its keys, one    *)
(* that was made up the two keys of a relationship, and what was read of   *)
(* either is all it has.                                                   *)
JoinModel(n, left, right) == \E w \in Left : w.through = n /\ w.foreignKey = left /\ w.otherKey = right
MadeOf(n, columns) == \E w \in Left : w.through = n /\ columns = {w.foreignKey, w.otherKey, PK}
ModelOK(n) ==
  /\ DOMAIN models[n] = {"adapter", "columns", "read"}
  /\ models[n].read \in {None, models[n].columns}
  /\ n \in app.models => /\ models[n].adapter = HomeOf(n)
                         /\ app.columns[n] \cup {PK} \subseteq models[n].columns
                         /\ models[n].columns \subseteq FinalColumns(n)
  /\ n \notin app.models => models[n].adapter = DefaultAdapter /\ MadeOf(n, models[n].columns)
Sound ==
  /\ \A n \in DOMAIN models : ModelOK(n)
  /\ relationships \subseteq Declared
  /\ \A n \in DOMAIN joins : JoinModel(n, joins[n].foreignKey, joins[n].otherKey)
  /\ \A w \in relationships : w.through # None => w.through \in DOMAIN models \cup DOMAIN joins

(* The first time nothing is read yet and no model is made up; any other   *)
(* time all is wired already.                                              *)
FirstTime == \A n \in DOMAIN models : n \in app.models /\ models[n].read = None
KeysValid == \A c \in AllChecks : c[1] \in DOMAIN models => c[2] \in models[c[1]].columns
ByPhase ==
  /\ phase = "idle" => /\ relationships = {} /\ joins = <<>> /\ FirstTime
                       /\ \A n \in DOMAIN models : models[n].columns = app.columns[n] \cup {PK}
  /\ phase = "defining" => joins = <<>> /\ app.models \subseteq Defined /\ (FirstTime \/ Complete)
  /\ phase = "wiring" => /\ app.models \subseteq DOMAIN todo /\ DOMAIN todo \subseteq DOMAIN models
                         /\ todo \in [DOMAIN todo -> Nat \ {0}]
                         /\ \A d \in app.models : WiredBefore(d, todo[d])
                         /\ FirstTime \/ Complete
  /\ phase \in {"joining", "starting", "returned", "refused"} => Complete
  /\ phase \in {"starting", "returned", "refused"} => joins = <<>> /\ KeysValid

Lists == /\ app \in Apps /\ pending \in Seq(app.models) /\ adapters \in Seq(app.adapters)
         /\ DOMAIN models # {} => adapters # <<>>
DInv == Lists /\ (phase # "threw" => Sound /\ ByPhase)

(* What is declared depends on nothing that a step changes later.          *)
LEMMA DeclaredStays ==
  ASSUME UNCHANGED <<app, adapters>>
  PROVE  /\ DefaultAdapter' = DefaultAdapter /\ Declared' = Declared /\ Left' = Left
         /\ \A n : /\ HomeOf(n)' = HomeOf(n) /\ FinalColumns(n)' = FinalColumns(n)
                   /\ RelationshipsOf(n)' = RelationshipsOf(n)
         /\ \A n, i : WiredAs(n, i)' = WiredAs(n, i) /\ NthOf(n, i)' = NthOf(n, i)
         /\ \A d, r : KeyOwners(d, r)' = KeyOwners(d, r) /\ OtherKey(d, r)' = OtherKey(d, r)
         /\ \A x : Crosses(x)' <=> Crosses(x)
         /\ \A n, l, r : JoinModel(n, l, r)' <=> JoinModel(n, l, r)
         /\ \A n, c : MadeOf(n, c)' <=> MadeOf(n, c)
<1>1. DefaultAdapter' = DefaultAdapter BY DEF DefaultAdapter
<1>2. \A n : HomeOf(n)' = HomeOf(n) BY <1>1 DEF HomeOf
<1>3. \A n : RelationshipsOf(n)' = RelationshipsOf(n) BY DEF RelationshipsOf
<1>4. \A x : Crosses(x)' <=> Crosses(x) BY <1>2 DEF Crosses
<1>5. \A d, r : OtherKey(d, r)' = OtherKey(d, r) BY DEF OtherKey, Reciprocal, RelationshipsOf
<1>6. \A d, r : KeyOwners(d, r)' = KeyOwners(d, r) BY DEF KeyOwners, OtherKey, Reciprocal, RelationshipsOf
<1>7. AllRelationships' = AllRelationships BY DEF AllRelationships, RelationshipsOf
<1>8. \A d, r, b : Wired(d, r, b)' = Wired(d, r, b) BY DEF Wired, OtherKey, Reciprocal, RelationshipsOf
<1>9. Declared' = Declared
  BY DEF Declared, Wired, OtherKey, Reciprocal, RelationshipsOf, AllRelationships, Crosses, HomeOf, DefaultAdapter
<1>10. Left' = Left BY <1>9 DEF Left
<1>11. \A n, i : NthOf(n, i)' = NthOf(n, i) BY DEF NthOf, RelationshipsOf
<1>12. \A n, i : WiredAs(n, i)' = WiredAs(n, i)
  BY DEF WiredAs, NthOf, Wired, OtherKey, Reciprocal, RelationshipsOf, Crosses, HomeOf, DefaultAdapter
<1>13. \A n : FinalColumns(n)' = FinalColumns(n)
  BY <1>10 DEF FinalColumns, Ends, AllRelationships, KeyOwners, OtherKey, Reciprocal, RelationshipsOf,
               Crosses, HomeOf, DefaultAdapter
<1>14. \A n, l, r : JoinModel(n, l, r)' <=> JoinModel(n, l, r) BY <1>10 DEF JoinModel
<1>15. \A n, c : MadeOf(n, c)' <=> MadeOf(n, c) BY <1>10 DEF MadeOf
<1> QED BY <1>1, <1>2, <1>3, <1>4, <1>5, <1>6, <1>9, <1>10, <1>11, <1>12, <1>13, <1>14, <1>15

(* What is wired stays wired while nothing goes away. *)
LEMMA WiredStays ==
  ASSUME UNCHANGED <<app, adapters>>, relationships \subseteq relationships',
         \A n \in app.models : models[n].columns \subseteq models'[n].columns,
         NEW d, NEW k
  PROVE  WiredBefore(d, k) => WiredBefore(d, k)'
BY DeclaredStays DEF WiredBefore

LEMMA CompleteStays ==
  ASSUME UNCHANGED <<app, adapters>>, relationships \subseteq relationships', Complete,
         DOMAIN models \subseteq DOMAIN models',
         \A n \in app.models : models[n].columns \subseteq models'[n].columns
  PROVE  Complete'
<1>1. \A d \in app.models : WiredBefore(d, Len(RelationshipsOf(d)) + 1)'
  <2> SUFFICES ASSUME NEW d \in app.models PROVE WiredBefore(d, Len(RelationshipsOf(d)) + 1)'
    OBVIOUS
  <2>1. \E k : k = Len(RelationshipsOf(d)) + 1 OBVIOUS
  <2>2. PICK k : k = Len(RelationshipsOf(d)) + 1 BY <2>1
  <2>3. WiredBefore(d, k)' BY <2>2, WiredStays DEF Complete
  <2>4. k = (Len(RelationshipsOf(d)) + 1)' BY <2>2, DeclaredStays
  <2> QED BY <2>3, <2>4 DEF WiredBefore
<1> QED BY <1>1 DEF Complete

(* Steps that touch neither models nor relationships. *)
LEMMA SoundStays ==
  ASSUME UNCHANGED <<app, adapters, wiring>>, Sound
  PROVE  Sound' /\ (Complete => Complete') /\ (FirstTime => FirstTime') /\ (KeysValid => KeysValid')
<1>1. \A n \in DOMAIN models' : ModelOK(n)' BY DeclaredStays DEF wiring, Sound, ModelOK
<1>2. Sound' BY <1>1, DeclaredStays DEF wiring, Sound
<1>3. Complete => Complete' BY CompleteStays DEF wiring
<1> QED BY <1>2, <1>3 DEF wiring, FirstTime, KeysValid, AllChecks

LEMMA AddSound ==
  ASSUME Lists, phase # "threw" => Sound, phase # "threw", NEW d \in app.models, NEW failed, Add(d, failed)
  PROVE  /\ DOMAIN models' # {} => adapters # <<>>
         /\ phase' = phase \/ phase' = "threw"
         /\ phase' # "threw" =>
              /\ Sound'
              /\ d \notin DOMAIN models /\ DOMAIN models' = DOMAIN models \cup {d}
              /\ \A n \in DOMAIN models : models'[n] = models[n]
              /\ models'[d].read = None /\ models'[d].columns = app.columns[d] \cup {PK}
<1>1. CASE UNCHANGED models /\ phase' = "threw" BY <1>1 DEF Lists
<1>2. CASE ~ (failed \/ ~ HasHome(d) \/ d \in DOMAIN models)
  <2>1. /\ adapters # <<>> /\ d \notin DOMAIN models /\ phase' = phase
        /\ models' = With(models, d, Model(HomeOf(d), app.columns[d]))
        /\ UNCHANGED <<app, adapters, relationships, joins>>
    BY <1>2 DEF Add, HasHome
  <2>2. /\ DOMAIN models' = DOMAIN models \cup {d}
        /\ \A n \in DOMAIN models : models'[n] = models[n]
        /\ models'[d] = Model(HomeOf(d), app.columns[d])
    BY <2>1 DEF With
  <2>3. /\ models'[d].adapter = HomeOf(d) /\ models'[d].read = None
        /\ models'[d].columns = app.columns[d] \cup {PK}
        /\ DOMAIN models'[d] = {"adapter", "columns", "read"}
    BY <2>2 DEF Model
  <2>4. ModelOK(d)' BY <2>1, <2>3, DeclaredStays DEF ModelOK, FinalColumns
  <2>5. \A n \in DOMAIN models : ModelOK(n)' BY <2>1, <2>2, DeclaredStays DEF ModelOK, Sound
  <2>6. Sound' BY <2>1, <2>2, <2>4, <2>5, DeclaredStays DEF Sound
  <2> QED BY <2>1, <2>2, <2>3, <2>6
<1> QED BY <1>1, <1>2 DEF Add

(* The relationship that is wired next is one of a declared model, and the *)
(* first time both of its ends are on the adapters they were declared for. *)
LEMMA WireAt ==
  ASSUME Lists, Sound, ByPhase, phase = "wiring", NEW d \in DOMAIN todo, Wire(d)
  PROVE  LET i == todo[d]
             r == NthOf(d, i)
         IN /\ i \in Nat \ {0} /\ i <= Len(RelationshipsOf(d)) /\ i \in DOMAIN RelationshipsOf(d)
            /\ DOMAIN RelationshipsOf(d) \subseteq Nat /\ Len(RelationshipsOf(d)) \in Nat
            /\ d \in app.models /\ d \in DOMAIN models
            /\ FirstTime /\ r.model \in DOMAIN models =>
                 /\ r.model \in app.models /\ (SameAdapter(d, r) <=> ~ Crosses(<<d, r>>))
                 /\ models[d].adapter = HomeOf(d)
<1> DEFINE i == todo[d]
           r == NthOf(d, i)
<1>1. i \in Nat \ {0} /\ i <= Len(RelationshipsOf(d)) /\ d \in DOMAIN models
  BY DEF Wire, ByPhase
<1>2. RelationshipsOf(d) # <<>> BY <1>1
<1>3. d \in DOMAIN app.relationships /\ RelationshipsOf(d) = app.relationships[d] BY <1>2 DEF RelationshipsOf
<1>4. RelationshipsOf(d) \in Seq(Range(RelationshipsOf(d))) /\ d \in app.models
  BY <1>3, LifecycleAssumption DEF Lists
<1>5. ASSUME FirstTime, r.model \in DOMAIN models
      PROVE  /\ r.model \in app.models /\ (SameAdapter(d, r) <=> ~ Crosses(<<d, r>>))
             /\ models[d].adapter = HomeOf(d)
  <2>1. r.model \in app.models BY <1>5 DEF FirstTime
  <2>2. models[d].adapter = HomeOf(d) /\ models[r.model].adapter = HomeOf(r.model)
    BY <1>1, <1>4, <1>5, <2>1 DEF Sound, ModelOK
  <2> QED BY <2>1, <2>2 DEF SameAdapter, Crosses
<1> QED BY <1>1, <1>4, <1>5

(* One relationship is wired: it is the one declared, and what it adds is  *)
(* what it should.                                                         *)
LEMMA WireSound ==
  ASSUME Lists, Sound, ByPhase, phase = "wiring", NEW d \in DOMAIN todo, Wire(d), phase' # "threw"
  PROVE  Sound' /\ ByPhase' /\ phase' = phase /\ FirstTime /\ FirstTime'
<1> DEFINE i == todo[d]
           r == NthOf(d, i)
           same == SameAdapter(d, r)
<1>1. /\ i \in Nat \ {0} /\ i <= Len(RelationshipsOf(d)) /\ r = RelationshipsOf(d)[todo[d]]
      /\ d \in app.models /\ d \in DOMAIN models /\ i \in DOMAIN RelationshipsOf(d)
  BY WireAt DEF NthOf
<1>2. /\ phase' = phase
      /\ todo' = [todo EXCEPT ![d] = @ + 1]
      /\ ~ Invalid(r) /\ ~ Duplicate(d, r)
      /\ relationships' = relationships \cup {Wired(d, r, same)}
      /\ models' = IF same THEN Keyed(models, KeyOwners(d, r)) ELSE models
      /\ joins' = IF same \/ r.type # "belongsToMany" \/ ThroughName(d, r) \in DOMAIN models \cup DOMAIN joins
                  THEN joins ELSE With(joins, ThroughName(d, r), JoinOf(d, r))
      /\ UNCHANGED <<app, adapters>>
  BY <1>1 DEF Wire
<1>3. d \in app.models /\ i \in DOMAIN RelationshipsOf(d) BY <1>1
<1>4. \A w \in relationships : w.def = d => w.name # r.name BY <1>2 DEF Duplicate
<1>5. FirstTime
  <2> SUFFICES ASSUME Complete PROVE FALSE BY DEF ByPhase
  <2>1. WiredBefore(d, Len(RelationshipsOf(d)) + 1) BY <1>3 DEF Complete
  <2>2. Len(RelationshipsOf(d)) \in Nat /\ i < Len(RelationshipsOf(d)) + 1
    BY <1>1, <1>3, LifecycleAssumption DEF Lists, RelationshipsOf
  <2>3. WiredAs(d, i) \in relationships BY <1>3, <2>1, <2>2 DEF WiredBefore
  <2> QED BY <1>4, <2>3 DEF WiredAs, Wired
<1>6. r.model \in app.models /\ (same <=> ~ Crosses(<<d, r>>)) BY <1>2, <1>5, WireAt DEF Invalid
<1>7. Wired(d, r, same) = WiredAs(d, i)
  <2>1. same = ~ Crosses(<<d, r>>) BY <1>6 DEF SameAdapter, Crosses
  <2> QED BY <2>1 DEF WiredAs
<1>8. <<d, r>> \in AllRelationships /\ Wired(d, r, same) \in Declared
  <2>1. <<d, r>> \in AllRelationships BY <1>3 DEF AllRelationships, NthOf
  <2> QED BY <1>7, <2>1 DEF Declared, WiredAs
<1>9. /\ DOMAIN models' = DOMAIN models
      /\ \A n \in DOMAIN models :
           /\ DOMAIN models'[n] = DOMAIN models[n]
           /\ models'[n].adapter = models[n].adapter /\ models'[n].read = models[n].read
           /\ models[n].columns \subseteq models'[n].columns
           /\ \A c \in models'[n].columns : c \in models[n].columns \/ (same /\ <<n, c>> \in KeyOwners(d, r))
           /\ same => \A c : <<n, c>> \in KeyOwners(d, r) => c \in models'[n].columns
  <2>1. CASE ~ same BY <1>2, <2>1
  <2>2. CASE same
    <3>1. \A k \in KeyOwners(d, r) : k = <<k[1], k[2]>>
      BY <1>2 DEF KeyOwners, Invalid, RelationshipTypes
    <3>2. \A n \in DOMAIN models : DOMAIN models[n] = {"adapter", "columns", "read"} BY DEF Sound, ModelOK
    <3>3. models' = Keyed(models, KeyOwners(d, r)) BY <1>2, <2>2
    <3> HIDE DEF same, r, i
    <3> QED BY <2>2, <3>1, <3>2, <3>3 DEF Keyed
  <2> QED BY <2>1, <2>2
<1>10. \A n \in DOMAIN models' : ModelOK(n)'
  <2> SUFFICES ASSUME NEW n \in DOMAIN models PROVE ModelOK(n)' BY <1>9
  <2>1. n \in app.models /\ models[n].read = None /\ ModelOK(n) BY <1>5 DEF FirstTime, Sound
  <2>2. \A c : same /\ <<n, c>> \in KeyOwners(d, r) => c \in FinalColumns(n)
    BY <1>6, <1>8, <2>1 DEF FinalColumns
  <2> QED BY <1>2, <1>9, <2>1, <2>2, DeclaredStays DEF ModelOK
<1>11. \A n \in DOMAIN joins' \ DOMAIN joins :
          /\ ~ same /\ n = ThroughName(d, r)
          /\ JoinModel(n, joins'[n].foreignKey, joins'[n].otherKey)
  <2> SUFFICES ASSUME NEW n \in DOMAIN joins', n \notin DOMAIN joins
               PROVE  /\ ~ same /\ n = ThroughName(d, r)
                      /\ JoinModel(n, joins'[n].foreignKey, joins'[n].otherKey)
    OBVIOUS
  <2>1. /\ ~ same /\ r.type = "belongsToMany" /\ ThroughName(d, r) \notin DOMAIN models
        /\ joins' = With(joins, ThroughName(d, r), JoinOf(d, r))
    BY <1>2
  <2>2. n = ThroughName(d, r) /\ joins'[n] = JoinOf(d, r) BY <2>1 DEF With
  <2>3. n # None
    BY <1>3, <1>6, <2>2, LifecycleAssumption DEF Lists, ThroughName
  <2>4. n \notin app.models BY <2>1, <2>2 DEF ByPhase
  <2> DEFINE w == Wired(d, r, same)
  <2>5. w.through = n /\ w.foreignKey = r.foreignKey /\ w.otherKey = OtherKey(d, r)
    BY <2>1, <2>2 DEF Wired
  <2>6. w \in Left BY <1>8, <2>3, <2>4, <2>5 DEF Left
  <2>7. joins'[n].foreignKey = r.foreignKey /\ joins'[n].otherKey = OtherKey(d, r) BY <2>2 DEF JoinOf
  <2> QED BY <2>1, <2>2, <2>5, <2>6, <2>7 DEF JoinModel
<1>12. \A n \in DOMAIN joins : n \in DOMAIN joins' /\ joins'[n] = joins[n] BY <1>2 DEF With
<1>13. \A w \in relationships' : w.through # None => w.through \in DOMAIN models' \cup DOMAIN joins'
  <2> SUFFICES ASSUME NEW w \in relationships', w.through # None
               PROVE  w.through \in DOMAIN models' \cup DOMAIN joins'
    OBVIOUS
  <2>1. CASE w \in relationships BY <1>9, <1>12, <2>1 DEF Sound
  <2>2. CASE w = Wired(d, r, same)
    <3>1. ~ same /\ r.type = "belongsToMany" /\ w.through = ThroughName(d, r) BY <2>2 DEF Wired
    <3>2. CASE ThroughName(d, r) \in DOMAIN models \cup DOMAIN joins BY <1>9, <1>12, <3>1, <3>2
    <3>3. CASE ThroughName(d, r) \notin DOMAIN models \cup DOMAIN joins BY <1>2, <3>1, <3>3 DEF With
    <3> QED BY <3>2, <3>3
  <2> QED BY <1>2, <2>1, <2>2
<1>14. Sound'
  <2>1. relationships' \subseteq Declared' BY <1>2, <1>8, DeclaredStays DEF Sound
  <2>2. \A n \in DOMAIN joins' : JoinModel(n, joins[n].foreignKey, joins[n].otherKey)'
    BY <1>2, <1>11, <1>12, DeclaredStays DEF Sound
  <2> QED BY <1>10, <1>13, <2>1, <2>2 DEF Sound
<1>15. \A e \in app.models : WiredBefore(e, todo[e])'
  <2> SUFFICES ASSUME NEW e \in app.models PROVE WiredBefore(e, todo[e])' BY <1>2
  <2>1. e \in DOMAIN todo /\ WiredBefore(e, todo[e]) /\ todo[e] \in Nat BY DEF ByPhase
  <2>2. \A n \in app.models : models[n].columns \subseteq models'[n].columns BY <1>9 DEF ByPhase
  <2>3. \E k : k = todo[e] OBVIOUS
  <2>4. PICK k : k = todo[e] BY <2>3
  <2>5. WiredBefore(e, k)' BY <1>2, <2>1, <2>2, <2>4, WiredStays
  <2>6. CASE e # d
    <3>1. todo'[e] = k BY <1>2, <2>1, <2>4, <2>6
    <3> QED BY <2>5, <3>1 DEF WiredBefore
  <2>7. CASE e = d
    <3>1. todo'[d] = i + 1 BY <1>2
    <3>2. \A j \in DOMAIN RelationshipsOf(d) : j \in Nat
      BY <1>3, LifecycleAssumption DEF Lists, RelationshipsOf
    <3>3. \A j \in DOMAIN RelationshipsOf(d) : j < i + 1 => j < i \/ j = i BY <1>1, <3>2
    <3>4. WiredAs(d, i) \in relationships' BY <1>2, <1>7
    <3>5. \A j \in DOMAIN RelationshipsOf(d) : j < i => NthOf(d, j).name # r.name
      <4> SUFFICES ASSUME NEW j \in DOMAIN RelationshipsOf(d), j < i PROVE NthOf(d, j).name # r.name
        OBVIOUS
      <4>1. WiredAs(d, j) \in relationships BY <2>1, <2>7 DEF WiredBefore
      <4> QED BY <1>4, <4>1 DEF WiredAs, Wired
    <3>6. ~ Crosses(<<d, r>>) =>
            \A key \in KeyOwners(d, r) : key[1] \in app.models => key[2] \in models'[key[1]].columns
      <4>1. \A key \in KeyOwners(d, r) : key = <<key[1], key[2]>>
        BY <1>2 DEF KeyOwners, Invalid, RelationshipTypes
      <4> QED BY <1>6, <1>9, <4>1 DEF ByPhase
    <3>7. WiredBefore(d, k)' BY <2>5, <2>7
    <3>8. k = i BY <2>4, <2>7
    <3> QED BY <1>2, <2>7, <3>1, <3>3, <3>4, <3>5, <3>6, <3>7, <3>8, DeclaredStays DEF WiredBefore
  <2> QED BY <2>6, <2>7
<1>16. FirstTime' BY <1>2, <1>5, <1>9 DEF FirstTime
<1>17. /\ app'.models \subseteq DOMAIN todo' /\ DOMAIN todo' \subseteq DOMAIN models'
       /\ todo' \in [DOMAIN todo' -> Nat \ {0}]
  BY <1>1, <1>2, <1>9 DEF ByPhase
<1> QED BY <1>2, <1>5, <1>14, <1>15, <1>16, <1>17 DEF ByPhase

(* What was read of a model is all it has. *)
LEMMA ReadSound ==
  ASSUME Sound, NEW names
  PROVE  /\ DOMAIN Read(models, names) = DOMAIN models
         /\ \A n \in DOMAIN models :
              LET m == Read(models, names)[n]
              IN /\ DOMAIN m = {"adapter", "columns", "read"}
                 /\ m.adapter = models[n].adapter /\ m.columns = models[n].columns
                 /\ m.read \in {None, m.columns}
BY DEF Sound, ModelOK, Read

LEMMA JoinSound ==
  ASSUME Lists, Sound, Complete, NEW n \in DOMAIN joins, GenerateJoin(n)
  PROVE  Sound' /\ Complete'
<1>1. CASE n \in DOMAIN models
  <2>1. UNCHANGED <<app, adapters, models, relationships>> /\ joins' = Restrict(joins, DOMAIN joins \ {n})
    BY <1>1 DEF GenerateJoin, Unqueued
  <2>2. DOMAIN joins' = DOMAIN joins \ {n} /\ \A m \in DOMAIN joins' : joins'[m] = joins[m]
    BY <2>1 DEF Restrict
  <2>3. \A m \in DOMAIN models' : ModelOK(m)' BY <2>1, DeclaredStays DEF Sound, ModelOK
  <2>4. Complete' BY <2>1, CompleteStays
  <2> QED BY <1>1, <2>1, <2>2, <2>3, <2>4, DeclaredStays DEF Sound
<1>2. CASE n \notin DOMAIN models
  <2> DEFINE known == Read(models, {joins[n].source, joins[n].target})
  <2>1. /\ UNCHANGED <<app, adapters, relationships>> /\ joins' = Restrict(joins, DOMAIN joins \ {n})
        /\ models' = With(known, n, Model(DefaultAdapter, {joins[n].foreignKey, joins[n].otherKey}))
    BY <1>2 DEF GenerateJoin, Unqueued
  <2>2. /\ DOMAIN known = DOMAIN models
        /\ \A m \in DOMAIN models :
             /\ DOMAIN known[m] = {"adapter", "columns", "read"}
             /\ known[m].adapter = models[m].adapter /\ known[m].columns = models[m].columns
             /\ known[m].read \in {None, known[m].columns}
    BY ReadSound
  <2> HIDE DEF known
  <2>3. /\ DOMAIN models' = DOMAIN models \cup {n}
        /\ \A m \in DOMAIN models : models'[m] = known[m]
        /\ models'[n] = Model(DefaultAdapter, {joins[n].foreignKey, joins[n].otherKey})
    BY <1>2, <2>1, <2>2 DEF With
  <2>4. /\ DOMAIN models'[n] = {"adapter", "columns", "read"} /\ models'[n].read = None
        /\ models'[n].adapter = DefaultAdapter
        /\ models'[n].columns = {joins[n].foreignKey, joins[n].otherKey} \cup {PK}
    BY <2>3 DEF Model
  <2>5. n \notin app.models BY <1>2 DEF Complete
  <2>6. MadeOf(n, models'[n].columns)
    <3>1. JoinModel(n, joins[n].foreignKey, joins[n].otherKey) BY DEF Sound
    <3> QED BY <2>4, <3>1 DEF JoinModel, MadeOf
  <2>7. ModelOK(n)' BY <2>1, <2>4, <2>5, <2>6, DeclaredStays DEF ModelOK
  <2>8. ASSUME NEW m \in DOMAIN models PROVE ModelOK(m)'
    <3>1. /\ DOMAIN models'[m] = {"adapter", "columns", "read"}
          /\ models'[m].adapter = models[m].adapter /\ models'[m].columns = models[m].columns
          /\ models'[m].read \in {None, models'[m].columns}
      BY <2>2, <2>3
    <3>2. UNCHANGED <<app, adapters>> /\ ModelOK(m) BY <2>1 DEF Sound
    <3> QED BY <3>1, <3>2, DeclaredStays DEF ModelOK
  <2>9. DOMAIN joins' = DOMAIN joins \ {n} /\ \A m \in DOMAIN joins' : joins'[m] = joins[m]
    BY <2>1 DEF Restrict
  <2>10. Complete'
    <3>1. \A m \in app.models : models[m].columns \subseteq models'[m].columns BY <2>2, <2>3 DEF Complete
    <3> QED BY <2>1, <2>3, <3>1, CompleteStays
  <2>11. Sound' BY <2>1, <2>3, <2>7, <2>8, <2>9, DeclaredStays DEF Sound
  <2> QED BY <2>10, <2>11
<1> QED BY <1>1, <1>2

LEMMA ValidateSound ==
  ASSUME Lists, Sound, Complete, ValidateKeys
  PROVE  Sound' /\ Complete' /\ (phase' = "starting" => KeysValid') /\ phase' \in {"starting", "threw"}
<1> DEFINE known == Read(models, {c[1] : c \in AllChecks})
<1>1. /\ UNCHANGED <<app, adapters, relationships, joins>> /\ models' = known
      /\ phase' = "starting" => \A c \in AllChecks : c[2] \in FieldsOf(known, c[1])
      /\ phase' \in {"starting", "threw"}
  BY DEF ValidateKeys
<1>2. /\ DOMAIN known = DOMAIN models
      /\ \A m \in DOMAIN models :
           /\ DOMAIN known[m] = {"adapter", "columns", "read"}
           /\ known[m].adapter = models[m].adapter /\ known[m].columns = models[m].columns
           /\ known[m].read \in {None, known[m].columns}
  BY ReadSound
<1> HIDE DEF known
<1>3. \A m \in DOMAIN models : ModelOK(m)' BY <1>1, <1>2, DeclaredStays DEF Sound, ModelOK
<1>4. Sound' BY <1>1, <1>2, <1>3, DeclaredStays DEF Sound
<1>5. Complete'
  <2>1. \A m \in app.models : models[m].columns \subseteq models'[m].columns BY <1>1, <1>2 DEF Complete
  <2> QED BY <1>1, <1>2, <2>1, CompleteStays
<1>6. phase' = "starting" => KeysValid'
  <2> SUFFICES ASSUME phase' = "starting", NEW c \in AllChecks', c[1] \in DOMAIN models'
               PROVE  c[2] \in models'[c[1]].columns
    BY DEF KeysValid
  <2>1. AllChecks' = AllChecks BY <1>1 DEF AllChecks
  <2>2. c[2] \in FieldsOf(known, c[1]) BY <1>1, <2>1
  <2> QED BY <1>1, <1>2, <2>2 DEF FieldsOf
<1> QED BY <1>1, <1>4, <1>5, <1>6

LEMMA InitDeclared == Init => DInv
<1> SUFFICES ASSUME Init PROVE DInv OBVIOUS
<1>1. DOMAIN models = {} /\ DOMAIN joins = {} BY DEF Init
<1>2. Sound BY <1>1 DEF Init, Sound
<1>3. ByPhase BY <1>1 DEF Init, ByPhase, FirstTime
<1>4. Lists BY <1>1 DEF Init, Lists
<1> QED BY <1>2, <1>3, <1>4 DEF DInv

LEMMA StepDeclared == DInv /\ [Next]_vars => DInv'
<1> SUFFICES ASSUME DInv, [Next]_vars PROVE DInv' OBVIOUS
<1>1. ASSUME UNCHANGED <<app, adapters, wiring>>, pending' \in Seq(app.models),
             phase # "threw" /\ phase' # "threw" => ByPhase', phase = "threw" => phase' = "threw"
      PROVE  DInv'
  <2>1. Lists' BY <1>1 DEF DInv, Lists, wiring
  <2> QED BY <1>1, <2>1, SoundStays DEF DInv
<1>2. ASSUME UNCHANGED <<app, adapters, wiring, pending, todo>>, phase = "threw" => phase' = "threw",
             \/ phase' = phase
             \/ phase' = "threw"
             \/ phase = "starting" /\ phase' \in {"returned", "refused"}
      PROVE  DInv'
  <2>1. ASSUME phase # "threw", phase' # "threw" PROVE ByPhase'
    <3>1. Sound /\ ByPhase BY <2>1 DEF DInv
    <3>2. /\ Complete => Complete'
          /\ FirstTime => FirstTime'
          /\ KeysValid => KeysValid'
      BY <1>2, <3>1, SoundStays
    <3>3. \A d \in app.models : phase = "wiring" => WiredBefore(d, todo[d])'
      <4> SUFFICES ASSUME NEW d \in app.models, phase = "wiring" PROVE WiredBefore(d, todo[d])' OBVIOUS
      <4>1. \E k : k = todo[d] OBVIOUS
      <4>2. PICK k : k = todo[d] BY <4>1
      <4>3. WiredBefore(d, k)' BY <1>2, <3>1, <4>2, WiredStays DEF ByPhase, wiring
      <4>4. todo'[d] = k BY <1>2, <4>2
      <4> QED BY <4>3, <4>4 DEF WiredBefore
    <3>4. Defined' = Defined BY <1>2 DEF Defined, wiring
    <3> QED BY <1>2, <2>1, <3>1, <3>2, <3>3, <3>4 DEF ByPhase, wiring
  <2> QED BY <1>1, <1>2, <2>1 DEF DInv, Lists
<1>3. ASSUME NEW a \in app.adapters, RegisterAdapter(a) PROVE DInv'
  <2>1. phase = "idle" /\ UNCHANGED <<app, pending, models, relationships, joins, phase>> /\ adapters' = Append(adapters, a)
    BY <1>3 DEF RegisterAdapter, wiring
  <2>2. Lists'
    <3>1. adapters' \in Seq(app.adapters) /\ adapters' # <<>> BY <2>1 DEF DInv, Lists
    <3> QED BY <2>1, <3>1 DEF DInv, Lists
  <2>3. ByPhase' BY <2>1 DEF DInv, ByPhase, FirstTime
  <2>4. ASSUME NEW n \in DOMAIN models PROVE ModelOK(n)'
    <3>1. DefaultAdapter' = DefaultAdapter
      <4>1. adapters # <<>> /\ adapters \in Seq(app.adapters) BY DEF DInv, Lists
      <4>2. Head(Append(adapters, a)) = Head(adapters) BY <4>1
      <4> QED BY <2>1, <4>2 DEF DefaultAdapter
    <3>2. HomeOf(n)' = HomeOf(n) BY <2>1, <3>1 DEF HomeOf
    <3>3. /\ n \in app.models /\ ModelOK(n)
          /\ models[n].columns = app.columns[n] \cup {PK}
      BY <2>1 DEF DInv, Sound, ByPhase, FirstTime
    <3>4. models[n].columns \subseteq FinalColumns(n)' BY <2>1, <3>3 DEF FinalColumns
    <3> QED BY <2>1, <3>2, <3>3, <3>4 DEF ModelOK
  <2>5. Sound'
    <3>1. relationships = {} /\ joins = <<>> /\ DOMAIN joins = {} BY <2>1 DEF DInv, ByPhase
    <3> QED BY <2>1, <2>4, <3>1 DEF Sound
  <2> QED BY <2>2, <2>3, <2>5 DEF DInv
<1>4. ASSUME NEW d \in app.models, Define(d) PROVE DInv'
  <2>1. phase = "idle" /\ UNCHANGED <<app, adapters, wiring, phase, todo>> /\ pending' = Append(pending, d)
    BY <1>4 DEF Define
  <2>2. pending' \in Seq(app.models) BY <2>1 DEF DInv, Lists
  <2>3. ByPhase' BY <2>1 DEF DInv, ByPhase, FirstTime, wiring
  <2> QED BY <1>1, <2>1, <2>2, <2>3
<1>5. ASSUME NEW d \in app.models, NEW failed, AddDefinition(d, failed) PROVE DInv'
  <2>1. phase = "idle" /\ Add(d, failed) /\ UNCHANGED <<app, adapters, pending, relationships, joins>>
    BY <1>5 DEF AddDefinition, Add
  <2>2. /\ DOMAIN models' # {} => adapters # <<>>
        /\ phase' \in {"idle", "threw"}
        /\ phase' # "threw" =>
             /\ Sound'
             /\ DOMAIN models' = DOMAIN models \cup {d}
             /\ \A n \in DOMAIN models : models'[n] = models[n]
             /\ models'[d].read = None /\ models'[d].columns = app.columns[d] \cup {PK}
    BY <2>1, AddSound DEF DInv
  <2>3. phase' # "threw" => ByPhase' BY <2>1, <2>2 DEF DInv, ByPhase, FirstTime
  <2> QED BY <2>1, <2>2, <2>3 DEF DInv, Lists
<1>6. CASE Initialise
  <2>1. /\ UNCHANGED <<app, adapters, wiring, pending, todo>> /\ phase \in {"idle", "returned"}
        /\ phase' = "defining" /\ app.models \subseteq Defined
    BY <1>6 DEF Initialise
  <2>2. FirstTime' \/ Complete' BY <2>1, SoundStays DEF DInv, ByPhase
  <2>3. ByPhase' BY <2>1, <2>2 DEF DInv, ByPhase, Defined, wiring
  <2> QED BY <1>1, <2>1, <2>3 DEF DInv, Lists
<1>7. ASSUME NEW failed, AddPending(failed) PROVE DInv'
  <2> DEFINE d == Head(pending)
  <2>1. /\ phase = "defining" /\ pending # <<>> /\ Add(d, failed) /\ pending' = Tail(pending)
        /\ UNCHANGED <<app, adapters, relationships, joins>>
    BY <1>7 DEF AddPending, Add
  <2>2. d \in app.models /\ pending' \in Seq(app.models) /\ Range(pending) \subseteq {d} \cup Range(pending')
    <3>1. pending \in Seq(app.models) /\ Len(pending) \in Nat /\ Len(pending) > 0 BY <2>1 DEF DInv, Lists
    <3>2. ASSUME NEW i \in DOMAIN pending, i # 1
          PROVE  i - 1 \in DOMAIN Tail(pending) /\ Tail(pending)[i - 1] = pending[i]
      <4>1. i \in 2..Len(pending) BY <3>1, <3>2
      <4>2. i - 1 \in 1..(Len(pending) - 1) /\ (i - 1) + 1 = i BY <3>1, <4>1
      <4>3. DOMAIN Tail(pending) = 1..(Len(pending) - 1) BY <3>1
      <4>4. Tail(pending)[i - 1] = pending[(i - 1) + 1] BY <3>1, <4>2
      <4> QED BY <4>2, <4>3, <4>4
    <3>3. d = pending[1] /\ d \in app.models /\ Tail(pending) \in Seq(app.models) BY <3>1
    <3>4. Range(pending) \subseteq {d} \cup Range(Tail(pending)) BY <3>2, <3>3 DEF Range
    <3> QED BY <2>1, <3>3, <3>4
  <2>3. /\ DOMAIN models' # {} => adapters # <<>>
        /\ phase' \in {"defining", "threw"}
        /\ phase' # "threw" =>
             /\ Sound'
             /\ d \notin DOMAIN models
             /\ DOMAIN models' = DOMAIN models \cup {d}
             /\ \A n \in DOMAIN models : models'[n] = models[n]
             /\ models'[d].read = None
    BY <2>1, <2>2, AddSound DEF DInv
  <2>4. phase' # "threw" => ByPhase'
    <3> SUFFICES ASSUME phase' # "threw" PROVE ByPhase' OBVIOUS
    <3>1. FirstTime BY <2>1, <2>2, <2>3 DEF DInv, ByPhase, Complete
    <3>2. FirstTime' BY <2>1, <2>2, <2>3, <3>1 DEF FirstTime
    <3>3. app'.models \subseteq Defined' BY <2>1, <2>2, <2>3 DEF DInv, ByPhase, Defined
    <3> QED BY <2>1, <2>3, <3>2, <3>3 DEF DInv, ByPhase
  <2> QED BY <2>1, <2>2, <2>3, <2>4 DEF DInv, Lists
<1>8. CASE Queued
  <2>1. /\ phase = "defining" /\ phase' = "wiring" /\ UNCHANGED <<app, adapters, wiring, pending>>
        /\ pending = <<>> /\ todo' = [n \in DOMAIN models |-> 1]
    BY <1>8 DEF Queued
  <2>2. app.models \subseteq DOMAIN models BY <2>1 DEF DInv, ByPhase, Defined, Range
  <2>3. FirstTime' \/ Complete' BY <2>1, SoundStays DEF DInv, ByPhase
  <2>4. \A d \in app.models : WiredBefore(d, todo[d])'
    <3> SUFFICES ASSUME NEW d \in app.models PROVE WiredBefore(d, todo[d])' OBVIOUS
    <3>1. todo'[d] = 1 BY <2>1, <2>2
    <3>2. ASSUME NEW i \in DOMAIN RelationshipsOf(d) PROVE ~ (i < 1)
      BY LifecycleAssumption DEF DInv, Lists, RelationshipsOf
    <3> QED BY <2>1, <3>1, <3>2, DeclaredStays DEF WiredBefore
  <2>5. ByPhase' BY <2>1, <2>2, <2>3, <2>4 DEF ByPhase, wiring
  <2> QED BY <1>1, <2>1, <2>5 DEF DInv, Lists
<1>9. CASE Relink
  <2>1. phase = "wiring" /\ phase' = "joining" /\ AllWired /\ UNCHANGED <<app, adapters, wiring, pending, todo>>
    BY <1>9 DEF Relink
  <2>2. Complete
    <3>1. app.models \subseteq DOMAIN models BY <2>1 DEF DInv, ByPhase
    <3>2. ASSUME NEW d \in app.models PROVE WiredBefore(d, Len(RelationshipsOf(d)) + 1)
      <4>1. WiredBefore(d, todo[d]) /\ todo[d] \in Nat /\ todo[d] > Len(RelationshipsOf(d))
        BY <2>1 DEF DInv, ByPhase, AllWired
      <4>2. /\ Len(RelationshipsOf(d)) \in Nat
            /\ DOMAIN RelationshipsOf(d) = 1..Len(RelationshipsOf(d))
        BY LifecycleAssumption DEF DInv, Lists, RelationshipsOf
      <4>3. \A i \in DOMAIN RelationshipsOf(d) : i < todo[d] BY <4>1, <4>2
      <4> QED BY <4>1, <4>3 DEF WiredBefore
    <3> QED BY <3>1, <3>2 DEF Complete
  <2>3. Complete' BY <2>1, <2>2, CompleteStays DEF wiring
  <2>4. ByPhase' BY <2>1, <2>3 DEF ByPhase
  <2> QED BY <1>1, <2>1, <2>4 DEF DInv, Lists
<1>10. ASSUME NEW d \in DOMAIN todo, Wire(d) PROVE DInv'
  <2>1. UNCHANGED <<app, adapters, pending>> /\ (phase = "wiring" \/ phase' = "threw") /\ phase \in {"wiring", "threw"}
    BY <1>10 DEF Wire
  <2>2. DOMAIN models' = DOMAIN models BY <1>10 DEF Wire, Keyed
  <2>3. Lists' BY <2>1, <2>2 DEF DInv, Lists
  <2> QED BY <1>10, <2>1, <2>3, WireSound DEF DInv
<1>11. ASSUME NEW n \in DOMAIN joins, GenerateJoin(n) PROVE DInv'
  <2>1. phase = "joining" /\ UNCHANGED <<app, adapters, pending, phase>> BY <1>11 DEF GenerateJoin
  <2>2. Sound' /\ Complete' BY <1>11, <2>1, JoinSound DEF DInv, ByPhase
  <2>3. Lists'
    <3>1. PICK w \in Left : w.through = n BY <2>1 DEF DInv, Sound, JoinModel
    <3>2. app.models # {} BY <3>1 DEF Left, Declared, AllRelationships
    <3>3. adapters # <<>> BY <2>1, <3>2 DEF DInv, Lists, ByPhase, Complete
    <3> QED BY <2>1, <3>3 DEF DInv, Lists
  <2>4. ByPhase' BY <2>1, <2>2 DEF ByPhase
  <2> QED BY <2>2, <2>3, <2>4 DEF DInv
<1>12. CASE ValidateKeys
  <2>1. phase = "joining" /\ joins = <<>> /\ UNCHANGED <<app, adapters, pending, joins>> BY <1>12 DEF ValidateKeys
  <2>2. Sound' /\ Complete' /\ (phase' = "starting" => KeysValid') /\ phase' \in {"starting", "threw"}
    BY <1>12, <2>1, ValidateSound DEF DInv, ByPhase
  <2>3. DOMAIN models' = DOMAIN models BY <1>12, <2>1, ReadSound DEF ValidateKeys, DInv
  <2>4. Lists' BY <2>1, <2>3 DEF DInv, Lists
  <2>5. phase' # "threw" => ByPhase' BY <2>1, <2>2 DEF ByPhase
  <2> QED BY <2>2, <2>4, <2>5 DEF DInv
<1>13. CASE \/ \E a \in starting, failed \in BOOLEAN : AdapterStarts(a, failed)
            \/ Finish
            \/ \E p \in {"none", "open", "scoped"} : SetPermission(p)
            \/ \E n \in DOMAIN models : \E m \in MethodsOf(n) : CallClassMethod(n, m)
            \/ UNCHANGED vars
  BY <1>2, <1>13 DEF AdapterStarts, Finish, SetPermission, CallClassMethod, vars
<1> QED BY <1>3, <1>4, <1>5, <1>6, <1>7, <1>8, <1>9, <1>10, <1>11, <1>12, <1>13 DEF Next, Engine

(* Once all is wired, each relationship is as declared and has a name of   *)
(* its own.                                                                *)
LEMMA EachWired ==
  ASSUME Lists, Complete, NEW d \in app.models, NEW i \in DOMAIN RelationshipsOf(d)
  PROVE  /\ WiredAs(d, i) \in relationships
         /\ \A j \in DOMAIN RelationshipsOf(d) : NthOf(d, j).name = NthOf(d, i).name => j = i
         /\ ~ Crosses(<<d, NthOf(d, i)>>) =>
              \A key \in KeyOwners(d, NthOf(d, i)) : key[1] \in app.models => key[2] \in models[key[1]].columns
<1>1. /\ Len(RelationshipsOf(d)) \in Nat
      /\ DOMAIN RelationshipsOf(d) = 1..Len(RelationshipsOf(d))
  BY LifecycleAssumption DEF Lists, RelationshipsOf
<1>2. \A j \in DOMAIN RelationshipsOf(d) : j < Len(RelationshipsOf(d)) + 1 /\ j \in Nat BY <1>1
<1>3. \A j, k \in DOMAIN RelationshipsOf(d) : j < k \/ k < j \/ j = k BY <1>2
<1> QED BY <1>2, <1>3 DEF Complete, WiredBefore

LEMMA AsDeclared == Lists /\ Sound /\ Complete => relationships = Declared
<1> SUFFICES ASSUME Lists, Sound, Complete, NEW w \in Declared PROVE w \in relationships BY DEF Sound
<1>1. PICK d \in app.models : \E i \in DOMAIN RelationshipsOf(d) : w = WiredAs(d, i)
  BY DEF Declared, AllRelationships, WiredAs, NthOf
<1> QED BY <1>1, EachWired

(* A model that was declared has its columns then, and what crosses to a   *)
(* join model needs what that has.                                         *)
LEMMA ModelComplete ==
  ASSUME Lists, Sound, Complete, NEW n \in DOMAIN models, n \in app.models
  PROVE  FinalColumns(n) = models[n].columns
<1>1. ModelOK(n) BY DEF Sound
<1>2. ASSUME NEW y \in AllRelationships, ~ Crosses(y), NEW k \in KeyOwners(y[1], y[2]), k[1] = n
      PROVE  k[2] \in models[n].columns
  <2>1. PICK d \in app.models : \E i \in DOMAIN RelationshipsOf(d) : y = <<d, NthOf(d, i)>>
    BY DEF AllRelationships, NthOf
  <2>2. PICK i \in DOMAIN RelationshipsOf(d) : y = <<d, NthOf(d, i)>> BY <2>1
  <2>3. y[1] = d /\ y[2] = NthOf(d, i) BY <2>2
  <2> QED BY <1>2, <2>2, <2>3, EachWired
<1> QED BY <1>1, <1>2 DEF FinalColumns, ModelOK

LEMMA ManyIs ==
  ASSUME NEW w \in Declared, w.through # None
  PROVE  /\ ~ w.internal /\ w.type = "belongsToMany"
         /\ KeyChecks(w) = {<<w.def, w.sourceKey>>, <<w.model, w.targetKey>>,
                            <<w.through, w.foreignKey>>, <<w.through, w.otherKey>>}
<1>1. PICK y \in AllRelationships : w = Wired(y[1], y[2], ~ Crosses(y)) BY DEF Declared
<1>2. /\ w.internal = ~ Crosses(y) /\ w.type = y[2].type
      /\ w.through = IF Crosses(y) /\ y[2].type = "belongsToMany" THEN ThroughName(y[1], y[2]) ELSE None
  BY <1>1 DEF Wired, Crosses
<1> QED BY <1>2 DEF KeyChecks

LEMMA JoinComplete ==
  ASSUME Lists, Sound, Complete, KeysValid, NEW n \in DOMAIN models, n \notin app.models
  PROVE  models[n].columns \in Ends(n) /\ UNION Ends(n) = models[n].columns
<1>1. PICK w \in Left : w.through = n /\ models[n].columns = {w.foreignKey, w.otherKey, PK}
  BY DEF Sound, ModelOK, MadeOf
<1>2. models[n].columns \in Ends(n) BY <1>1 DEF Ends
<1>3. ASSUME NEW x \in Left, x.through = n PROVE {x.foreignKey, x.otherKey, PK} \subseteq models[n].columns
  <2>1. x \in relationships /\ x.through # None /\ x \in Declared BY AsDeclared DEF Left
  <2>2. <<n, x.foreignKey>> \in AllChecks /\ <<n, x.otherKey>> \in AllChecks
    BY <1>3, <2>1, ManyIs DEF AllChecks
  <2> QED BY <1>1, <2>2 DEF KeysValid
<1>4. UNION Ends(n) \subseteq models[n].columns BY <1>3 DEF Ends
<1>5. models[n].columns \subseteq UNION Ends(n) BY <1>2
<1> QED BY <1>2, <1>4, <1>5

(* Of the declared models all is there that was declared, of the made-up   *)
(* ones what their ends ask for.                                           *)
LEMMA DeclaredIsStarted == DInv /\ Hooks => StartsAsDeclared
<1> SUFFICES ASSUME DInv, Hooks, phase = "returned"
             PROVE  /\ DOMAIN models = app.models \cup {w.through : w \in Left}
                    /\ relationships = Declared
                    /\ \A p \in Paired : p[1].through = p[2].through
                    /\ \A n \in DOMAIN models :
                          /\ models[n].adapter = IF n \in app.models THEN HomeOf(n) ELSE DefaultAdapter
                          /\ FinalColumns(n) = FieldsOf(models, n)
                    /\ \A a \in Registered : hooked[a] = 1
  BY DEF StartsAsDeclared
<1>1. Lists /\ Sound /\ Complete /\ DOMAIN joins = {} /\ KeysValid BY DEF DInv, ByPhase
<1>2. relationships = Declared BY <1>1, AsDeclared
<1>3. DOMAIN models = app.models \cup {w.through : w \in Left}
  <2>1. ASSUME NEW n \in DOMAIN models, n \notin app.models PROVE \E w \in Left : n = w.through
    BY <1>1, <2>1 DEF Sound, ModelOK, MadeOf
  <2>2. ASSUME NEW w \in Left PROVE w.through \in DOMAIN models BY <1>1, <1>2 DEF Sound, Left
  <2> QED BY <1>1, <2>1, <2>2 DEF Complete
<1>4. ASSUME NEW p \in Paired PROVE p[1].through = p[2].through
  <2>1. ASSUME NEW w \in relationships, w.through # None, Unnamed(w) PROVE w.through = {w.def, w.model}
    <3>1. PICK d \in app.models : \E i \in DOMAIN RelationshipsOf(d) : w = WiredAs(d, i)
      BY <1>2 DEF Declared, AllRelationships, WiredAs, NthOf
    <3>2. PICK i \in DOMAIN RelationshipsOf(d) : w = WiredAs(d, i) BY <3>1
    <3>3. w.def = d /\ w.name = NthOf(d, i).name /\ w.model = NthOf(d, i).model BY <3>2 DEF WiredAs, Wired
    <3>4. NthOf(d, i).through = None BY <1>1, <2>1, <3>3, EachWired DEF Unnamed, NthOf
    <3>5. w.through = ThroughName(d, NthOf(d, i)) BY <2>1, <3>2 DEF WiredAs, Wired
    <3> QED BY <3>3, <3>4, <3>5 DEF ThroughName
  <2>2. /\ p[1] \in relationships /\ p[2] \in relationships
        /\ p[1].def = p[2].model /\ p[2].def = p[1].model
        /\ p[1].through # None /\ Unnamed(p[1]) /\ p[2].through # None /\ Unnamed(p[2])
    BY DEF Paired
  <2> QED BY <2>1, <2>2
<1>5. ASSUME NEW n \in DOMAIN models
      PROVE  /\ models[n].adapter = IF n \in app.models THEN HomeOf(n) ELSE DefaultAdapter
             /\ FinalColumns(n) = FieldsOf(models, n)
  <2>1. ModelOK(n) BY <1>1 DEF Sound
  <2>2. FieldsOf(models, n) = models[n].columns BY <2>1 DEF FieldsOf, ModelOK
  <2>3. FinalColumns(n) = models[n].columns BY <1>1, ModelComplete, JoinComplete DEF FinalColumns
  <2> QED BY <2>1, <2>2, <2>3 DEF ModelOK
<1>6. \A a \in Registered : hooked[a] = 1 BY DEF Hooks
<1> QED BY <1>2, <1>3, <1>4, <1>5, <1>6

-----------------------------------------------------------------------------
(* What is declared wrong is refused, and nothing else is. *)

(* The two keys of a join model that was made up are two columns of it.    *)
(* Where both ends name one column, or its primary key, what the first end *)
(* makes need not be enough for the other.                                 *)
TwoKeys == \A w \in Left : w.model \in app.models => w.foreignKey # w.otherKey /\ PK \notin {w.foreignKey, w.otherKey}

ValidBefore(d, k) ==
  \A i \in DOMAIN RelationshipsOf(d) : i < k =>
    LET r == NthOf(d, i)
    IN /\ r.name # None /\ r.type \in RelationshipTypes /\ r.model \in app.models
       /\ Crosses(<<d, r>>) => r.foreignKey # None
       /\ HomeOf(d) \in app.caching /\ r.type = "belongsToMany" /\ ~ Crosses(<<d, r>>) => r.through # None
AllValid == \A d \in app.models : ValidBefore(d, Len(RelationshipsOf(d)) + 1)

(* The queue holds each model once, and the first call of initialise()     *)
(* finds nothing wired but what it wired itself.                           *)
Queue ==
  /\ \A i, j \in DOMAIN pending : pending[i] = pending[j] => i = j
  /\ \A i \in DOMAIN pending : pending[i] \notin DOMAIN models
  /\ phase \notin {"idle", "defining"} => pending = <<>>
FirstCall ==
  /\ phase = "defining" => FirstTime /\ relationships = {}
  /\ phase = "wiring" => FirstTime /\ \A w \in relationships :
                            \E j \in DOMAIN RelationshipsOf(w.def) :
                               w.def \in DOMAIN todo /\ j < todo[w.def] /\ w.name = NthOf(w.def, j).name
Refusing ==
  /\ faults \in Nat /\ calls \in Nat
  /\ phase # "threw" =>
       /\ Queue
       /\ \A n \in DOMAIN models : n \in app.models => HasHome(n)
       /\ phase = "idle" <=> calls = 0
       /\ phase = "wiring" => \A d \in app.models : ValidBefore(d, todo[d])
       /\ phase \in {"joining", "starting", "returned", "refused"} => AllValid
       /\ calls = 1 => FirstCall
  /\ phase = "threw" /\ calls = 1 /\ faults = 0 => ~ WellDeclared

LEMMA WellDeclaredStays ==
  ASSUME UNCHANGED <<app, adapters>>
  PROVE  /\ WellDeclared' <=> WellDeclared
         /\ TwoKeys' <=> TwoKeys
         /\ \A d, k : ValidBefore(d, k)' <=> ValidBefore(d, k)
         /\ AllValid' <=> AllValid
         /\ \A d : HasHome(d)' <=> HasHome(d)
<1>1. \A d : HasHome(d)' <=> HasHome(d) BY DEF HasHome, Registered, HomeOf, DefaultAdapter
<1>2. TwoKeys' <=> TwoKeys BY DeclaredStays DEF TwoKeys
<1>3. \A d, k : ValidBefore(d, k)' <=> ValidBefore(d, k) BY DeclaredStays DEF ValidBefore
<1>4. AllValid' <=> AllValid BY DeclaredStays DEF AllValid, ValidBefore
<1>5. AllRelationships' = AllRelationships BY DEF AllRelationships, RelationshipsOf
<1>6. \A n : Ends(n)' = Ends(n) BY DeclaredStays DEF Ends
<1>7. WellDeclared' <=> WellDeclared BY <1>1, <1>5, <1>6, DeclaredStays DEF WellDeclared
<1> QED BY <1>1, <1>2, <1>3, <1>4, <1>7

(* What a relationship that is declared becomes, and where its keys are    *)
(* looked for.                                                             *)
LEMMA DeclaredIs ==
  ASSUME Lists, NEW w \in Declared
  PROVE  \E d \in app.models : \E i \in DOMAIN RelationshipsOf(d) :
           /\ w = WiredAs(d, i) /\ <<d, NthOf(d, i)>> \in AllRelationships
           /\ w.def = d /\ w.name = NthOf(d, i).name /\ w.model = NthOf(d, i).model /\ w.type = NthOf(d, i).type
           /\ w.internal <=> ~ Crosses(<<d, NthOf(d, i)>>)
           /\ NthOf(d, i).model \in app.models /\ ~ w.internal /\ w.type = "belongsToMany" => w.through # None
<1>1. PICK d \in app.models : \E i \in DOMAIN RelationshipsOf(d) : w = WiredAs(d, i)
  BY DEF Declared, AllRelationships, WiredAs, NthOf
<1>2. PICK i \in DOMAIN RelationshipsOf(d) : w = WiredAs(d, i) BY <1>1
<1>3. <<d, NthOf(d, i)>> \in AllRelationships BY <1>2 DEF AllRelationships, NthOf
<1> DEFINE r == NthOf(d, i)
<1>4. /\ w.def = d /\ w.name = r.name /\ w.model = r.model /\ w.type = r.type
      /\ w.internal <=> ~ Crosses(<<d, r>>)
      /\ ~ w.internal /\ w.type = "belongsToMany" => w.through = ThroughName(d, r)
  BY <1>2 DEF WiredAs, Wired, Crosses
<1>5. r.model \in app.models => ThroughName(d, r) # None BY LifecycleAssumption DEF Lists, ThroughName
<1> QED BY <1>2, <1>3, <1>4, <1>5

LEMMA ChecksAreOf ==
  ASSUME NEW w, w.type \in RelationshipTypes, NEW c \in KeyChecks(w)
  PROVE  c[1] \in {w.def, w.model} \/ (w.type = "belongsToMany" /\ c[1] = w.through)
BY DEF KeyChecks, RelationshipTypes

LEMMA ValidAt ==
  ASSUME Lists, AllValid, NEW d \in app.models, NEW i \in DOMAIN RelationshipsOf(d)
  PROVE  LET r == NthOf(d, i)
         IN /\ r.name # None /\ r.type \in RelationshipTypes /\ r.model \in app.models
            /\ Crosses(<<d, r>>) => r.foreignKey # None
            /\ HomeOf(d) \in app.caching /\ r.type = "belongsToMany" /\ ~ Crosses(<<d, r>>) => r.through # None
<1>1. /\ Len(RelationshipsOf(d)) \in Nat
      /\ DOMAIN RelationshipsOf(d) = 1..Len(RelationshipsOf(d))
  BY LifecycleAssumption DEF Lists, RelationshipsOf
<1>2. i < Len(RelationshipsOf(d)) + 1 BY <1>1
<1> QED BY <1>2 DEF AllValid, ValidBefore

(* Once no join model is left over, each key is looked for in a model.     *)
LEMMA ChecksHaveModels ==
  ASSUME Lists, Sound, Complete, DOMAIN joins = {}, NEW w \in Declared, ~ w.internal,
         w.type \in RelationshipTypes, w.model \in app.models, NEW c \in KeyChecks(w)
  PROVE  c \in AllChecks /\ c[1] \in DOMAIN models
<1>1. w \in relationships BY AsDeclared
<1>2. w.def \in app.models /\ (w.type = "belongsToMany" => w.through # None) BY DeclaredIs
<1>3. c \in AllChecks BY <1>1 DEF AllChecks
<1>4. w.type = "belongsToMany" => w.through \in DOMAIN models BY <1>1, <1>2 DEF Sound
<1> QED BY <1>2, <1>3, <1>4, ChecksAreOf DEF Complete

(* What is returned was declared well. *)
LEMMA ReturnedIsWell ==
  ASSUME Lists, Sound, Complete, DOMAIN joins = {}, KeysValid, AllValid, TwoKeys,
         \A n \in DOMAIN models : n \in app.models => HasHome(n)
  PROVE  WellDeclared
<1>1. \A d \in app.models : HasHome(d) BY DEF Complete
<1>2. ASSUME NEW x \in AllRelationships
      PROVE  /\ x[2].name # None /\ x[2].type \in RelationshipTypes /\ x[2].model \in app.models
             /\ Crosses(x) => x[2].foreignKey # None
             /\ HomeOf(x[1]) \in app.caching /\ x[2].type = "belongsToMany" /\ ~ Crosses(x) => x[2].through # None
  <2>1. PICK d \in app.models : \E i \in DOMAIN RelationshipsOf(d) : x = <<d, NthOf(d, i)>>
    BY DEF AllRelationships, NthOf
  <2>2. PICK i \in DOMAIN RelationshipsOf(d) : x = <<d, NthOf(d, i)>> BY <2>1
  <2>3. x[1] = d /\ x[2] = NthOf(d, i) BY <2>2
  <2> QED BY <2>2, <2>3, ValidAt
<1>3. \A d \in app.models : \A i, j \in DOMAIN RelationshipsOf(d) :
        RelationshipsOf(d)[i].name = RelationshipsOf(d)[j].name => i = j
  BY EachWired DEF NthOf
<1>4. \A w \in Declared : w.model \in app.models /\ w.type \in RelationshipTypes
  <2> SUFFICES ASSUME NEW w \in Declared PROVE w.model \in app.models /\ w.type \in RelationshipTypes
    OBVIOUS
  <2>1. PICK d \in app.models : \E i \in DOMAIN RelationshipsOf(d) :
          w.model = NthOf(d, i).model /\ w.type = NthOf(d, i).type
    BY DeclaredIs
  <2> QED BY <2>1, ValidAt
<1>5. ASSUME NEW w \in Left, NEW e \in Ends(w.through) PROVE e = models[w.through].columns
  <2> DEFINE n == w.through
  <2>1. w \in relationships /\ n # None /\ n \notin app.models BY AsDeclared DEF Left
  <2>2. n \in DOMAIN models BY <2>1 DEF Sound
  <2>3. models[n].columns \in Ends(n) /\ UNION Ends(n) = models[n].columns BY <2>1, <2>2, JoinComplete
  <2>4. e \subseteq models[n].columns BY <2>3
  <2>5. PICK x \in Left : e = {x.foreignKey, x.otherKey, PK} BY DEF Ends
  <2>6. PICK y \in Left : models[n].columns = {y.foreignKey, y.otherKey, PK} BY <2>3 DEF Ends
  <2>7. x.foreignKey # x.otherKey /\ PK \notin {x.foreignKey, x.otherKey} BY <1>4, <2>5 DEF TwoKeys, Left
  <2> QED BY <2>4, <2>5, <2>6, <2>7
<1>6. ASSUME NEW w \in Declared, ~ w.internal, NEW c \in KeyChecks(w) PROVE c[2] \in FinalColumns(c[1])
  <2>1. c \in AllChecks /\ c[1] \in DOMAIN models BY <1>4, <1>6, ChecksHaveModels
  <2>2. c[2] \in models[c[1]].columns BY <2>1 DEF KeysValid
  <2>3. FinalColumns(c[1]) = models[c[1]].columns BY <2>1, ModelComplete, JoinComplete DEF FinalColumns
  <2> QED BY <2>2, <2>3
<1> QED BY <1>1, <1>2, <1>3, <1>5, <1>6 DEF WellDeclared

(* What was declared well has all its keys. *)
LEMMA WellHasItsKeys ==
  ASSUME Lists, Sound, Complete, DOMAIN joins = {}, WellDeclared, NEW c \in AllChecks
  PROVE  c[1] \in DOMAIN models /\ c[2] \in models[c[1]].columns
<1>1. PICK w \in relationships : ~ w.internal /\ c \in KeyChecks(w) BY DEF AllChecks
<1>2. w \in Declared BY DEF Sound
<1>3. w.model \in app.models /\ w.type \in RelationshipTypes
  <2>1. PICK d \in app.models : \E i \in DOMAIN RelationshipsOf(d) :
          /\ <<d, NthOf(d, i)>> \in AllRelationships
          /\ w.model = NthOf(d, i).model /\ w.type = NthOf(d, i).type
    BY <1>2, DeclaredIs
  <2> QED BY <2>1 DEF WellDeclared
<1>4. c[1] \in DOMAIN models BY <1>1, <1>2, <1>3, ChecksHaveModels
<1>5. c[2] \in FinalColumns(c[1]) BY <1>1, <1>2 DEF WellDeclared
<1>6. FinalColumns(c[1]) \subseteq models[c[1]].columns
  <2>1. CASE c[1] \in app.models BY <1>4, <2>1, ModelComplete
  <2>2. CASE c[1] \notin app.models
    <3>1. PICK x \in Left : x.through = c[1] /\ models[c[1]].columns = {x.foreignKey, x.otherKey, PK}
      BY <1>4, <2>2 DEF Sound, ModelOK, MadeOf
    <3>2. models[c[1]].columns \in Ends(c[1]) BY <3>1 DEF Ends
    <3>3. \A e \in Ends(c[1]) : e = models[c[1]].columns BY <3>1, <3>2 DEF WellDeclared
    <3> QED BY <2>2, <3>3 DEF FinalColumns
  <2> QED BY <2>1, <2>2
<1> QED BY <1>4, <1>5, <1>6

LEMMA InitRefusing == Init => Refusing
<1> SUFFICES ASSUME Init PROVE Refusing OBVIOUS
<1>1. DOMAIN models = {} /\ DOMAIN pending = {} BY DEF Init
<1> QED BY <1>1 DEF Init, Refusing, Queue

(* Steps that touch neither the models nor the queue. *)
LEMMA RefusingStays ==
  ASSUME Refusing, UNCHANGED <<app, adapters, pending, wiring, todo, calls, faults>>,
         phase' = phase \/ (phase = "starting" /\ phase' \in {"returned", "refused"})
  PROVE  Refusing'
<1>1. ASSUME phase = "wiring" PROVE \A d \in app.models : ValidBefore(d, todo[d]) => ValidBefore(d, todo[d])'
  <2> SUFFICES ASSUME NEW d \in app.models, ValidBefore(d, todo[d]) PROVE ValidBefore(d, todo[d])' OBVIOUS
  <2>1. \E k : k = todo[d] OBVIOUS
  <2>2. PICK k : k = todo[d] BY <2>1
  <2>3. ValidBefore(d, k)' /\ todo'[d] = k BY <2>2, WellDeclaredStays
  <2> QED BY <2>3 DEF ValidBefore
<1>2. Queue => Queue' BY DEF Queue, wiring
<1>3. ASSUME FirstCall PROVE FirstCall' BY <1>3, DeclaredStays DEF FirstCall, FirstTime, wiring
<1> QED BY <1>1, <1>2, <1>3, WellDeclaredStays DEF Refusing, wiring

(* The step of an initialise() that has thrown. *)
LEMMA ThrewStays ==
  ASSUME Refusing, phase = "threw", phase' = "threw", UNCHANGED <<app, adapters, calls, faults>>
  PROVE  Refusing'
BY WellDeclaredStays DEF Refusing

(* A relationship that cannot be wired was declared wrong. *)
LEMMA UnwirableIsWrong ==
  ASSUME Lists, Sound, ByPhase, FirstCall, phase = "wiring", NEW d \in DOMAIN todo, Wire(d), phase' = "threw"
  PROVE  ~ WellDeclared
<1> DEFINE i == todo[d]
           r == NthOf(d, i)
<1> SUFFICES ASSUME WellDeclared PROVE FALSE OBVIOUS
<1>1. /\ i \in Nat \ {0} /\ i \in DOMAIN RelationshipsOf(d) /\ d \in app.models /\ FirstTime
      /\ DOMAIN RelationshipsOf(d) \subseteq Nat /\ r = RelationshipsOf(d)[todo[d]]
  BY WireAt DEF NthOf, FirstCall
<1>2. Invalid(r) \/ Duplicate(d, r) \/ (IF SameAdapter(d, r) THEN Unbuildable(d, r) ELSE r.foreignKey = None)
  BY <1>1 DEF Wire
<1>3. <<d, r>> \in AllRelationships BY <1>1 DEF AllRelationships, NthOf
<1>4. /\ r.name # None /\ r.type \in RelationshipTypes /\ r.model \in app.models
      /\ Crosses(<<d, r>>) => r.foreignKey # None
      /\ HomeOf(d) \in app.caching /\ r.type = "belongsToMany" /\ ~ Crosses(<<d, r>>) => r.through # None
  <2>1. <<d, r>>[1] = d /\ <<d, r>>[2] = r OBVIOUS
  <2> HIDE DEF r
  <2> QED BY <1>3, <2>1 DEF WellDeclared
<1>5. r.model \in DOMAIN models BY <1>4 DEF ByPhase
<1>6. (SameAdapter(d, r) <=> ~ Crosses(<<d, r>>)) /\ models[d].adapter = HomeOf(d) BY <1>1, <1>5, WireAt
<1>7. ~ Invalid(r) BY <1>4, <1>5 DEF Invalid
<1>8. ~ Duplicate(d, r)
  <2> SUFFICES ASSUME NEW w \in relationships, w.def = d, w.name = r.name PROVE FALSE BY DEF Duplicate
  <2>1. PICK j \in DOMAIN RelationshipsOf(d) : j < i /\ NthOf(d, j).name = r.name BY DEF FirstCall
  <2>2. j = i BY <1>1, <2>1 DEF WellDeclared, NthOf
  <2> QED BY <1>1, <2>1, <2>2
<1>9. IF SameAdapter(d, r) THEN ~ Unbuildable(d, r) ELSE r.foreignKey # None
  BY <1>4, <1>6 DEF Unbuildable
<1> QED BY <1>2, <1>7, <1>8, <1>9

LEMMA WireRefusing ==
  ASSUME DInv, Refusing, NEW d \in DOMAIN todo, Wire(d)
  PROVE  Refusing'
<1>1. UNCHANGED <<app, adapters, pending, calls, faults>> /\ phase \in {"wiring", "threw"} /\ phase' \in {phase, "threw"}
  BY DEF Wire
<1>2. CASE phase = "threw" BY <1>1, <1>2, ThrewStays
<1>3. CASE phase = "wiring" /\ phase' = "threw"
  <2>1. calls = 1 => ~ WellDeclared BY <1>3, UnwirableIsWrong DEF DInv, Refusing
  <2> QED BY <1>1, <1>3, <2>1, WellDeclaredStays DEF Refusing
<1>4. CASE phase = "wiring" /\ phase' = "wiring"
  <2> DEFINE i == todo[d]
             r == NthOf(d, i)
  <2>1. /\ i \in Nat \ {0} /\ i \in DOMAIN RelationshipsOf(d) /\ d \in app.models
        /\ DOMAIN RelationshipsOf(d) \subseteq Nat /\ r = RelationshipsOf(d)[todo[d]]
    BY <1>4, WireAt DEF NthOf, DInv
  <2>2. FirstTime /\ FirstTime' BY <1>4, WireSound DEF DInv
  <2>3. /\ DOMAIN models' = DOMAIN models /\ todo' = [todo EXCEPT ![d] = @ + 1]
        /\ ~ Invalid(r) /\ (IF SameAdapter(d, r) THEN ~ Unbuildable(d, r) ELSE r.foreignKey # None)
        /\ relationships' = relationships \cup {Wired(d, r, SameAdapter(d, r))}
    BY <1>4, <2>1 DEF Wire, Keyed
  <2>4. /\ r.name # None /\ r.type \in RelationshipTypes /\ r.model \in app.models
        /\ Crosses(<<d, r>>) => r.foreignKey # None
        /\ HomeOf(d) \in app.caching /\ r.type = "belongsToMany" /\ ~ Crosses(<<d, r>>) => r.through # None
    <3>1. r.model \in DOMAIN models BY <2>3 DEF Invalid
    <3>2. r.model \in app.models /\ (SameAdapter(d, r) <=> ~ Crosses(<<d, r>>)) /\ models[d].adapter = HomeOf(d)
      BY <1>4, <2>2, <3>1, WireAt DEF DInv
    <3> QED BY <2>3, <3>2 DEF Invalid, Unbuildable
  <2>5. \A e \in app.models : ValidBefore(e, todo[e])'
    <3> SUFFICES ASSUME NEW e \in app.models PROVE ValidBefore(e, todo[e])' BY <1>1
    <3>1. e \in DOMAIN todo /\ ValidBefore(e, todo[e]) BY <1>4 DEF DInv, ByPhase, Refusing
    <3>2. CASE e # d
      <4>1. \E k : k = todo[e] OBVIOUS
      <4>2. PICK k : k = todo[e] BY <4>1
      <4>3. ValidBefore(e, k)' /\ todo'[e] = k BY <1>1, <2>3, <3>1, <3>2, <4>2, WellDeclaredStays
      <4> QED BY <4>3 DEF ValidBefore
    <3>3. CASE e = d
      <4>1. todo'[d] = i + 1 BY <2>3
      <4>2. \A j \in DOMAIN RelationshipsOf(d) : j < i + 1 => j < i \/ j = i BY <2>1
      <4>3. \E k : k = i + 1 OBVIOUS
      <4>4. PICK k : k = i + 1 BY <4>3
      <4>5. ValidBefore(d, k)
        <5> SUFFICES ASSUME NEW j \in DOMAIN RelationshipsOf(d), j < k
                     PROVE  LET q == NthOf(d, j)
                            IN /\ q.name # None /\ q.type \in RelationshipTypes /\ q.model \in app.models
                               /\ Crosses(<<d, q>>) => q.foreignKey # None
                               /\ HomeOf(d) \in app.caching /\ q.type = "belongsToMany" /\ ~ Crosses(<<d, q>>)
                                    => q.through # None
          BY DEF ValidBefore
        <5>1. CASE j = i BY <2>4, <5>1
        <5>2. CASE j < i BY <3>1, <3>3, <5>2 DEF ValidBefore
        <5> QED BY <4>2, <4>4, <5>1, <5>2
      <4>6. ValidBefore(d, k)' BY <1>1, <4>5, WellDeclaredStays
      <4> QED BY <3>3, <4>1, <4>4, <4>6 DEF ValidBefore
    <3> QED BY <3>2, <3>3
  <2>6. calls = 1 => FirstCall'
    <3> SUFFICES ASSUME calls = 1, NEW w \in relationships'
                 PROVE  \E j \in DOMAIN RelationshipsOf(w.def)' :
                          w.def \in DOMAIN todo' /\ j < todo'[w.def] /\ w.name = NthOf(w.def, j)'.name
      BY <1>4, <2>2 DEF FirstCall
    <3>1. \A e \in DOMAIN todo : e \in DOMAIN todo' /\ todo'[e] = IF e = d THEN i + 1 ELSE todo[e] BY <2>3
    <3>2. CASE w \in relationships
      <4>1. PICK j \in DOMAIN RelationshipsOf(w.def) :
              w.def \in DOMAIN todo /\ j < todo[w.def] /\ w.name = NthOf(w.def, j).name
        BY <1>4, <3>2 DEF Refusing, FirstCall
      <4>2. j < todo'[w.def]
        <5>1. CASE w.def = d
          <6>1. j \in Nat /\ todo'[w.def] = i + 1 /\ j < i BY <2>1, <3>1, <4>1, <5>1
          <6> QED BY <2>1, <6>1
        <5>2. CASE w.def # d BY <3>1, <4>1, <5>2
        <5> QED BY <5>1, <5>2
      <4> QED BY <1>1, <3>1, <4>1, <4>2, DeclaredStays
    <3>3. CASE w = Wired(d, r, SameAdapter(d, r))
      <4>1. w.def = d /\ w.name = r.name BY <3>3 DEF Wired
      <4>2. i < i + 1 BY <2>1
      <4> QED BY <1>1, <2>1, <3>1, <4>1, <4>2, DeclaredStays
    <3> QED BY <2>3, <3>2, <3>3
  <2>7. Queue' BY <1>1, <1>4, <2>3 DEF Refusing, Queue
  <2> QED BY <1>1, <1>4, <2>3, <2>5, <2>6, <2>7, WellDeclaredStays DEF Refusing
<1> QED BY <1>1, <1>2, <1>3, <1>4

LEMMA StepRefusing == DInv /\ Refusing /\ [Next]_vars => Refusing'
<1> SUFFICES ASSUME DInv, Refusing, [Next]_vars PROVE Refusing' OBVIOUS
<1>1. ASSUME NEW a \in app.adapters, RegisterAdapter(a) PROVE Refusing'
  <2>1. /\ phase = "idle" /\ UNCHANGED <<app, pending, models, phase, calls, faults>>
        /\ adapters' = Append(adapters, a)
    BY <1>1 DEF RegisterAdapter, wiring
  <2>2. ASSUME NEW n, HasHome(n) PROVE HasHome(n)'
    <3>1. adapters # <<>> /\ adapters \in Seq(app.adapters) BY <2>2 DEF HasHome, DInv, Lists
    <3>2. Head(Append(adapters, a)) = Head(adapters) /\ Append(adapters, a) # <<>> BY <3>1
    <3>3. HomeOf(n)' = HomeOf(n) BY <2>1, <3>2 DEF HomeOf, DefaultAdapter
    <3>4. \A j \in DOMAIN adapters : j \in DOMAIN Append(adapters, a) /\ Append(adapters, a)[j] = adapters[j]
      BY <3>1
    <3>5. Registered \subseteq Registered' BY <2>1, <3>4 DEF Registered
    <3> QED BY <2>1, <2>2, <3>2, <3>3, <3>5 DEF HasHome
  <2>3. Queue' BY <2>1 DEF Refusing, Queue
  <2>4. calls = 0 BY <2>1 DEF Refusing
  <2> QED BY <2>1, <2>2, <2>3, <2>4 DEF Refusing
<1>2. ASSUME NEW d \in app.models, Define(d) PROVE Refusing'
  <2>1. /\ phase = "idle" /\ UNCHANGED <<app, adapters, models, phase, calls, faults>>
        /\ d \notin Defined /\ pending' = Append(pending, d)
    BY <1>2 DEF Define, wiring
  <2>2. calls = 0 BY <2>1 DEF Refusing
  <2>3. Queue'
    <3>1. pending \in Seq(app.models) /\ Len(pending) \in Nat BY DEF DInv, Lists
    <3>2. /\ DOMAIN pending' = 1..(Len(pending) + 1) /\ DOMAIN pending = 1..Len(pending)
          /\ \A j \in DOMAIN pending : pending'[j] = pending[j]
          /\ pending'[Len(pending) + 1] = d
      BY <2>1, <3>1
    <3>3. d \notin DOMAIN models /\ \A j \in DOMAIN pending : pending[j] # d BY <2>1 DEF Defined, Range
    <3>4. \A j \in DOMAIN pending' : j \in DOMAIN pending \/ j = Len(pending) + 1 BY <3>1, <3>2
    <3> QED BY <2>1, <3>2, <3>3, <3>4 DEF Refusing, Queue
  <2>4. \A n : HasHome(n)' <=> HasHome(n) BY <2>1, WellDeclaredStays
  <2> QED BY <2>1, <2>2, <2>3, <2>4 DEF Refusing
<1>3. ASSUME NEW d \in app.models, NEW failed \in BOOLEAN, AddDefinition(d, failed) PROVE Refusing'
  <2>1. /\ phase = "idle" /\ d \notin Defined /\ Add(d, failed)
        /\ UNCHANGED <<app, adapters, pending, calls>> /\ faults' \in {faults, faults + 1}
    BY <1>3 DEF AddDefinition, Add
  <2>2. calls = 0 /\ faults' \in Nat BY <2>1 DEF Refusing
  <2>3. CASE phase' = "threw" BY <2>1, <2>2, <2>3 DEF Refusing
  <2>4. CASE phase' # "threw"
    <3>1. phase' = "idle" /\ DOMAIN models' = DOMAIN models \cup {d} BY <2>1, <2>4, AddSound DEF DInv
    <3>2. HasHome(d) BY <2>1, <2>4 DEF Add
    <3>3. Queue' BY <2>1, <3>1 DEF Refusing, Queue, Defined, Range
    <3>4. \A n : HasHome(n)' <=> HasHome(n) BY <2>1, WellDeclaredStays
    <3> QED BY <2>1, <2>2, <3>1, <3>2, <3>3, <3>4 DEF Refusing
  <2> QED BY <2>3, <2>4
<1>4. CASE Initialise
  <2>1. /\ UNCHANGED <<app, adapters, wiring, pending, faults>> /\ phase \in {"idle", "returned"}
        /\ phase' = "defining" /\ calls' = calls + 1
    BY <1>4 DEF Initialise
  <2>2. calls' \in Nat /\ calls' # 0 /\ (calls' = 1 => calls = 0) BY <2>1 DEF Refusing
  <2>3. Queue' BY <2>1 DEF Refusing, Queue, wiring
  <2>4. calls' = 1 => FirstCall'
    <3> SUFFICES ASSUME calls' = 1 PROVE FirstCall' OBVIOUS
    <3>1. phase = "idle" BY <2>1, <2>2 DEF Refusing
    <3>2. relationships = {} /\ FirstTime BY <3>1 DEF DInv, ByPhase
    <3> QED BY <2>1, <3>2 DEF FirstCall, FirstTime, wiring
  <2>5. \A n : HasHome(n)' <=> HasHome(n) BY <2>1, WellDeclaredStays
  <2> QED BY <2>1, <2>2, <2>3, <2>4, <2>5 DEF Refusing, wiring
<1>5. ASSUME NEW failed \in BOOLEAN, AddPending(failed) PROVE Refusing'
  <2> DEFINE d == Head(pending)
  <2>1. /\ phase = "defining" /\ pending # <<>> /\ Add(d, failed) /\ pending' = Tail(pending)
        /\ UNCHANGED <<app, adapters, relationships, calls>>
        /\ faults' = IF failed THEN faults + 1 ELSE faults
    BY <1>5 DEF AddPending, Add
  <2>2. /\ pending \in Seq(app.models) /\ Len(pending) \in Nat /\ Len(pending) > 0
        /\ DOMAIN pending = 1..Len(pending) /\ d = pending[1] /\ 1 \in DOMAIN pending
    BY <2>1 DEF DInv, Lists
  <2>3. d \in app.models /\ d \notin DOMAIN models BY <2>1, <2>2 DEF Refusing, Queue
  <2>4. faults' \in Nat /\ (failed => faults' # 0) BY <2>1 DEF Refusing
  <2>5. CASE phase' = "threw"
    <3>1. failed \/ ~ HasHome(d) BY <2>1, <2>3, <2>5 DEF Add
    <3>2. ~ HasHome(d) => ~ WellDeclared BY <2>3 DEF WellDeclared
    <3> QED BY <2>1, <2>4, <2>5, <3>1, <3>2, WellDeclaredStays DEF Refusing
  <2>6. CASE phase' # "threw"
    <3>1. /\ phase' = "defining" /\ DOMAIN models' = DOMAIN models \cup {d}
          /\ \A n \in DOMAIN models : models'[n] = models[n]
          /\ models'[d].read = None
      BY <2>1, <2>3, <2>6, AddSound DEF DInv
    <3>2. HasHome(d) BY <2>1, <2>6 DEF Add
    <3>3. Queue'
      <4>1. DOMAIN pending' = 1..(Len(pending) - 1) BY <2>1, <2>2
      <4>2. \A j \in DOMAIN pending' : j + 1 \in DOMAIN pending /\ pending'[j] = pending[j + 1] /\ j + 1 # 1
        BY <2>1, <2>2, <4>1
      <4>3. \A j \in DOMAIN pending' : j \in Nat BY <4>1
      <4>4. \A j \in DOMAIN pending' : pending'[j] # d BY <2>1, <2>2, <4>2 DEF Refusing, Queue
      <4>5. ASSUME NEW j \in DOMAIN pending', NEW k \in DOMAIN pending', pending'[j] = pending'[k] PROVE j = k
        <5>1. j + 1 = k + 1 BY <2>1, <4>2, <4>5 DEF Refusing, Queue
        <5> QED BY <4>3, <5>1
      <4>6. \A j \in DOMAIN pending' : pending'[j] \notin DOMAIN models' BY <2>1, <3>1, <4>2, <4>4 DEF Refusing, Queue
      <4> QED BY <3>1, <4>5, <4>6 DEF Queue
    <3>4. calls = 1 => FirstCall' BY <2>1, <2>3, <3>1 DEF Refusing, FirstCall, FirstTime
    <3>5. \A n : HasHome(n)' <=> HasHome(n) BY <2>1, WellDeclaredStays
    <3> QED BY <2>1, <2>4, <3>1, <3>2, <3>3, <3>4, <3>5 DEF Refusing
  <2> QED BY <2>5, <2>6
<1>6. CASE Queued
  <2>1. /\ phase = "defining" /\ phase' = "wiring" /\ UNCHANGED <<app, adapters, wiring, pending, calls, faults>>
        /\ pending = <<>> /\ todo' = [n \in DOMAIN models |-> 1]
    BY <1>6 DEF Queued
  <2>2. Queue' BY <2>1 DEF Refusing, Queue, wiring
  <2>3. \A d \in app'.models : ValidBefore(d, todo[d])'
    <3> SUFFICES ASSUME NEW d \in app.models PROVE ValidBefore(d, todo[d])' BY <2>1
    <3>1. d \in DOMAIN models BY <2>1 DEF DInv, ByPhase, Defined, Range
    <3>2. todo'[d] = 1 BY <2>1, <3>1
    <3>3. ASSUME NEW j \in DOMAIN RelationshipsOf(d) PROVE ~ (j < 1)
      BY LifecycleAssumption DEF DInv, Lists, RelationshipsOf
    <3>4. RelationshipsOf(d)' = RelationshipsOf(d) BY <2>1, DeclaredStays
    <3> QED BY <3>2, <3>3, <3>4 DEF ValidBefore
  <2>4. calls = 1 => FirstCall' BY <2>1 DEF Refusing, FirstCall, FirstTime, wiring
  <2>5. \A n : HasHome(n)' <=> HasHome(n) BY <2>1, WellDeclaredStays
  <2> QED BY <2>1, <2>2, <2>3, <2>4, <2>5 DEF Refusing, wiring
<1>7. CASE Relink
  <2>1. phase = "wiring" /\ phase' = "joining" /\ AllWired /\ UNCHANGED <<app, adapters, wiring, pending, todo, calls, faults>>
    BY <1>7 DEF Relink
  <2>2. ASSUME NEW d \in app.models PROVE ValidBefore(d, Len(RelationshipsOf(d)) + 1)
    <3>1. ValidBefore(d, todo[d]) /\ todo[d] \in Nat /\ todo[d] > Len(RelationshipsOf(d))
      BY <2>1 DEF DInv, ByPhase, AllWired, Refusing
    <3>2. /\ Len(RelationshipsOf(d)) \in Nat
          /\ DOMAIN RelationshipsOf(d) = 1..Len(RelationshipsOf(d))
      BY LifecycleAssumption DEF DInv, Lists, RelationshipsOf
    <3>3. \A j \in DOMAIN RelationshipsOf(d) : j < todo[d] BY <3>1, <3>2
    <3> QED BY <3>1, <3>3 DEF ValidBefore
  <2>3. AllValid' BY <2>1, <2>2, WellDeclaredStays DEF AllValid
  <2>4. Queue' BY <2>1 DEF Refusing, Queue, wiring
  <2>5. \A n : HasHome(n)' <=> HasHome(n) BY <2>1, WellDeclaredStays
  <2> QED BY <2>1, <2>3, <2>4, <2>5 DEF Refusing, FirstCall, wiring
<1>8. ASSUME NEW n \in DOMAIN joins, GenerateJoin(n) PROVE Refusing'
  <2>1. phase = "joining" /\ UNCHANGED <<app, adapters, pending, phase, calls, faults>> BY <1>8 DEF GenerateJoin
  <2>2. pending = <<>> /\ app.models \subseteq DOMAIN models BY <2>1 DEF Refusing, Queue, DInv, ByPhase, Complete
  <2>3. Queue' BY <2>1, <2>2 DEF Queue
  <2>4. \A m : HasHome(m)' <=> HasHome(m) BY <2>1, WellDeclaredStays
  <2> QED BY <2>1, <2>2, <2>3, <2>4, WellDeclaredStays DEF Refusing, FirstCall
<1>9. CASE ValidateKeys
  <2>1. phase = "joining" /\ joins = <<>> /\ UNCHANGED <<app, adapters, pending, calls, faults>>
        /\ phase' \in {"starting", "threw"}
    BY <1>9 DEF ValidateKeys
  <2>2. DOMAIN models' = DOMAIN models BY <1>9, <2>1, ReadSound DEF ValidateKeys, DInv
  <2>3. CASE phase' = "threw"
    <3> DEFINE known == Read(models, {c[1] : c \in AllChecks})
    <3>1. PICK c \in AllChecks : c[2] \notin FieldsOf(known, c[1]) BY <1>9, <2>3 DEF ValidateKeys
    <3>2. c[1] \in DOMAIN models => known[c[1]].columns = models[c[1]].columns /\ FieldsOf(known, c[1]) = models[c[1]].columns
      BY <2>1, ReadSound DEF FieldsOf, DInv
    <3> HIDE DEF known
    <3>3. ~ WellDeclared
      <4> SUFFICES ASSUME WellDeclared PROVE FALSE OBVIOUS
      <4>1. Lists /\ Sound /\ Complete /\ DOMAIN joins = {} BY <2>1 DEF DInv, ByPhase
      <4>2. c[1] \in DOMAIN models /\ c[2] \in models[c[1]].columns BY <4>1, WellHasItsKeys
      <4> QED BY <3>1, <3>2, <4>2
    <3> QED BY <2>1, <2>3, <3>3, WellDeclaredStays DEF Refusing
  <2>4. CASE phase' = "starting"
    <3>1. Queue' BY <2>1, <2>2 DEF Refusing, Queue
    <3> QED BY <2>1, <2>2, <2>4, <3>1, WellDeclaredStays DEF Refusing, FirstCall
  <2> QED BY <2>1, <2>3, <2>4
<1>10. ASSUME NEW a \in starting, NEW failed \in BOOLEAN, AdapterStarts(a, failed) PROVE Refusing'
  <2>1. /\ phase = "starting" /\ UNCHANGED <<app, adapters, wiring, pending, todo, calls>>
        /\ faults' = (IF failed THEN faults + 1 ELSE faults) /\ phase' = (IF failed THEN "threw" ELSE phase)
    BY <1>10 DEF AdapterStarts
  <2>2. CASE failed
    <3>1. faults' \in Nat /\ faults' # 0 BY <2>1, <2>2 DEF Refusing
    <3> QED BY <2>1, <2>2, <3>1 DEF Refusing
  <2>3. CASE ~ failed BY <2>1, <2>3, RefusingStays
  <2> QED BY <2>2, <2>3
<1>11. CASE \/ Finish
            \/ \E p \in {"none", "open", "scoped"} : SetPermission(p)
            \/ \E n \in DOMAIN models : \E m \in MethodsOf(n) : CallClassMethod(n, m)
            \/ UNCHANGED vars
  BY <1>11, RefusingStays DEF Finish, SetPermission, CallClassMethod, vars
<1>12. ASSUME NEW d \in DOMAIN todo, Wire(d) PROVE Refusing' BY <1>12, WireRefusing
<1> QED BY <1>1, <1>2, <1>3, <1>4, <1>5, <1>6, <1>7, <1>8, <1>9, <1>10, <1>11, <1>12 DEF Next, Engine

(* An orm that has started is the one declared, every model on its adapter *)
(* with every relationship and key, one join model for both ends of a pair,*)
(* fields that were not read too early, and instance hooks that fire once: *)
(* for any declarations, any order in which models are added and           *)
(* relationships wired, any failures of the adapters and any number of     *)
(* calls.                                                                  *)
THEOREM StartedAsDeclared == Spec => []StartsAsDeclared
<1>1. Init => DInv /\ Hooks BY InitDeclared DEF Init, Hooks, Registered
<1> QED BY <1>1, StepDeclared, HooksStep, DeclaredIsStarted, PTL DEF Spec

LEMMA RefusedAsDeclared == DInv /\ Refusing => (TwoKeys => RefusedForAReason)
<1> SUFFICES ASSUME DInv, Refusing, TwoKeys, calls = 1, faults = 0
             PROVE  (phase = "returned" => WellDeclared) /\ (phase = "threw" => ~ WellDeclared)
  BY DEF RefusedForAReason
<1>1. phase = "threw" => ~ WellDeclared BY DEF Refusing
<1>2. ASSUME phase = "returned" PROVE WellDeclared
  <2>1. Lists /\ Sound /\ Complete /\ DOMAIN joins = {} /\ KeysValid BY <1>2 DEF DInv, ByPhase
  <2>2. AllValid /\ \A n \in DOMAIN models : n \in app.models => HasHome(n) BY <1>2 DEF Refusing
  <2> QED BY <2>1, <2>2, ReturnedIsWell
<1> QED BY <1>1, <1>2

(* The first initialise() throws, unless an adapter fails, only at what    *)
(* was declared wrong, in whatever order it comes to it.                   *)
THEOREM ThrowsAtTheWrongOnly == Spec => [](phase = "threw" /\ calls = 1 /\ faults = 0 => ~ WellDeclared)
<1>1. DInv /\ Refusing => (phase = "threw" /\ calls = 1 /\ faults = 0 => ~ WellDeclared) BY DEF Refusing
<1> QED BY <1>1, InitDeclared, StepDeclared, InitRefusing, StepRefusing, PTL DEF Spec

(* And where made-up join models have their two keys, what it returns was  *)
(* declared well and is what was declared.                                 *)
THEOREM ReturnsTheDeclared == Spec => [](TwoKeys => AsDeclaredOrRefused)
<1>1. Init => DInv /\ Hooks /\ Refusing BY InitDeclared, InitRefusing DEF Init, Hooks, Registered
<1>2. DInv /\ Hooks /\ Refusing => (TwoKeys => AsDeclaredOrRefused)
  BY DeclaredIsStarted, RefusedAsDeclared DEF AsDeclaredOrRefused
<1> QED BY <1>1, <1>2, StepDeclared, HooksStep, StepRefusing, PTL DEF Spec
=============================================================================
