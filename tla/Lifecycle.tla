------------------------------ MODULE Lifecycle ------------------------------
(***************************************************************************)
(* Building an orm: adapters are registered, definitions added or queued,  *)
(* and initialise() creates the queued models, wires every definition's    *)
(* relationships at once, makes the join models they left over, checks the *)
(* keys that cross adapters, starts the adapters and asks the methods the  *)
(* engine cannot reach whether they know of the row-level scope.  A set-   *)
(* Permission() may come at any time, and class methods are called once    *)
(* there is something to call.  Bounds: MaxCalls of initialise(), MaxFaults*)
(* refusals of an adapter, MaxChanges of the permission.                   *)
(***************************************************************************)
EXTENDS Naturals, Sequences, Functions

CONSTANTS Apps,         \* what a host declares: models, their columns, relationships and methods
          KeyTo,        \* the default column of a join model that points at a model
          None,         \* an option that is not given
          MaxCalls, MaxFaults, MaxChanges

\* Relationships are lists, of models that are declared, and a pair of names is a name.
ASSUME LifecycleAssumption ==
  \A a \in Apps :
    /\ DOMAIN a.relationships \subseteq a.models
    /\ \A d \in DOMAIN a.relationships : a.relationships[d] \in Seq(Range(a.relationships[d]))
    /\ \A d, e \in a.models : {d, e} # None

VARIABLES app,            \* fixed
          adapters,       \* registered, in order
          pending,        \* models queued by define()
          models,         \* defs, defsAdapters and the adapters' models, by name
          relationships,  \* those wired
          joins,          \* join models nobody has registered
          phase,          \* of initialise()
          todo,           \* by model, the relationship it wires next
          starting,       \* adapters that have yet to start
          hooked,         \* how often an adapter was given the instance hooks
          permission,     \* none, one without a scope, or one with
          initialised, calls, faults, changes,
          refused,        \* the last audit found a surface it does not accept
          warned,         \* surfaces it only warned of
          answer          \* of the last class method called under a scope

wiring == <<models, relationships, joins>>
host == <<permission, changes, refused, warned, answer>>
vars == <<app, adapters, pending, wiring, phase, todo, starting, hooked, initialised, calls, faults, host>>

PK == "id"
RelationshipTypes == {"belongsTo", "hasOne", "hasMany", "belongsToMany"}

-----------------------------------------------------------------------------
(* Definitions. *)

DefaultAdapter == Head(adapters)
Registered == {adapters[i] : i \in DOMAIN adapters}
\* adapterName, def.datasource, or the default.
HomeOf(d) == IF app.home[d] # None THEN app.home[d] ELSE DefaultAdapter
HasHome(d) == adapters # <<>> /\ HomeOf(d) \in Registered
Model(adapter, columns) == [adapter |-> adapter, columns |-> columns \cup {PK}, read |-> None]
With(ms, name, model) == [n \in DOMAIN ms \cup {name} |-> IF n = name THEN model ELSE ms[n]]
RelationshipsOf(name) == IF name \in DOMAIN app.relationships THEN app.relationships[name] ELSE <<>>

Init == /\ app \in Apps
        /\ adapters = <<>> /\ pending = <<>> /\ models = <<>> /\ relationships = {} /\ joins = <<>>
        /\ phase = "idle" /\ todo = <<>> /\ starting = {} /\ hooked = [a \in app.adapters |-> 0]
        /\ permission = "none" /\ initialised = FALSE /\ calls = 0 /\ faults = 0 /\ changes = 0
        /\ refused = FALSE /\ warned = {} /\ answer = None

Defined == Range(pending) \cup DOMAIN models
RegisterAdapter(a) ==
  /\ phase = "idle" /\ a \notin Registered
  /\ adapters' = Append(adapters, a)
  /\ UNCHANGED <<app, pending, wiring, phase, todo, starting, hooked, initialised, calls, faults, host>>
Define(d) ==
  /\ phase = "idle" /\ d \notin Defined
  /\ pending' = Append(pending, d)
  /\ UNCHANGED <<app, adapters, wiring, phase, todo, starting, hooked, initialised, calls, faults, host>>
\* A definition of no known adapter, or that its adapter refuses: the host stops there.
Add(d, failed) ==
  /\ failed => faults < MaxFaults
  /\ faults' = IF failed THEN faults + 1 ELSE faults
  /\ IF failed \/ ~ HasHome(d) \/ d \in DOMAIN models
     THEN phase' = "threw" /\ UNCHANGED models
     ELSE models' = With(models, d, Model(HomeOf(d), app.columns[d])) /\ UNCHANGED phase
  /\ UNCHANGED <<app, adapters, relationships, joins, todo, starting, hooked, initialised, calls, host>>
AddDefinition(d, failed) == phase = "idle" /\ d \notin Defined /\ Add(d, failed) /\ UNCHANGED pending

-----------------------------------------------------------------------------
(* initialise(): the queue first, one after the other. *)

Initialise ==
  /\ phase \in {"idle", "returned"} /\ calls < MaxCalls /\ app.models \subseteq Defined
  /\ phase' = "defining" /\ calls' = calls + 1
  /\ UNCHANGED <<app, adapters, pending, wiring, todo, starting, hooked, initialised, faults, host>>
AddPending(failed) ==
  /\ phase = "defining" /\ pending # <<>>
  /\ Add(Head(pending), failed)
  /\ pending' = Tail(pending)
Queued ==
  /\ phase = "defining" /\ pending = <<>>
  /\ phase' = "wiring" /\ todo' = [n \in DOMAIN models |-> 1]
  /\ UNCHANGED <<app, adapters, pending, wiring, starting, hooked, initialised, calls, faults, host>>

-----------------------------------------------------------------------------
(* Relationships: every model goes through its own in order, all models at *)
(* once.                                                                   *)

Invalid(r) == r.name = None \/ r.type \notin RelationshipTypes \/ r.model \notin DOMAIN models
SameAdapter(d, r) == models[d].adapter = models[r.model].adapter
Duplicate(d, r) == \E w \in relationships : w.def = d /\ w.name = r.name
\* Only the name of a join model is certain: an unnamed one is of the pair, whichever end comes first.
ThroughName(d, r) == IF r.through # None THEN r.through ELSE {d, r.model}
\* The key of the other end, if that names the same join model and has the key at the top.
Reciprocal(d, r) ==
  {i \in DOMAIN RelationshipsOf(r.model) :
     LET other == RelationshipsOf(r.model)[i]
     IN other.type = "belongsToMany" /\ other.through # None /\ other.through = ThroughName(d, r)}
FirstOf(S) == CHOOSE i \in S : \A j \in S : i <= j
OtherKey(d, r) ==
  LET ends == Reciprocal(d, r)
      found == IF ends = {} THEN None ELSE RelationshipsOf(r.model)[FirstOf(ends)]
  IN IF r.otherKey # None THEN r.otherKey
     ELSE IF found # None /\ ~ found.underThrough /\ found.foreignKey # None THEN found.foreignKey
     ELSE KeyTo[r.model]
KeyOr(key) == IF key # None THEN key ELSE PK

\* What getAssociations has of a relationship.
Wired(d, r, internal) ==
  LET many == ~ internal /\ r.type = "belongsToMany"
  IN [def |-> d, name |-> r.name, type |-> r.type, model |-> r.model, internal |-> internal,
      foreignKey |-> r.foreignKey,
      sourceKey |-> IF internal THEN None ELSE KeyOr(r.sourceKey),
      targetKey |-> IF internal THEN None ELSE KeyOr(r.targetKey),
      through |-> IF many THEN ThroughName(d, r) ELSE None,
      otherKey |-> IF many THEN OtherKey(d, r) ELSE None]
JoinOf(d, r) == [source |-> d, target |-> r.model, foreignKey |-> r.foreignKey, otherKey |-> OtherKey(d, r),
                 sourceKey |-> KeyOr(r.sourceKey), targetKey |-> KeyOr(r.targetKey)]

\* createRelationship: the adapter adds the keys it owns.
KeyOwners(d, r) ==
  CASE r.type = "belongsTo" -> {<<d, r.foreignKey>>}
    [] r.type \in {"hasOne", "hasMany"} -> {<<r.model, r.foreignKey>>}
    [] r.type = "belongsToMany" -> {<<r.through, r.foreignKey>>, <<r.through, OtherKey(d, r)>>}
Keyed(ms, keys) == [n \in DOMAIN ms |-> [ms[n] EXCEPT !.columns = @ \cup {k[2] : k \in {x \in keys : x[1] = n}}]]
\* Sequelize has no belongsToMany without a join model.
Unbuildable(d, r) == models[d].adapter \in app.caching /\ r.type = "belongsToMany" /\ r.through = None

Wire(d) ==
  /\ phase \in {"wiring", "threw"} /\ d \in DOMAIN todo /\ todo[d] <= Len(RelationshipsOf(d))
  /\ LET r == RelationshipsOf(d)[todo[d]]
         same == SameAdapter(d, r)
         bad == Invalid(r) \/ Duplicate(d, r) \/ (IF same THEN Unbuildable(d, r) ELSE r.foreignKey = None)
     IN IF bad
        THEN /\ phase' = "threw" /\ todo' = Restrict(todo, DOMAIN todo \ {d})
             /\ relationships' = IF Invalid(r) \/ Duplicate(d, r) THEN relationships
                                 ELSE relationships \cup {Wired(d, r, same)}
             /\ UNCHANGED <<models, joins>>
        ELSE /\ todo' = [todo EXCEPT ![d] = @ + 1] /\ UNCHANGED phase
             /\ relationships' = relationships \cup {Wired(d, r, same)}
             /\ models' = IF same THEN Keyed(models, KeyOwners(d, r)) ELSE models
             /\ joins' = IF same \/ r.type # "belongsToMany" \/ ThroughName(d, r) \in DOMAIN models \cup DOMAIN joins
                         THEN joins ELSE With(joins, ThroughName(d, r), JoinOf(d, r))
  /\ UNCHANGED <<app, adapters, pending, starting, hooked, initialised, calls, faults, host>>

AllWired == \A d \in DOMAIN todo : todo[d] > Len(RelationshipsOf(d))

-----------------------------------------------------------------------------
(* Join models and keys.  An adapter that keeps what it found of a model's *)
(* fields answers with that from then on.                                  *)

FieldsOf(ms, n) == IF ms[n].read # None THEN ms[n].read ELSE ms[n].columns
Read(ms, names) ==
  [n \in DOMAIN ms |-> IF n \in names /\ ms[n].adapter \in app.caching /\ ms[n].read = None
                       THEN [ms[n] EXCEPT !.read = ms[n].columns] ELSE ms[n]]

Relink == /\ phase = "wiring" /\ AllWired
          /\ phase' = "joining"
          /\ UNCHANGED <<app, adapters, pending, wiring, todo, starting, hooked, initialised, calls, faults, host>>
\* As if the join model stayed in the queue.
StillQueued(js, n) == js
Unqueued(js, n) == Restrict(js, DOMAIN js \ {n})
GenerateJoin(n) ==
  /\ phase = "joining" /\ n \in DOMAIN joins
  /\ joins' = Unqueued(joins, n)
  /\ LET known == Read(models, {joins[n].source, joins[n].target})
     IN models' = IF n \in DOMAIN models THEN models
                  ELSE With(known, n, Model(DefaultAdapter, {joins[n].foreignKey, joins[n].otherKey}))
  /\ UNCHANGED <<app, adapters, pending, relationships, phase, todo, starting, hooked, initialised, calls, faults, host>>

\* The columns a relationship that crosses adapters reads, and where they have to be.
KeyChecksOfTheSource(w) == {<<w.def, IF w.type = "belongsTo" THEN w.foreignKey ELSE w.sourceKey>>}
KeyChecks(w) ==
  CASE w.type = "belongsToMany" -> {<<w.def, w.sourceKey>>, <<w.model, w.targetKey>>,
                                    <<w.through, w.foreignKey>>, <<w.through, w.otherKey>>}
    [] w.type = "belongsTo" -> {<<w.def, w.foreignKey>>, <<w.model, w.targetKey>>}
    [] OTHER -> {<<w.def, w.sourceKey>>, <<w.model, w.foreignKey>>}
AllChecks == UNION {KeyChecks(w) : w \in {x \in relationships : ~ x.internal}}
\* validateCrossAdapterKeys, installInstanceHooks, and the adapters' own initialise.
ValidateKeys ==
  /\ phase = "joining" /\ joins = <<>>
  /\ LET known == Read(models, {c[1] : c \in AllChecks})
     IN /\ models' = known
        /\ IF \A c \in AllChecks : c[2] \in FieldsOf(known, c[1])
           THEN /\ phase' = "starting" /\ starting' = Registered
                /\ hooked' = [a \in DOMAIN hooked |-> IF a \in Registered /\ hooked[a] = 0 THEN 1 ELSE hooked[a]]
           ELSE phase' = "threw" /\ UNCHANGED <<starting, hooked>>
  /\ UNCHANGED <<app, adapters, pending, relationships, joins, todo, initialised, calls, faults, host>>
AdapterStarts(a, failed) ==
  /\ phase = "starting" /\ a \in starting
  /\ failed => faults < MaxFaults
  /\ faults' = IF failed THEN faults + 1 ELSE faults
  /\ phase' = IF failed THEN "threw" ELSE phase
  /\ starting' = starting \ {a}
  /\ UNCHANGED <<app, adapters, pending, wiring, todo, hooked, initialised, calls, host>>

-----------------------------------------------------------------------------
(* The row-level scope and the methods beyond the engine's reach. *)

MethodsOf(n) == IF n \in DOMAIN app.methods THEN app.methods[n] ELSE {}
\* [sql, marks, wired, mapped]: a descriptor or a function, what it says of itself,
\* whether its text has a place for the scope, and whether it names its model.
Disposition(m) == CASE m.marks = {"aware", "unscoped"} -> "conflict"
                    [] m.marks = {} -> "none"
                    [] OTHER -> CHOOSE x \in m.marks : TRUE
Problem(m) ==
  LET says == Disposition(m)
  IN IF says = "conflict" THEN "conflict"
     ELSE IF says = "unscoped" \/ (m.sql /\ m.wired) \/ (~ m.sql /\ says = "aware") THEN "fine"
     ELSE IF says = "aware" THEN "missing placeholder" ELSE "unannotated"
Enforced(n) == models[n].adapter \in app.enforcing
Findings == {x \in UNION {{n} \X MethodsOf(n) : n \in DOMAIN models} : Problem(x[2]) # "fine"}
Fatal == {x \in Findings : Problem(x[2]) # "unannotated" \/ ~ Enforced(x[1])}
\* auditScopeSurfaces: warns of some, and throws if there are others.
Audit(p) == /\ warned' = IF p = "scoped" THEN warned \cup (Findings \ Fatal) ELSE warned
            /\ refused' = (p = "scoped" /\ Fatal # {})

Finish ==
  /\ phase = "starting" /\ starting = {}
  /\ initialised' = TRUE
  /\ Audit(permission)
  /\ phase' = IF refused' THEN "refused" ELSE "returned"
  /\ UNCHANGED <<app, adapters, pending, wiring, todo, starting, hooked, calls, faults, permission, changes, answer>>

\* As if only initialise() asked.
NeverAudits == FALSE
AuditsAtOnce == initialised
SetPermission(p) ==
  /\ changes < MaxChanges /\ p # permission
  /\ changes' = changes + 1
  /\ permission' = p
  /\ IF AuditsAtOnce THEN Audit(p) ELSE UNCHANGED <<refused, warned>>
  /\ answer' = None
  /\ UNCHANGED <<app, adapters, pending, wiring, phase, todo, starting, hooked, initialised, calls, faults>>

\* What a class method reads: its statement goes by the model's hooks, has the scope
\* bound in, is seen for what it is by beforeQuery, or is text about nobody knows what.
RowsOf(n, m) ==
  IF m.sql THEN IF m.mapped /\ Enforced(n) THEN "refused" ELSE IF m.wired THEN "scoped" ELSE "all"
  ELSE IF Disposition(m) = "aware" \/ (m.mapped /\ Enforced(n)) THEN "scoped" ELSE "all"
CallClassMethod(n, m) ==
  /\ phase = "returned" /\ permission = "scoped" /\ n \in DOMAIN models /\ m \in MethodsOf(n)
  /\ answer' = [model |-> n, method |-> m, rows |-> RowsOf(n, m)]
  /\ UNCHANGED <<app, adapters, pending, wiring, phase, todo, starting, hooked, initialised, calls, faults,
                 permission, changes, refused, warned>>

Engine == \/ \E failed \in BOOLEAN : AddPending(failed)
          \/ Queued \/ Relink \/ ValidateKeys \/ Finish
          \/ \E d \in DOMAIN todo : Wire(d)
          \/ \E n \in DOMAIN joins : GenerateJoin(n)
          \/ \E a \in starting, failed \in BOOLEAN : AdapterStarts(a, failed)
Next == \/ \E a \in app.adapters : RegisterAdapter(a)
        \/ \E d \in app.models : Define(d) \/ \E failed \in BOOLEAN : AddDefinition(d, failed)
        \/ Initialise \/ Engine
        \/ \E p \in {"none", "open", "scoped"} : SetPermission(p)
        \/ \E n \in DOMAIN models : \E m \in MethodsOf(n) : CallClassMethod(n, m)
Spec == Init /\ [][Next]_vars /\ WF_vars(Engine)

-----------------------------------------------------------------------------
(* What was declared, whatever the order it is wired in. *)

AllRelationships == UNION {{<<d, RelationshipsOf(d)[i]>> : i \in DOMAIN RelationshipsOf(d)} : d \in app.models}
Crosses(x) == HomeOf(x[1]) # HomeOf(x[2].model)
Declared == {Wired(x[1], x[2], ~ Crosses(x)) : x \in AllRelationships}
\* The join models nobody defined, and what the ends expect of each.
Left == {w \in Declared : w.through # None /\ w.through \notin app.models}
Ends(n) == {{w.foreignKey, w.otherKey, PK} : w \in {x \in Left : x.through = n}}
FinalColumns(n) ==
  IF n \notin app.models THEN UNION Ends(n)
  ELSE app.columns[n] \cup {PK} \cup
       {k[2] : k \in {x \in UNION {KeyOwners(y[1], y[2]) : y \in {z \in AllRelationships : ~ Crosses(z)}} : x[1] = n}}

WellDeclared ==
  /\ \A d \in app.models : HasHome(d)
  /\ \A x \in AllRelationships :
        /\ x[2].name # None /\ x[2].type \in RelationshipTypes /\ x[2].model \in app.models
        /\ Crosses(x) => x[2].foreignKey # None
        /\ HomeOf(x[1]) \in app.caching /\ x[2].type = "belongsToMany" /\ ~ Crosses(x) => x[2].through # None
  /\ \A d \in app.models : \A i, j \in DOMAIN RelationshipsOf(d) :
        RelationshipsOf(d)[i].name = RelationshipsOf(d)[j].name => i = j
  /\ \A w \in Left : \A e, f \in Ends(w.through) : e = f
  /\ \A w \in {x \in Declared : ~ x.internal} : \A c \in KeyChecks(w) : c[2] \in FinalColumns(c[1])

\* The two ends of a pair whose join model has no name.
Unnamed(w) == \E i \in DOMAIN RelationshipsOf(w.def) :
                RelationshipsOf(w.def)[i].name = w.name /\ RelationshipsOf(w.def)[i].through = None
Paired == {p \in relationships \X relationships :
             /\ p[1].def = p[2].model /\ p[2].def = p[1].model
             /\ \A i \in 1..2 : p[i].through # None /\ Unnamed(p[i])}

(* An orm that has started is the one declared: every model on its adapter *)
(* with every relationship and key, one join model for both ends of a pair,*)
(* fields that were not read too early, and instance hooks that fire once, *)
(* however often initialise() was called.                                  *)
StartsAsDeclared ==
  phase = "returned" =>
    /\ DOMAIN models = app.models \cup {w.through : w \in Left}
    /\ relationships = Declared
    /\ \A p \in Paired : p[1].through = p[2].through
    /\ \A n \in DOMAIN models :
          /\ models[n].adapter = IF n \in app.models THEN HomeOf(n) ELSE DefaultAdapter
          /\ FinalColumns(n) = FieldsOf(models, n)
    /\ \A a \in Registered : hooked[a] = 1

(* initialise() refuses what is declared wrong and only that: the outcome  *)
(* of the first call does not depend on the order in which relationships   *)
(* were wired or models came.                                              *)
RefusedForAReason ==
  calls = 1 /\ faults = 0 =>
    /\ phase = "returned" => WellDeclared
    /\ phase = "threw" => ~ WellDeclared

(* What initialise() returns is what was declared, and it throws only when *)
(* that cannot be had.                                                     *)
AsDeclaredOrRefused == StartsAsDeclared /\ RefusedForAReason

(* Under a scope that was accepted, whenever it came, rows beyond it are   *)
(* read by methods only that say so or that the host was warned of.        *)
NothingReadsAroundUnheard ==
  answer # None /\ ~ refused /\ answer.rows = "all" =>
    Disposition(answer.method) # "none" \/ <<answer.model, answer.method>> \in warned

(* initialise() returns or throws.                                         *)
InitialiseSettles == (phase = "defining") ~> (phase \in {"returned", "refused", "threw"})
=============================================================================
