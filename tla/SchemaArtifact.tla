--------------------------- MODULE SchemaArtifact ---------------------------
(***************************************************************************)
(* A schema as an artifact: workers (the processes that run gqlize build,  *)
(* gqlize check and servers) build a schema live, write it to a file, or   *)
(* load it from there, over an orm whose adapter keeps the filter types of *)
(* the permission it last built for.  Processes are restarted, or die, at  *)
(* any step, and come back at any revision of the definitions.             *)
(* Bounds: MaxTasks begun, MaxRestarts of a process.                       *)
(***************************************************************************)
EXTENDS SchemaBuild

CONSTANTS Workers, OrmOf,     \* the orm a worker builds on
          Revisions, First,   \* definitions the host may be deployed with, by name, and is at first
          Permissions,        \* by the name of their profile
          TasksOf,            \* what a worker may be asked for
          Files, Registered,  \* artifact paths; scalars in the registry
          None, Torn, MaxTasks, MaxRestarts

ASSUME SchemaArtifactAssumption ==
  /\ DOMAIN OrmOf = Workers /\ First \in DOMAIN Revisions
  /\ \A w \in Workers : \A t \in TasksOf[w] :
       /\ t.kind \in {"live", "build", "load", "check"} /\ t.onMismatch \in {"throw", "rebuild", "warn"}
       /\ t.permission \in DOMAIN Permissions /\ t.extend \in BOOLEAN /\ t.file \in Files

VARIABLES revision,  \* of each orm
          adapter,   \* of each orm: the permission it builds for, and the one each model's types are of
          disk,      \* path -> artifact, with the sibling each is written by way of
          task,      \* of each worker
          at,        \* its next step
          todo,      \* models whose filter types it has yet to ask for
          under,     \* model -> permission the types it was given are of
          holds,     \* the artifact it read or is writing
          told,      \* it was warned
          answer,    \* of the task that ended in the last step
          begun, restarts

work == <<task, at, todo, under, holds, told, answer>>
vars == <<revision, adapter, disk, work, begun, restarts>>

Nothing == [k |-> "none", by |-> None]
Threw(why) == [k |-> "threw", by |-> None, why |-> why]
Answered(what) == [k |-> "schema", by |-> None, what |-> what]
NoTask == [kind |-> "none"]
App(w) == Revisions[revision[OrmOf[w]]]
Fresh(app) == [permission |-> None, made |-> [m \in DOMAIN app.def |-> None]]
\* A schema is kept as what it was built of, an artifact as the schema it is the snapshot of.
Recipe(w) == [revision |-> revision[OrmOf[w]], permission |-> task[w].permission, under |-> under[w], extend |-> task[w].extend]
Extend(app, opts) == [t \in {"query", "mutation"} |-> IF opts.extend THEN app.extend[t] ELSE <<>>]

-----------------------------------------------------------------------------
(* The fingerprint: what is hashed of a definition, and of the options. *)

FieldProjection(c) == [type |-> c.type, allowNull |-> c.allowNull, primaryKey |-> c.primaryKey,
                       foreignKey |-> c.foreignKey, foreignTarget |-> c.foreignTarget]
ProjectionWithoutRelations(d) ==
  [ignoreFields |-> d.ignoreFields, fields |-> [f \in DOMAIN d.fields |-> FieldProjection(d.fields[f])],
   override |-> d.override, inputType |-> d.overrideInput, expose |-> <<d.query, d.apply, d.class>>]
ModelProjection(d) ==
  [ignoreFields |-> d.ignoreFields, fields |-> [f \in DOMAIN d.fields |-> FieldProjection(d.fields[f])],
   associations |-> d.rels, override |-> d.override, inputType |-> d.overrideInput,
   expose |-> <<d.query, d.apply, d.class>>]
FingerprintDefinitions(app, opts) ==
  [models |-> [m \in DOMAIN app.def |-> ModelProjection(app.def[m])],
   permissionProfile |-> opts.profile, optionsShape |-> app.carriesType]
CompareFingerprints(a, b) == {k \in DOMAIN a : a[k] # b[k]}

-----------------------------------------------------------------------------
(* The snapshot of a schema. *)

\* The artifact stops at the node interface and at the host's own types, and skips extend fields.
Serialised(type) == [type EXCEPT !.fields = {f \in @ : f.bind[1] # "extend"}]
Boundary(schema) == {NodeType} \cup {x.type : x \in schema.ledger.externals}
Walked(schema) ==
  LET types == [n \in DOMAIN schema.types |->
                  IF n \in Boundary(schema) THEN Leaf("boundary") ELSE Serialised(schema.types[n])]
  IN  Reach(types, {RootQuery, Mutation} \cap DOMAIN types) \ Boundary(schema)
Unregistered(types) == \E n \in DOMAIN types : types[n].kind = "scalar" /\ n \notin Registered
SchemaOf(r) ==
  LET app == Revisions[r.revision]
  IN  Schema(Building(app, Permissions[r.permission],
                      [m \in DOMAIN app.def |-> Folded(app, Permissions[IF m \in DOMAIN r.under THEN r.under[m] ELSE r.permission])]),
             Extend(app, r))
SnapshotOf(schema, names) ==
  [types |-> [n \in names |-> Serialised(schema.types[n])],
   ledger |-> [schema.ledger EXCEPT !.models = PruneModelTypes(@, [n \in names |-> n])]]
SnapshotSchema(schema) == SnapshotOf(schema, Walked(schema))
FormatOf(a) == Revisions[a.of.revision].format
FingerprintOf(a) == FingerprintDefinitions(Revisions[a.of.revision], a)

-----------------------------------------------------------------------------
(* The schema an artifact is loaded as. *)

ArtifactOwned(artifact) == {<<m>> : m \in artifact.ledger.models} \cup {RootQuery, Mutation, NodeType}
ExtendTypes(extend) == UNION {Range(extend[t]) : t \in {"query", "mutation"}}
FirstStepOnly(artifact, app, extend) ==
  ({x.type : x \in artifact.ledger.externals} \cup ExtendTypes(extend)) \ (Specified \cup ArtifactOwned(artifact))
\* Every type the host's own reach is the host's: the whole closure, not just its first step.
LiveTypes(artifact, app, extend) ==
  LET own == LeafTypes(app) @@ HostTypes(app)
      from == {x.type : x \in artifact.ledger.externals} \cup ExtendTypes(extend)
  IN  Reach(own, from \ Specified) \ ArtifactOwned(artifact)
\* The definition that declared a host type no longer does.
Declares(app, m, t) ==
  /\ m \in DOMAIN app.def
  /\ LET d == app.def[m]
         exposed == {d.query[n].type : n \in DOMAIN d.query}
                    \cup UNION {{d.class[k][n].type : n \in DOMAIN d.class[k]} : k \in DOMAIN d.class}
     IN  t \in UNION {Range(d.operators), Range(d.override), Range(d.overrideInput), Range(d.apply)}
               \cup {x.built : x \in exposed}
ExternalGone(artifact, app) == \E x \in artifact.ledger.externals : ~ Declares(app, x.by, x.type)
MissingExtend(artifact, extend) ==
  \E t \in {"query", "mutation"} : ~ artifact.ledger.extend[t] \subseteq DOMAIN extend[t]
WithExtras(types, bag, extend) ==
  [n \in DOMAIN types |->
     IF n = RootQuery THEN [types[n] EXCEPT !.fields = @ \cup Extended(bag, extend, "query")]
     ELSE IF n = Mutation THEN [types[n] EXCEPT !.fields = @ \cup Extended(bag, extend, "mutation")]
     ELSE types[n]]
Inconsistent(artifact, types) ==
  \/ \E m \in artifact.ledger.models : <<m>> \notin DOMAIN types
  \/ \E n \in DOMAIN artifact.types : ~ Edges(artifact.types[n]) \subseteq DOMAIN types \cup Specified
\* A host type refers to its own instance of a type the artifact made a clone of.
DuplicateTypes(types, artifact, live) ==
  \E n \in live \cap DOMAIN types : Edges(types[n]) \cap (DOMAIN artifact.types \ live) # {}
Materialized(artifact, app, bag, extend) ==
  LET live == LiveTypes(artifact, app, extend)
      own == [n \in live \cup {NodeType} |-> (LeafTypes(app) @@ HostTypes(app))[n]]
      types == own @@ WithExtras(artifact.types, bag, extend)
  IN  IF ExternalGone(artifact, app) THEN Threw("external")
      ELSE IF Unregistered(artifact.types) THEN Threw("scalar")
      ELSE IF MissingExtend(artifact, extend) THEN Threw("extend")
      ELSE IF Inconsistent(artifact, types) THEN Threw("inconsistent")
      ELSE IF DuplicateTypes(types, artifact, live) THEN Threw("duplicate")
      ELSE LET found == Published(types, {RootQuery, Mutation} \cap DOMAIN artifact.types)
           IN  IF Valid(found) THEN Answered([types |-> found, ledger |-> artifact.ledger]) ELSE Threw("invalid")

-----------------------------------------------------------------------------
(* Tasks. *)

Init ==
  /\ revision = [o \in Range(OrmOf) |-> First]
  /\ adapter = [o \in Range(OrmOf) |-> Fresh(Revisions[revision[o]])]
  /\ disk = [f \in Files |-> [main |-> None, tmp |-> None]]
  /\ task = [w \in Workers |-> NoTask] /\ at = [w \in Workers |-> "idle"]
  /\ todo = [w \in Workers |-> {}] /\ under = [w \in Workers |-> <<>>]
  /\ holds = [w \in Workers |-> None] /\ told = [w \in Workers |-> FALSE]
  /\ answer = Nothing
  /\ begun = 0 /\ restarts = 0

Done(w, a) == answer' = [a EXCEPT !.by = w] /\ at' = [at EXCEPT ![w] = "idle"]
Still == answer' = Nothing
SetsPermissionOnly(a, name) == [a EXCEPT !.permission = name]
\* A schema of another permission must not be handed the types of the last one.
SetBuildPermission(a, name) ==
  [permission |-> name, made |-> IF a.permission = name THEN a.made ELSE [m \in DOMAIN a.made |-> None]]
Primed(w, name) == adapter' = [adapter EXCEPT ![OrmOf[w]] = SetBuildPermission(@, name)]
Compiling(w) ==
  /\ Primed(w, task'[w].permission)
  /\ at' = [at EXCEPT ![w] = "compiling"]
  /\ todo' = [todo EXCEPT ![w] = VisibleModels(App(w), Permissions[task'[w].permission])]
  /\ under' = [under EXCEPT ![w] = <<>>]
Begin(w, t) ==
  /\ at[w] = "idle" /\ begun < MaxTasks
  /\ begun' = begun + 1
  /\ task' = [task EXCEPT ![w] = t]
  /\ Still /\ told' = [told EXCEPT ![w] = FALSE]
  /\ IF t.kind \in {"live", "build"} THEN Compiling(w)
     ELSE at' = [at EXCEPT ![w] = "reading"] /\ UNCHANGED <<adapter, todo, under>>
  /\ holds' = [holds EXCEPT ![w] = None]
  /\ UNCHANGED <<revision, disk, restarts>>

\* The types of a model, made if the adapter has none, in the waterfall of the definitions.
Compile(w, m) ==
  LET o == OrmOf[w]  is == IF adapter[o].made[m] = None THEN adapter[o].permission ELSE adapter[o].made[m]
  IN  /\ at[w] = "compiling" /\ m = FirstOf([app |-> App(w)], todo[w])
      /\ adapter' = [adapter EXCEPT ![o].made[m] = is]
      /\ under' = [under EXCEPT ![w] = [n \in DOMAIN @ \cup {m} |-> IF n = m THEN is ELSE @[n]]]
      /\ todo' = [todo EXCEPT ![w] = @ \ {m}]
      /\ UNCHANGED <<revision, disk, task, at, holds, told, begun, restarts>> /\ Still

CreateSchema(s) ==
  IF RootQuery \notin DOMAIN s.types THEN Threw("no query") ELSE IF ~ Valid(s.types) THEN Threw("invalid") ELSE Answered(s)
Outcome(made, what) == IF made.k = "threw" THEN made ELSE Answered(what)
MaterializeSchema(w, a) == Materialized(SnapshotSchema(SchemaOf(a.of)), App(w), Permissions[task[w].permission], Extend(App(w), task[w]))
\* The schema stands: a live task has it, a build writes it down, a strict check compares it with the artifact's.
Finish(w) ==
  LET made == CreateSchema(SchemaOf(Recipe(w)))  loaded == MaterializeSchema(w, holds[w])
      snapshot == [of |-> Recipe(w), profile |-> task[w].profile]
  IN  /\ at[w] = "compiling" /\ todo[w] = {}
      /\ IF made.k = "threw" \/ task[w].kind = "live"
         THEN Done(w, Outcome(made, Recipe(w))) /\ UNCHANGED <<holds, adapter>>
         ELSE IF task[w].kind = "build"
              THEN /\ UNCHANGED adapter
                   /\ IF Unregistered(SnapshotSchema(made.what).types)
                      THEN Done(w, Threw("scalar")) /\ UNCHANGED holds
                      ELSE /\ holds' = [holds EXCEPT ![w] = snapshot]
                           /\ at' = [at EXCEPT ![w] = "writing"] /\ Still
              ELSE /\ Primed(w, task[w].permission)
                   /\ Done(w, IF loaded.k = "threw" \/ loaded.what.types = made.what.types
                              THEN Outcome(loaded, holds[w]) ELSE Threw("differs"))
                   /\ UNCHANGED holds
      /\ under' = [under EXCEPT ![w] = <<>>]
      /\ UNCHANGED <<revision, disk, task, todo, told, begun, restarts>>

\* writeAtomic: the sibling is opened empty, then filled, then renamed over the artifact.
OpensInPlace(w) ==
  /\ at[w] = "writing"
  /\ disk' = [disk EXCEPT ![task[w].file].main = Torn]
  /\ at' = [at EXCEPT ![w] = "filling"]
  /\ UNCHANGED <<revision, adapter, task, todo, under, holds, told, begun, restarts>> /\ Still
OpenTmp(w) ==
  /\ at[w] = "writing"
  /\ disk' = [disk EXCEPT ![task[w].file].tmp = Torn]
  /\ at' = [at EXCEPT ![w] = "filling"]
  /\ UNCHANGED <<revision, adapter, task, todo, under, holds, told, begun, restarts>> /\ Still
FillTmp(w) ==
  /\ at[w] = "filling"
  /\ disk' = [disk EXCEPT ![task[w].file].tmp = holds[w]]
  /\ at' = [at EXCEPT ![w] = "renaming"]
  /\ UNCHANGED <<revision, adapter, task, todo, under, holds, told, begun, restarts>> /\ Still
Rename(w) ==
  /\ at[w] = "renaming"
  /\ disk' = [disk EXCEPT ![task[w].file] = [main |-> @.tmp, tmp |-> None]]
  /\ Done(w, [k |-> "wrote", by |-> None])
  /\ UNCHANGED <<revision, adapter, task, todo, under, holds, told, begun, restarts>>

\* The file is read, and its format and fingerprint are looked at before anything is made of it.
Carried(w, artifact) ==
  IF task[w].kind = "load" /\ task[w].profile = None THEN artifact.profile ELSE task[w].profile
Stale(w, artifact) ==
  CompareFingerprints(FingerprintOf(artifact),
                      FingerprintDefinitions(App(w), [task[w] EXCEPT !.profile = Carried(w, artifact)])) # {}
Unnamed(w, artifact) == task[w].profile = None /\ artifact.profile # None
Refuses(w, why) == Done(w, Threw(why)) /\ UNCHANGED <<adapter, task, todo, under, told>>
Rebuilds(w) ==
  /\ task' = [task EXCEPT ![w].kind = "live"] /\ told' = [told EXCEPT ![w] = TRUE]
  /\ Compiling(w) /\ Still
GoesOn(w, warned) ==
  /\ at' = [at EXCEPT ![w] = "loading"] /\ told' = [told EXCEPT ![w] = warned]
  /\ UNCHANGED <<adapter, task, todo, under>> /\ Still
CheckFormat(w) ==
  IF task[w].onMismatch = "rebuild" THEN Rebuilds(w) ELSE Refuses(w, "format")
CheckFingerprint(w, a) ==
  IF ~ task[w].checkStaleness THEN GoesOn(w, TRUE)
  ELSE IF ~ Stale(w, a) THEN GoesOn(w, Unnamed(w, a))
  ELSE CASE task[w].onMismatch = "throw" -> Refuses(w, "stale")
         [] task[w].onMismatch = "rebuild" -> Rebuilds(w)
         [] task[w].onMismatch = "warn" -> GoesOn(w, TRUE)
ReadFile(w) ==
  LET a == disk[task[w].file].main
  IN  /\ at[w] = "reading"
      /\ holds' = [holds EXCEPT ![w] = a]
      /\ IF a = None THEN Refuses(w, "missing")
         ELSE IF a = Torn THEN Refuses(w, "torn")
         ELSE IF task[w].kind = "check"
              THEN IF Stale(w, a) THEN Refuses(w, "stale")
                   ELSE task' = task /\ Compiling(w) /\ UNCHANGED told /\ Still
         ELSE IF FormatOf(a) # App(w).format THEN CheckFormat(w)
         ELSE CheckFingerprint(w, a)
      /\ UNCHANGED <<revision, disk, begun, restarts>>
\* The adapter is primed, though every filter type comes from the artifact.
Load(w) ==
  /\ at[w] = "loading"
  /\ Primed(w, task[w].permission)
  /\ Done(w, Outcome(MaterializeSchema(w, holds[w]), holds[w]))
  /\ UNCHANGED <<revision, disk, task, todo, under, holds, told, begun, restarts>>

Forgets(f, ws, value) == [w \in Workers |-> IF w \in ws THEN value ELSE f[w]]
\* A process dies at any step and starts again, with these definitions or others.
Restart(o, r) ==
  LET mine == {w \in Workers : OrmOf[w] = o}
  IN  /\ restarts < MaxRestarts /\ restarts' = restarts + 1
      /\ revision' = [revision EXCEPT ![o] = r]
      /\ adapter' = [adapter EXCEPT ![o] = Fresh(Revisions[r])]
      /\ at' = Forgets(at, mine, "idle") /\ task' = Forgets(task, mine, NoTask) /\ Still
      /\ holds' = Forgets(holds, mine, None) /\ told' = Forgets(told, mine, FALSE)
      /\ todo' = Forgets(todo, mine, {}) /\ under' = Forgets(under, mine, <<>>)
      /\ UNCHANGED <<disk, begun>>

Next ==
  \/ \E w \in Workers : \/ \E t \in TasksOf[w] : Begin(w, t)
                        \/ \E m \in todo[w] : Compile(w, m)
                        \/ Finish(w) \/ OpenTmp(w) \/ FillTmp(w) \/ Rename(w) \/ ReadFile(w) \/ Load(w)
  \/ \E o \in Range(OrmOf), r \in DOMAIN Revisions : Restart(o, r)
Spec == Init /\ [][Next]_vars

-----------------------------------------------------------------------------
(* Properties. *)

\* What an orm that has built nothing would build.
FreshRecipe(r, p, extend) == [revision |-> r, permission |-> p, under |-> [m \in DOMAIN Revisions[r].def |-> p], extend |-> extend]
FreshSchema ==
  [x \in (DOMAIN Revisions) \X (DOMAIN Permissions) \X BOOLEAN |-> SchemaOf(FreshRecipe(x[1], x[2], x[3]))]
Own(w, name) == FreshSchema[<<revision[OrmOf[w]], name, task[w].extend>>]
Profile(w) == IF task[w].profile = None THEN holds[w].profile ELSE task[w].profile
Ended(kinds) == answer.k = "schema" /\ task[answer.by].kind \in kinds

\* No filter, order or output type names what the permission denies.
NothingDenied(app, bag, types) ==
  \A m \in DOMAIN app.def :
    /\ ~ IsModelAllowed(bag, m) => \A n \in DOMAIN types : n[1] = m => n[Len(n)] = "ClassMethods"
    /\ \A f \in DOMAIN app.def[m].fields :
         ~ IsFieldAllowed(bag, m, f) => \A n \in {<<m>>, Where(m), OrderBy(m)} \cap DOMAIN types :
                                          \A x \in types[n].fields : x.name # f
\* Some permission tells the artifact's definitions from these: the hash is of them all.
ReallyStale(w) ==
  \/ holds[w].profile # Profile(w)
  \/ \E p \in DOMAIN Permissions :
       SnapshotSchema(FreshSchema[<<holds[w].of.revision, p, TRUE>>]).types
       # SnapshotSchema(FreshSchema[<<revision[OrmOf[w]], p, TRUE>>]).types

\* A schema built on an orm that served other permissions is the one a fresh orm would build,
\* and shows nothing its own permission denies: the adapter's memo of filter, order and
\* include types (sequelize index.ts setBuildPermission) leaks nothing from build to build.
SchemaFollowsItsPermission ==
  Ended({"live"}) =>
    LET w == answer.by  s == SchemaOf(answer.what)
    IN  /\ s = Own(w, task[w].permission)
        /\ NothingDenied(App(w), Permissions[task[w].permission], s.types)

\* A schema that was loaded without a warning is the one its definitions and the permission
\* its profile names would build live (materialize.ts checkFingerprint).
FreshOrTold ==
  Ended({"load", "check"}) /\ ~ told[answer.by] =>
    LET w == answer.by IN MaterializeSchema(w, answer.what).what.types = Own(w, Profile(w)).types

\* A build stops only where nothing is left to query or a scalar is in no registry; a load
\* only where there is no artifact, it is of another format, its schema or its profile
\* really is another's, or the host did not hand in what it was built with.  Never for an
\* empty type, a torn file, a type twice or one that is missing.
ThrowsForAReason ==
  answer.k = "threw" =>
    LET w == answer.by
    IN  CASE answer.why = "no query" -> ~ App(w).carriesType
          [] answer.why = "scalar" -> "scalar" \in Range(App(w).leaves)
          [] answer.why = "missing" -> holds[w] = None
          [] answer.why = "format" -> FormatOf(holds[w]) # App(w).format
          [] answer.why = "extend" -> ~ task[w].extend \/ told[w]
          [] answer.why = "external" -> told[w]
          [] answer.why = "stale" -> ReallyStale(w)
          [] OTHER -> FALSE

\* A path goes from one whole artifact to the next, the one its builder holds: no reader meets
\* a part of one, and a process that dies on the way leaves the last (build-artifact.ts writeAtomic).
NeverHalfWritten ==
  [][\A f \in Files : disk'[f].main # disk[f].main =>
       \E w \in Workers : at[w] = "renaming" /\ task[w].file = f /\ disk'[f].main = holds[w]]_vars
=============================================================================
