-------------------------- MODULE MCSchemaArtifact --------------------------
EXTENDS SchemaArtifact

Column(type) == [type |-> type, allowNull |-> FALSE, primaryKey |-> FALSE, foreignKey |-> FALSE,
                 foreignTarget |-> "none", autoPopulated |-> FALSE, writable |-> FALSE]
Id == [Column(<<"Int">>) EXCEPT !.primaryKey = TRUE, !.autoPopulated = TRUE]
KeyOf(m) == [Column(<<"Int">>) EXCEPT !.foreignKey = TRUE, !.foreignTarget = m, !.allowNull = TRUE]
RelOf(kind, target, key) == [kind |-> kind, target |-> target, key |-> key]
BuiltBy(t) == [model |-> "none", built |-> t]
OfThe(m) == [model |-> m, built |-> <<"none">>]
Exposes(type) == [type |-> type]
NoMethods == [query |-> <<>>, mutations |-> <<>>]
Model(fields, rels) ==
  [fields |-> fields, rels |-> rels, ignoreFields |-> {}, override |-> <<>>, overrideInput |-> <<>>, query |-> <<>>,
   apply |-> <<>>, class |-> NoMethods, soft |-> FALSE, operators |-> <<>>]

Mood == <<"Mood">>  Status == <<"Status">>  Detail == <<"Detail">>  Health == <<"Health">>
\* A has an overridden column whose type refers to the enum of another column, B only a
\* relationship to show when its key is denied, and C only its code.
A == [Model(("id" :> Id) @@ ("name" :> Column(<<"String">>)) @@ ("mood" :> Column(Mood)) @@ ("status" :> Column(<<"String">>)),
            "bs" :> RelOf("hasMany", "B", "aId")) EXCEPT
        !.override = "status" :> Status, !.overrideInput = "status" :> <<"StatusInput">>, !.soft = TRUE,
        !.query = "first" :> Exposes(OfThe("B")), !.apply = "trim" :> <<"Boolean">>,
        !.class.query = "summary" :> Exposes(BuiltBy(Detail)), !.class.mutations = "reset" :> Exposes(OfThe("C"))]
B == Model(("aId" :> KeyOf("A")) @@ ("cId" :> KeyOf("C")), ("c" :> RelOf("belongsTo", "C", "cId")))
C == Model("code" :> Column(<<"String">>), <<>>)

Base == [def |-> ("A" :> A) @@ ("B" :> B) @@ ("C" :> C), place |-> ("A" :> 1) @@ ("B" :> 2) @@ ("C" :> 3),
         external |-> (Status :> {Detail, Mood}) @@ (Detail :> {<<"String">>}) @@ (<<"StatusInput">> :> {<<"String">>})
                      @@ (Health :> {Mood}),
         leaves |-> (Mood :> "enum"), carriesType |-> TRUE, format |-> 1,
         extend |-> [query |-> "health" :> Health, mutation |-> <<>>]]
MCRevisions ==
  ("base" :> Base)
  @@ ("related" :> [Base EXCEPT !.def["C"].rels = "as" :> RelOf("belongsToMany", "A", "cId")])
  @@ ("plain" :> [Base EXCEPT !.def["A"].override = <<>>, !.def["A"].overrideInput = <<>>, !.def["A"].class = NoMethods])
  @@ ("raw" :> [Base EXCEPT !.carriesType = FALSE, !.def["A"].class = NoMethods, !.extend.query = <<>>])
  @@ ("newer" :> [Base EXCEPT !.def["C"].fields["code"].type = <<"Money">>, !.leaves = @ @@ (<<"Money">> :> "scalar"),
                              !.format = 2])

Open == [k \in PermissionKeys |-> Absent]
Fields == {<<m, f>> : m \in {"A", "B", "C"}, f \in {"id", "name", "mood", "status", "aId", "cId", "code"}}
Shut == [Open EXCEPT !["field"] = Predicate(Fields \ {<<"A", "name">>, <<"B", "aId">>, <<"B", "cId">>, <<"C", "code">>}),
                     !["mutationDelete"] = Predicate({"C"})]
Closed == [Open EXCEPT !["model"] = Predicate({})]
MCPermissions == ("open" :> Open) @@ ("shut" :> Shut) @@ ("closed" :> Closed)

Task(kind, profile, permission, extend) ==
  [kind |-> kind, profile |-> profile, permission |-> permission, extend |-> extend, onMismatch |-> "throw", checkStaleness |-> TRUE,
   file |-> "schema.json"]
CliTasks == {Task("build", p, p, TRUE) : p \in {"open", "shut"}} \cup {Task("check", "shut", "shut", TRUE)}
ServerTasks ==
  {Task("live", p, p, TRUE) : p \in {"open", "shut", "closed"}}
  \cup {Task("load", None, "open", TRUE)} \cup {Task("load", p, "shut", TRUE) : p \in {None, "shut"}}
  \cup {[Task("load", None, "open", TRUE) EXCEPT !.onMismatch = h] : h \in {"warn", "rebuild"}}
  \cup {Task("load", None, "open", FALSE), [Task("load", "open", "open", TRUE) EXCEPT !.checkStaleness = FALSE]}
MCTasksOf == ("cli" :> CliTasks) @@ ("server" :> ServerTasks)
MCOrmOf == ("cli" :> "cli") @@ ("server" :> "server")
=============================================================================
