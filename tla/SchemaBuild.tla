---------------------------- MODULE SchemaBuild ----------------------------
(***************************************************************************)
(* What gqlize builds from a host's definitions under a permission: the    *)
(* models that stay visible, their output, filter, order and input types,  *)
(* the roots and the fields a host adds to them.  A type is named by a     *)
(* tuple; a field has the type it is of, its arguments and the descriptor  *)
(* its resolver is bound by.  A build b is the definitions, the permission *)
(* folded over the models that are visible, and the permission each        *)
(* model's filter and order types were compiled under.                     *)
(***************************************************************************)
EXTENDS Gate, FiniteSets, Functions, TLC

Specified == {<<"ID">>, <<"Int">>, <<"Boolean">>, <<"String">>}
NodeType == <<"Node">>
Property == <<"property">>   \* graphql's own resolver
Field(name, to, bind) == [name |-> name, to |-> to, must |-> FALSE, args |-> {}, bind |-> bind]
Arg(name, to) == [name |-> name, to |-> to]
Args(fields) == {Arg(f.name, f.to) : f \in fields}
Object(fields) == [kind |-> "object", fields |-> fields, node |-> FALSE]
InputObject(fields) == [kind |-> "input", fields |-> fields, node |-> FALSE]
Leaf(kind) == [kind |-> kind, fields |-> {}, node |-> FALSE]
Edges(type) == UNION {{f.to} \cup {x.to : x \in f.args} : f \in type.fields} \cup (IF type.node THEN {NodeType} ELSE {})
Reach(types, from) ==
  LET grow[s \in SUBSET DOMAIN types] ==
        LET next == s \cup (UNION {Edges(types[t]) : t \in s} \ Specified) IN IF next = s THEN s ELSE grow[next]
  IN  grow[from]

-----------------------------------------------------------------------------
(* Which models have a field left under a permission. *)

Collection(rel) == rel.kind \in {"hasMany", "belongsToMany"}
PlainColumns(app, bag, m) ==
  {f \in DOMAIN app.def[m].fields : /\ f \notin DOMAIN app.def[m].override \cup app.def[m].ignoreFields
                                    /\ IsFieldAllowed(bag, m, f)}
IsAllowedInstanceMethod(bag, m, n) == IsQueryInstanceMethodAllowed(bag, m, n)
OfModel(type) == type.model # "none"
Resolves(type, visible) == OfModel(type) => type.model \in visible
HasFields(app, bag, visible, m) ==
  \/ PlainColumns(app, bag, m) # {}
  \/ \E r \in DOMAIN app.def[m].rels : /\ IsRelationshipAllowed(bag, m, r)
                                       /\ app.def[m].rels[r].target \in visible
  \/ \E n \in DOMAIN app.def[m].query : /\ Resolves(app.def[m].query[n].type, visible)
                                        /\ IsAllowedInstanceMethod(bag, m, n)
StillVisible(app, bag, passes) ==
  LET left[n \in Nat] == IF n = 0 THEN {m \in DOMAIN app.def : IsModelAllowed(bag, m)}
                         ELSE LET s == left[n - 1] IN {m \in s : HasFields(app, bag, s, m)}
  IN  left[passes]
VisibleModels(app, bag) == StillVisible(app, bag, Cardinality(DOMAIN app.def))
Folded(app, bag) == IF VisibleModels(app, bag) = DOMAIN app.def THEN bag
                    ELSE [bag EXCEPT !["model"] = Predicate(VisibleModels(app, bag))]
Building(app, bag, made) ==
  [app |-> app, bag |-> Folded(app, bag), made |-> made, visible |-> VisibleModels(app, bag)]
Def(b, m) == b.app.def[m]
Mutable(b) == {m \in b.visible : IsAllowed(b.bag["mutation"], m)}

-----------------------------------------------------------------------------
(* The adapters' filter, order and include types. *)

Where(m) == <<m, "Where">>
OrderBy(m) == <<m, "OrderBy">>
Include(m) == <<m, "Include">>
Exposed(b, m) == {f \in DOMAIN Def(b, m).fields : IsFieldExposed(Def(b, m).ignoreFields, b.made[m], m, f)}
\* A key of a belongsTo is filterable whether it is a column or not.
BelongsToKeys(b, m) ==
  {k \in {Def(b, m).rels[r].key : r \in {x \in DOMAIN Def(b, m).rels : Def(b, m).rels[x].kind = "belongsTo"}} :
     IsFieldExposed(Def(b, m).ignoreFields, b.made[m], m, k)}
FilterType(b, m) ==
  InputObject({Field(f, IF Def(b, m).fields[f].primaryKey \/ Def(b, m).fields[f].foreignKey
                        THEN <<"ID">> ELSE Def(b, m).fields[f].type, Property) : f \in Exposed(b, m)}
              \cup {Field(k, <<"ID">>, Property) : k \in BelongsToKeys(b, m)}
              \cup {Field(o, Def(b, m).operators[o], Property) : o \in DOMAIN Def(b, m).operators}
              \cup {Field("and", Where(m), Property)})
OrderType(b, m) == [Leaf("enum") EXCEPT !.fields = {Field(f, <<"String">>, Property) : f \in Exposed(b, m)}]
Orderable(b, m) == Exposed(b, m) # {}
OrderArg(b, m, name) == IF Orderable(b, m) THEN {Field(name, OrderBy(m), Property)} ELSE {}
DeletedArg(b, m, name) == IF Def(b, m).soft /\ IsQueryDeletedAllowed(b.made[m], m)
                          THEN {Field(name, <<"GQLTDeletedFilter">>, Property)} ELSE {}
Includable(b, m) ==
  {r \in DOMAIN Def(b, m).rels : /\ IsRelationshipAllowed(b.made[m], m, r)
                                 /\ IsModelAllowed(b.made[m], Def(b, m).rels[r].target)}
IncludeArg(b, m, name) == IF Includable(b, m) # {} THEN {Field(name, Include(m), Property)} ELSE {}
IncludeType(b, m) ==
  InputObject(UNION {LET t == Def(b, m).rels[r].target
                     IN  {Field(<<r, "where">>, Where(t), Property)} \cup DeletedArg(b, t, <<r, "deleted">>)
                         \cup OrderArg(b, t, <<r, "orderBy">>) \cup IncludeArg(b, t, <<r, "include">>)
                     : r \in Includable(b, m)})
DefaultListArgs(b, m) ==
  Args({Field("where", Where(m), Property)} \cup IncludeArg(b, m, "include") \cup DeletedArg(b, m, "deleted"))

-----------------------------------------------------------------------------
(* Output types. *)

\* A connection, its edges folded in: one for a name, its binding the one it was first made with
\* (graphql asks the parents for their fields in the order of the definitions).
ListObject(b, name, m, data) ==
  [Field(name[1], name, <<"connection", m, data>>) EXCEPT
     !.args = DefaultListArgs(b, m) \cup Args(OrderArg(b, m, "orderBy"))]
ListType(m) == Object({Field("node", <<m>>, Property)})
ManyName(rel, r) == <<rel.target, rel.kind, r, "List">>
Shares(b, m, r) ==
  {p \in b.visible : /\ r \in DOMAIN Def(b, p).rels
                     /\ ManyName(Def(b, p).rels[r], r) = ManyName(Def(b, m).rels[r], r)
                     /\ IsRelationshipAllowed(b.bag, p, r)}
FirstOf(b, ps) == CHOOSE p \in ps : \A q \in ps : b.app.place[p] <= b.app.place[q]
ManyObject(b, m, r) ==
  LET rel == Def(b, m).rels[r]
  IN  [ListObject(b, ManyName(rel, r), rel.target, <<"manyRelationship", FirstOf(b, Shares(b, m, r)), r>>) EXCEPT !.name = r]
Related(b, m) ==
  {r \in DOMAIN Def(b, m).rels : /\ IsRelationshipAllowed(b.bag, m, r) /\ Def(b, m).rels[r].target \in b.visible}
RelatedFields(b, m) ==
  {IF Collection(Def(b, m).rels[r]) THEN ManyObject(b, m, r)
   ELSE Field(r, <<Def(b, m).rels[r].target>>, <<"singleRelationship", m, r>>) : r \in Related(b, m)}
BasicField(b, m, f) ==
  LET c == Def(b, m).fields[f]
  IN  [(IF c.primaryKey \/ c.foreignKey
        THEN Field(f, <<"ID">>, <<"globalId", IF c.foreignTarget = "none" THEN m ELSE c.foreignTarget>>)
        ELSE Field(f, c.type, Property)) EXCEPT !.must = ~ c.allowNull]
OverrideField(b, m, f) ==
  [Field(f, Def(b, m).override[f], <<"overrideOutput", m, f>>) EXCEPT !.must = ~ Def(b, m).fields[f].allowNull]
BasicFields(b, m) ==
  LET plain == PlainColumns(b.app, b.bag, m)
  IN  IF plain = {} THEN {}
      ELSE {BasicField(b, m, f) : f \in plain}
           \cup {OverrideField(b, m, f) : f \in {x \in DOMAIN Def(b, m).override : IsFieldAllowed(b.bag, m, x)}}
MethodType(type) == IF OfModel(type) THEN <<type.model>> ELSE type.built
ComplexFields(b, m) ==
  {Field(n, MethodType(Def(b, m).query[n].type), <<"instanceMethod", m, n>>) :
     n \in {x \in DOMAIN Def(b, m).query : /\ Resolves(Def(b, m).query[x].type, b.visible)
                                           /\ IsAllowedInstanceMethod(b.bag, m, x)}}
ModelType(b, m) ==
  LET basic == BasicFields(b, m)
  IN  [Object(basic \cup RelatedFields(b, m) \cup ComplexFields(b, m)) EXCEPT !.node = \E f \in basic : f.name = "id"]

ClassMethodsName(m, target) == <<m, target, "ClassMethods">>
ClassMethodFields(b, m, target) ==
  {Field(n, MethodType(Def(b, m).class[target][n].type), <<"classMethod", m, n, target>>) :
     n \in {x \in DOMAIN Def(b, m).class[target] : /\ IsClassMethodAllowed(b.bag, m, x, target)
                                                   /\ Resolves(Def(b, m).class[target][x].type, b.visible)}}
\* Not asked of the model itself, only of the method and of the type it returns.
ClassMethods(b, target) ==
  {Field(m, ClassMethodsName(m, target), <<"container">>) :
     m \in {x \in DOMAIN b.app.def : ClassMethodFields(b, x, target) # {}}}

-----------------------------------------------------------------------------
(* Input types. *)

Kinds == {"create", "update"}
InputName(m, kind) == IF kind = "create" THEN <<m, "RequiredInput">> ELSE <<m, "OptionalInput">>
ColumnInputs(b, m, kind) ==
  {f \in DOMAIN Def(b, m).fields \ Def(b, m).ignoreFields : IsInputFieldWritable(b.bag, m, f, kind, Def(b, m).fields[f])}
RelationInputs(b, m, kind) ==
  {r \in DOMAIN Def(b, m).rels : /\ IsInputFieldAllowed(b.bag, m, r, kind)
                                 /\ Def(b, m).rels[r].target \in Mutable(b)}
HasInput(b, m, kind) == /\ m \in Mutable(b)
                        /\ IsMutationAllowed(b.bag, m, kind)
                        /\ ColumnInputs(b, m, kind) \cup RelationInputs(b, m, kind) # {}
ColumnInput(b, m, f, kind) ==
  LET c == Def(b, m).fields[f]
  IN  [Field(f, IF f \in DOMAIN Def(b, m).override THEN Def(b, m).overrideInput[f]
                ELSE IF c.primaryKey \/ c.foreignKey THEN <<"ID">> ELSE c.type, Property)
       EXCEPT !.must = /\ kind = "create" /\ ~ c.allowNull /\ ~ c.autoPopulated
                       /\ f \in DOMAIN Def(b, m).override \/ ~ (c.primaryKey \/ c.foreignKey)]
InputType(b, m, kind) ==
  InputObject({ColumnInput(b, m, f, kind) : f \in ColumnInputs(b, m, kind)}
              \cup {Field(r, <<m, r, "Input">>, Property) : r \in RelationInputs(b, m, kind)})
\* The eight verbs of a relationship, those whose input exists.
Verbs(b, m, r) ==
  LET rel == Def(b, m).rels[r]  t == rel.target
      through == IF rel.kind = "belongsToMany" THEN <<m, r, "AddThrough">> ELSE Where(t)
  IN  (IF HasInput(b, t, "create") THEN {Field("create", InputName(t, "create"), Property)} ELSE {})
      \cup (IF HasInput(b, t, "update")
            THEN {Field("update", <<m, r, "Update">>, Property), Field("select", <<m, r, "Select">>, Property)} ELSE {})
      \cup (IF Collection(rel) THEN {Field("add", through, Property)} ELSE {})
      \cup {Field("set", through, Property), Field("delete", Where(t), Property), Field("restore", Where(t), Property),
            Field("remove", IF Collection(rel) THEN Where(t) ELSE <<"Boolean">>, Property)}
WhereInput(target, input) == InputObject({Field("where", Where(target), Property), Field("input", input, Property)})
RelationInputType(b, m, r, part) ==
  LET t == Def(b, m).rels[r].target
  IN  CASE part = "Input" -> InputObject(Verbs(b, m, r))
        [] part = "AddThrough" -> InputObject({Field("where", Where(t), Property)})
        [] part \in {"Update", "Select"} -> WhereInput(t, InputName(t, "update"))
Applies(b, m) ==
  {Field(n, Def(b, m).apply[n], Property) :
     n \in {x \in DOMAIN Def(b, m).apply : IsMutationInstanceMethodAllowed(b.bag, m, x)}}
MutationArgs(b, m) ==
  LET may == [k \in MutationKinds |-> IsMutationAllowed(b.bag, m, k)]
  IN  (IF HasInput(b, m, "create") THEN {Arg("create", InputName(m, "create"))} ELSE {})
      \cup (IF HasInput(b, m, "update") THEN {Arg("update", <<m, "UpdateInput">>), Arg("select", <<m, "SelectInput">>)} ELSE {})
      \cup (IF may["delete"] THEN {Arg("delete", Where(m))} ELSE {})
      \cup (IF may["restore"] /\ Def(b, m).soft THEN {Arg("restore", Where(m))} ELSE {})
      \cup (IF (may["create"] \/ may["update"]) /\ Applies(b, m) # {} THEN {Arg("apply", <<m, "InstanceMutations">>)} ELSE {})
MutationModel(b, m) == [Field(m, <<m>>, <<"mutationModel", m>>) EXCEPT !.args = MutationArgs(b, m)]

-----------------------------------------------------------------------------
(* The roots, and the schema. *)

QueryModels(b) == {ListObject(b, <<m, "List">>, m, <<"findAll", m>>) :
                     m \in {x \in b.visible : IsAllowed(b.bag["query"], x)}}
MutationModels(b) == {MutationModel(b, m) : m \in {x \in Mutable(b) : MutationArgs(b, x) # {}}}
ExtendKey == [query |-> "queryExtension", mutation |-> "mutationExtension"]
Extended(bag, extend, target) ==
  {Field(k, extend[target][k], <<"extend", target, k>>) :
     k \in {x \in DOMAIN extend[target] : IsAllowed(bag[ExtendKey[target]], x)}}
Container(name, fields) == IF fields = {} THEN {} ELSE {Field(name[2], name, <<"container">>)}
RootQuery == <<"RootQuery">>
Mutation == <<"Mutation">>
QueryFields(b, extend) ==
  (IF b.app.carriesType THEN {Field("node", NodeType, <<"nodeField">>)} ELSE {})
  \cup Container(<<"Query", "models">>, QueryModels(b)) \cup Container(<<"Query", "classMethods">>, ClassMethods(b, "query"))
  \cup Extended(b.bag, extend, "query")
MutationFields(b, extend) ==
  Container(<<"Mutation", "models">>, MutationModels(b))
  \cup Container(<<"Mutation", "classMethods">>, ClassMethods(b, "mutations")) \cup Extended(b.bag, extend, "mutation")

\* The host's own types, which only it can make.
HostTypes(app) == [n \in DOMAIN app.external |-> Object({Field(t, t, Property) : t \in app.external[n]})]
LeafTypes(app) == [n \in DOMAIN app.leaves |-> Leaf(app.leaves[n])] @@ (NodeType :> Leaf("interface"))
                  @@ (<<"GQLTDeletedFilter">> :> Leaf("enum"))
RelationParts == {"Input", "AddThrough", "Update", "Select"}
AllTypes(b, extend) ==
  LET V == b.visible  D == DOMAIN b.app.def
      R == UNION {{<<m, r, p>> : r \in DOMAIN Def(b, m).rels, p \in RelationParts} : m \in V}
      L == UNION {{ManyName(Def(b, m).rels[r], r) : r \in DOMAIN Def(b, m).rels} : m \in V}
  IN  LeafTypes(b.app) @@ HostTypes(b.app)
      @@ [n \in {<<m>> : m \in V} |-> ModelType(b, n[1])]
      @@ [n \in {Where(m) : m \in D} |-> FilterType(b, n[1])]
      @@ [n \in {OrderBy(m) : m \in D} |-> OrderType(b, n[1])]
      @@ [n \in {Include(m) : m \in D} |-> IncludeType(b, n[1])]
      @@ [n \in {<<m, "List">> : m \in V} \cup L |-> ListType(n[1])]
      @@ [n \in {InputName(m, "create") : m \in V} |-> InputType(b, n[1], "create")]
      @@ [n \in {InputName(m, "update") : m \in V} |-> InputType(b, n[1], "update")]
      @@ [n \in {<<m, p>> : m \in V, p \in {"UpdateInput", "SelectInput"}} |-> WhereInput(n[1], InputName(n[1], "update"))]
      @@ [n \in {<<m, "InstanceMutations">> : m \in V} |-> InputObject(Applies(b, n[1]))]
      @@ [n \in R |-> RelationInputType(b, n[1], n[2], n[3])]
      @@ [n \in {ClassMethodsName(m, t) : m \in DOMAIN b.app.def, t \in {"query", "mutations"}} |-> Object(ClassMethodFields(b, n[1], n[2]))]
      @@ (<<"Query", "models">> :> Object(QueryModels(b))) @@ (<<"Mutation", "models">> :> Object(MutationModels(b)))
      @@ (<<"Query", "classMethods">> :> Object(ClassMethods(b, "query")))
      @@ (<<"Mutation", "classMethods">> :> Object(ClassMethods(b, "mutations")))
      @@ (RootQuery :> Object(QueryFields(b, extend))) @@ (Mutation :> Object(MutationFields(b, extend)))

RootsOf(b, extend) == (IF QueryFields(b, extend) = {} THEN {} ELSE {RootQuery})
                      \cup (IF MutationFields(b, extend) = {} THEN {} ELSE {Mutation})
\* What graphql walks from the roots.
Published(types, roots) == [n \in Reach(types, roots) |-> types[n]]
\* The model types something refers to.
PruneModelTypes(models, types) == {m \in models : <<m>> \in DOMAIN types}
\* graphql's own rule on empty types: one of them fails every query.
Valid(types) == \A n \in DOMAIN types : types[n].kind \in {"object", "input"} => types[n].fields # {}

\* The host's types a definition brought in, whose input or output fields are made of them.
Recorded(b, types) ==
  UNION {{[type |-> t, by |-> n[1]] : t \in Edges(types[n]) \cap DOMAIN b.app.external} :
           n \in {x \in DOMAIN types : x[1] \in DOMAIN b.app.def}}
LedgerOf(b, extend, types) ==
  [models |-> PruneModelTypes(b.visible, types), externals |-> Recorded(b, types),
   extend |-> [t \in {"query", "mutation"} |-> {f.name : f \in Extended(b.bag, extend, t)}]]
WithLedger(b, extend, types) == [types |-> types, ledger |-> LedgerOf(b, extend, types)]
Schema(b, extend) == WithLedger(b, extend, Published(AllTypes(b, extend), RootsOf(b, extend)))
=============================================================================
