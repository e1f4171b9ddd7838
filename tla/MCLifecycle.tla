----------------------------- MODULE MCLifecycle -----------------------------
EXTENDS Lifecycle, TLC

CONSTANTS A, B, J

MCKeyTo == (A :> "aId") @@ (B :> "bId") @@ (J :> "jId")
Rel(name, type, model, fk) ==
  [name |-> name, type |-> type, model |-> model, foreignKey |-> fk, otherKey |-> None, through |-> None,
   sourceKey |-> None, targetKey |-> None, underThrough |-> FALSE]
Method(sql, marks, bound, mapped) == [sql |-> sql, marks |-> marks, wired |-> bound, mapped |-> mapped]

App(homeB, as, bs) ==
  [models |-> {A, B}, adapters |-> {"sequelize", "valkey"}, caching |-> {"sequelize"}, enforcing |-> {"sequelize"},
   home |-> (A :> "sequelize") @@ (B :> homeB), columns |-> (A :> {"name"}) @@ (B :> {"name"}),
   relationships |-> (A :> as) @@ (B :> bs), methods |-> <<>>]
WithColumns(a, d, columns) == [a EXCEPT !.columns[d] = @ \cup columns]
WithJoin(a, columns) ==
  [a EXCEPT !.models = @ \cup {J}, !.home = @ @@ (J :> "valkey"), !.columns = @ @@ (J :> columns),
            !.relationships = @ @@ (J :> <<>>)]
Named(r) == [r EXCEPT !.through = J]

ToB == Rel("bs", "belongsToMany", B, "aId")
ToA == Rel("as", "belongsToMany", A, "bId")
Children == Rel("children", "hasMany", B, "parentId")
Parent == Rel("parent", "belongsTo", A, "parentId")
Itself == Rel("next", "hasOne", A, "nextId")

OneAdapter == {App("sequelize", <<Children, Itself>>, <<Parent>>), App(None, <<Named(ToB)>>, <<Named(ToA)>>),
               App("sequelize", <<ToB>>, <<>>)}
Crossing ==
  {App("valkey", <<Children>>, <<Parent>>),
   WithColumns(App("valkey", <<Children>>, <<Parent>>), B, {"parentId"}),
   \* The key is made by a relationship of the other model.
   App("valkey", <<Children>>, <<Rel("others", "hasMany", B, "parentId")>>),
   App("valkey", <<[Children EXCEPT !.sourceKey = "nextId"], Itself>>, <<Rel("others", "hasMany", B, "parentId")>>),
   App("valkey", <<[Children EXCEPT !.foreignKey = None]>>, <<>>)}
Pairs ==
  {App("valkey", <<ToB, Itself>>, <<ToA>>),
   App("valkey", <<[ToB EXCEPT !.foreignKey = "left"]>>, <<[ToA EXCEPT !.foreignKey = "right"]>>),
   App("valkey", <<[ToB EXCEPT !.foreignKey = "left", !.otherKey = "right"]>>,
                 <<[ToA EXCEPT !.foreignKey = "right", !.otherKey = "left"]>>),
   App("valkey", <<[Named(ToB) EXCEPT !.foreignKey = "left"]>>, <<[Named(ToA) EXCEPT !.foreignKey = "right"]>>),
   App("valkey", <<[Named(ToB) EXCEPT !.underThrough = TRUE]>>, <<[Named(ToA) EXCEPT !.foreignKey = "right"]>>),
   WithJoin(App("valkey", <<Named(ToB)>>, <<Named(ToA)>>), {"aId", "bId"}),
   WithJoin(App("valkey", <<Named(ToB)>>, <<Named(ToA)>>), {"aId"})}
Wrong == {App("valkey", <<Rel("x", t, B, "aId")>>, <<>>) : t \in {"belongsToOne"}}
         \cup {App("valkey", <<Children, Children>>, <<>>), App("sequelize", <<Rel(None, "hasOne", B, "aId")>>, <<>>),
               App("elsewhere", <<>>, <<>>), App("sequelize", <<Rel("x", "hasOne", J, "aId")>>, <<>>)}
Methods == {Method(sql, marks, bound, mapped) :
              sql \in BOOLEAN, marks \in SUBSET {"aware", "unscoped"}, bound \in BOOLEAN, mapped \in BOOLEAN}
Scoped == {[App("valkey", <<>>, <<>>) EXCEPT !.methods = d :> {m}] :
             d \in {A, B}, m \in {x \in Methods : x.wired => x.sql}}
MCApps == OneAdapter \cup Crossing \cup Pairs \cup Wrong \cup Scoped
=============================================================================
