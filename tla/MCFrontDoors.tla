---------------------------- MODULE MCFrontDoors ----------------------------
EXTENDS FrontDoors, TLC

CONSTANTS Task, User

Column(pk, fk, required) == [primaryKey |-> pk, foreignKey |-> fk, writable |-> FALSE, required |-> required]
MCModels == {Task, User}
MCColumns == (Task :> {"id", "name", "ownerId", "internal"}) @@ (User :> {"id", "name", "internal"})
MCMeta == [c \in {"id", "name", "ownerId", "internal"} |->
             Column(c = "id", c = "ownerId", c = "name")]
MCIgnored == (Task :> {"internal"}) @@ (User :> {"internal"})
MCRelations == (Task :> ("owner" :> User)) @@ (User :> ("tasks" :> Task))

Closing(k) == [OpenBag EXCEPT ![k] = Predicate({})]
Bags == {OpenBag} \cup {Closing(k) : k \in BuildTimeKeys \ {"query", "queryDeleted", "mutationRestore",
                                                            "queryExtension", "mutationExtension"}}
Base == [door |-> "temporalize", bag |-> OpenBag, readOnly |-> FALSE, validate |-> TRUE,
         transactional |-> TRUE, adapterTransactions |-> TRUE, classMethods |-> TRUE,
         instanceMethods |-> TRUE, includeRelations |-> TRUE, hooked |-> {User},
         queues |-> (Task :> "db.Task") @@ (User :> "db.User"), workers |-> {"db.Task", "db.User"}]
Temporal == {[Base EXCEPT !.bag = b] : b \in Bags}
  \cup {[Base EXCEPT !.readOnly = TRUE], [Base EXCEPT !.validate = FALSE], [Base EXCEPT !.transactional = FALSE],
        [Base EXCEPT !.adapterTransactions = FALSE], [Base EXCEPT !.includeRelations = FALSE],
        [Base EXCEPT !.queues = (User :> "db.User")], [Base EXCEPT !.workers = {"db.User"}]}
Nestize == {[d EXCEPT !.door = "nestize"] : d \in Temporal}
  \cup {[Base EXCEPT !.door = "nestize", !.classMethods = FALSE], [Base EXCEPT !.door = "nestize", !.instanceMethods = FALSE]}

NoFilter == [given |-> FALSE, fields |-> {}]
ByName == [given |-> TRUE, fields |-> {"name"}]
NoInput == [given |-> FALSE, columns |-> {}, malformed |-> {}, nested |-> {}]
\* A body for the owner, and in it one for the tasks of the owner; and one for nobody.
Bodies(op) == IF op = "relationMutate" THEN {<<>>, <<"tasks">>} ELSE {<<"owner">>, <<"owner", "tasks">>, <<"other">>}
SomeInput(op) == [given |-> TRUE, columns |-> {"name", "ownerId", "internal"}, malformed |-> {},
                  nested |-> {[path |-> p, verb |-> v, columns |-> {"id", "name", "ownerId", "internal"}] :
                                p \in Bodies(op), v \in {"create", "update"}}]
Plain(door, op) == [door |-> door, op |-> op, model |-> Task, context |-> "caller", where |-> ByName, all |-> FALSE,
                    order |-> {}, limit |-> 1, relation |-> "owner", method |-> "m", input |-> SomeInput(op)]
Ops(door) == IF door = "nestize"
             THEN {"list", "count", "findByPk", "create", "update", "remove", "select", "relationGet",
                   "relationMutate", "relationRemove", "classQuery", "classMutation", "instanceMethod", "transform"}
             ELSE {"list", "count", "findByPk", "create", "update", "destroy", "select",
                   "classMutation", "instanceMethod", "transform"}
Variants(r) == {r, [r EXCEPT !.where = NoFilter], [r EXCEPT !.where = NoFilter, !.all = TRUE],
                [r EXCEPT !.where.fields = {"internal"}], [r EXCEPT !.order = {"internal"}], [r EXCEPT !.limit = 0],
                [r EXCEPT !.input = NoInput], [r EXCEPT !.input.malformed = {"name"}],
                [r EXCEPT !.relation = "other"], [r EXCEPT !.context = "none"]}


Deployments == Temporal \cup Nestize
MCCases == UNION {{<<d, Plain(d.door, op)>> : op \in Ops(d.door)} : d \in Deployments}
           \cup UNION {{<<d, r>> : r \in UNION {Variants(Plain(d.door, op)) : op \in Ops(d.door)}} :
                         d \in {x \in Deployments : x.bag = OpenBag}}
=============================================================================
