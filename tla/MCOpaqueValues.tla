--------------------------- MODULE MCOpaqueValues ---------------------------
(* Values of OpaqueValues for TLC: lists of up to LastRow rows; and users,  *)
(* their tasks, and the join model of the members of a task, whose two      *)
(* foreign keys are its primary key.                                        *)
EXTENDS OpaqueValues, Naturals, Sequences, SequencesExt

CONSTANT LastRow

-----------------------------------------------------------------------------
(* Pages. *)

MCRows == 1 .. LastRow
MCVeiled == {2}
Sequelize(inline) == [adapter |-> "sequelize", inline |-> inline]
MCBackends == {Sequelize(TRUE), Sequelize(FALSE), [adapter |-> "valkey", inline |-> FALSE]}

NotGiven == -1
CursorOf(codec_, connection, index) == [codec |-> codec_, connection |-> connection, index |-> index]
Unsent == CursorOf("none", "none", NotGiven)
At(index) == CursorOf("old", "connection", index)
Strange == {CursorOf("unknown", "connection", 1), CursorOf("old", "another", 1)}
Plain(road, relation) == [road |-> road, relation |-> relation, separate |-> FALSE, countOnly |-> FALSE,
                          first |-> NotGiven, last |-> NotGiven, after |-> Unsent, before |-> Unsent]
Kinds == {<<"root", "none">>, <<"cross", "hasMany">>}
         \cup {"relation"} \X {"hasMany", "belongsToMany"} \cup {"eager"} \X {"hasMany", "required", "belongsToMany"}
\* One row, two, more than MaxPageSize, and more than there are.
Sizes == {1, 2, LastRow}
Sent == {At(0), At(1), At(LastRow)}
Asked(p) ==
  {[p EXCEPT !.first = n] : n \in Sizes}
  \cup {[p EXCEPT !.last = n] : n \in Sizes}
  \cup {[p EXCEPT !.first = n, !.after = c] : n \in Sizes, c \in Sent \cup Strange}
  \cup {[p EXCEPT !.last = n, !.before = c] : n \in Sizes, c \in Sent \ {At(0)}}
  \cup {[p EXCEPT !.countOnly = TRUE], [p EXCEPT !.countOnly = TRUE, !.last = 1]}
Rest == {[Plain("rest", "none") EXCEPT !.countOnly = c] @@ [limit |-> l, offset |-> o] :
           c \in BOOLEAN, l \in {NotGiven, 0, 2}, o \in {-1, 0, 2}}
\* A required relation's window is applied in memory, and not bounded by MaxPageSize;
\* without a size an eager page has all the children, unless it is fetched separately.
Bounded(q) == q.road = "eager" /\ q.relation = "required" => q.first <= MaxPageSize /\ q.last <= MaxPageSize
MCPageRequests ==
  {q \in UNION {Asked(Plain(k[1], k[2])) : k \in Kinds} : Bounded(q)}
  \cup {Plain("root", "none"), Plain("cross", "hasMany")} \cup Rest

-----------------------------------------------------------------------------
(* Ids. *)

Column(primary, target, writable) ==
  [primaryKey |-> primary, foreignKey |-> target # "", foreignTarget |-> target,
   ignoreGlobalKey |-> FALSE, writable |-> writable]
Text == Column(FALSE, "", FALSE)

MCFields ==
  [User   |-> [id |-> Column(TRUE, "", FALSE), name |-> Text],
   Task   |-> [id |-> Column(TRUE, "", FALSE), ownerId |-> Column(FALSE, "User", TRUE), name |-> Text],
   Member |-> [userId |-> Column(TRUE, "User", FALSE), taskId |-> Column(TRUE, "Task", FALSE)]]

MCAssociations ==
  [User |-> [tasks |-> "Task"], Task |-> [members |-> "Member", owner |-> "User"], Member |-> [user |-> "User"]]

Lookalike == <<"User", "1">>   \* a string key that reads like the id of a user
MCKeys == [User |-> {<<"1">>, <<"2">>, Lookalike}, Task |-> {<<"1">>, <<"2">>}, Member |-> {<<"1">>}]
MCScopedBy == [Task |-> "ownerId"]
Unscoped == <<>>
MCScopes == {Unscoped, <<"1">>, Lookalike}

PointsAt(m, f) == IF MCFields[m][f].foreignTarget # "" THEN MCFields[m][f].foreignTarget ELSE m
Shown == {[kind |-> "id", model |-> m, field |-> f, key |-> k] :
            m \in {"User", "Task", "Member"}, f \in {"id", "ownerId", "userId", "taskId"}, k \in UNION Range(MCKeys)}
OfRows == {s \in Shown : s.field \in DOMAIN MCFields[s.model] /\ s.key \in MCKeys[PointsAt(s.model, s.field)]}
Typed == {[kind |-> "key", key |-> k] : k \in {<<"1">>, <<"2">>}}
Texts == {[kind |-> "text", model |-> "User", field |-> "id", key |-> <<"1">>]}

LeafOf(path, sent) == [path |-> path, sent |-> sent]
\* Filters: an operator, a list, under a connective, next to a text that looks like an id, and two lists.
KeyPaths(m) ==
  CASE m = "User"   -> {<<"id", "eq">>}
    [] m = "Task"   -> {<<"ownerId", "in", "0">>, <<"and", "0", "id", "eq">>}
    [] m = "Member" -> {<<"userId", "eq">>}
Filters(m) ==
  {<<LeafOf(p, s)>> : p \in KeyPaths(m), s \in OfRows \cup Typed}
  \cup {<<LeafOf(p, s), LeafOf(<<"name", "eq">>, t)>> : p \in KeyPaths(m), s \in OfRows, t \in Texts}
OneLeaf(m) == {<<LeafOf(p, s)>> : p \in KeyPaths(m), s \in {x \in OfRows : x.key = <<"1">>}}

Ask(road, m, include, wheres, input) ==
  [road |-> road, model |-> m, include |-> include, wheres |-> wheres, input |-> input]
\* An input has the writable keys only, since the schema offers no others.
InputsOf(sent) ==
  {<<LeafOf(<<"name">>, t)>> : t \in Texts}
  \cup {<<LeafOf(<<"ownerId">>, s)>> : s \in sent}
  \cup {<<LeafOf(<<"ownerId">>, s), LeafOf(<<"name">>, t)>> : s \in sent, t \in Texts}
Inputs == InputsOf(OfRows \cup Typed)

Lists == UNION {{Ask("list", m, <<>>, <<w>>, <<>>) : w \in Filters(m)} : m \in {"User", "Task", "Member"}}
Trees == {Ask("list", "User", <<"tasks", "members">>, <<u, t, x>>, <<>>) :
            u \in OneLeaf("User"), t \in OneLeaf("Task"), x \in OneLeaf("Member")}
Writes == {Ask("write", "Task", <<>>, <<w>>, <<>>) : w \in Filters("Task")}
Verbs == {Ask("verb", "User", <<"tasks">>, <<w>>, <<>>) : w \in Filters("Task")}
         \cup {Ask("verb", "Task", <<"owner">>, <<w>>, <<>>) : w \in Filters("User")}
Nodes(keys) == {Ask("node", "User", <<>>, <<<<LeafOf(<<"id">>, s)>>>>, <<>>) : s \in {x \in OfRows : x.key \in keys}}
Changes == {Ask(road, "Task", <<>>, <<>>, i) : road \in {"create", "update"}, i \in Inputs}

NestedUpdates(sent) == {Ask("nested update", "User", <<"tasks">>, <<>>, i) : i \in InputsOf(sent)}

\* Without node(id) of a key that reads like an id, and without the update verb sent an id.
SoundRequests ==
  Lists \cup Trees \cup Writes \cup Verbs \cup Changes \cup Nodes({<<"1">>, <<"2">>}) \cup NestedUpdates(Typed)
=============================================================================
