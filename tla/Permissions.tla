----------------------------- MODULE Permissions -----------------------------
(***************************************************************************)
(* createRoleBasedPermissions: the boolean gates (PermissionRules.tla),    *)
(* and the "scope" rules compiled into a filter of rows                    *)
(* (utilize/src/permissions.ts), with andScopes and bindScopeParameters,   *)
(* which take such filters further (utilize/src/gate.ts).  A filter is a   *)
(* tree of conditions, and a scope leaf nests at most two combinators.     *)
(***************************************************************************)
EXTENDS PermissionRules, SequencesExt

CONSTANTS OtherScopes,    \* what a second source, one andScopes adds, may answer
          Principals,     \* who may ask: a function of attributes, or NoPrincipal
          Rows            \* rows, as functions of the fields scopes compare

VARIABLES question,       \* [op, who, other]: who asks for which rows, and the second source
          reply           \* the filter it was answered with, or none yet

vars == <<rulesVars, question, reply>>

Nil == 0   \* undefined or null
NoPrincipal == [known |-> FALSE]

-----------------------------------------------------------------------------
(* Row-level scopes. *)

Everything == [k |-> "true"]
Deny == [is |-> "deny", where |-> Everything, set |-> <<>>]
Unscoped == [is |-> "unscoped", where |-> Everything, set |-> <<>>]
Scoped(where, set) == [is |-> "scoped", where |-> where, set |-> set]

ReadAttr(who, attr) == IF who.known THEN who.has[attr] ELSE Nil
MembersOf(who, attr) == IF who.known THEN who.has[attr] ELSE {}
Joined(k, wheres) ==
  CASE Len(wheres) = 0 -> Everything
    [] Len(wheres) = 1 -> wheres[1]
    [] OTHER -> [k |-> k, of |-> wheres]

\* own and tenant: the principal's value, forced on a create and compared elsewhere.
CompareLeaf(leaf, who, op) ==
  LET v == ReadAttr(who, leaf.from)
  IN IF v = Nil THEN Deny
     ELSE IF op = "create" THEN Scoped(Everything, leaf.field :> v)
     ELSE Scoped([k |-> "eq", f |-> leaf.field, v |-> v], <<>>)
GroupLeaf(leaf, who) ==
  LET members == MembersOf(who, leaf.from)
  IN IF members = {} THEN Deny ELSE Scoped([k |-> "in", f |-> leaf.field, of |-> members], <<>>)

Wheres(branches) == SelectSeq([i \in DOMAIN branches |-> branches[i].where], LAMBDA w : w # Everything)
\* As if a denied branch of an OR were one that imposes nothing.
AnyOfForgiving(branches) ==
  LET live == SelectSeq(branches, LAMBDA b : b.is = "scoped")
  IN IF live = <<>> \/ Wheres(live) = <<>> THEN Unscoped ELSE Scoped(Joined("or", Wheres(live)), <<>>)
\* An OR: a denied branch adds nothing, an unscoped one takes the restriction away.
AnyOf(branches) ==
  LET live == SelectSeq(branches, LAMBDA b : b.is # "deny")
  IN IF live = <<>> THEN Deny
     ELSE IF \E i \in DOMAIN live : live[i].is = "unscoped" THEN Unscoped
     ELSE IF Wheres(live) = <<>> THEN Unscoped
     ELSE Scoped(Joined("or", Wheres(live)), <<>>)
SetOf(branches) == FoldSeq(LAMBDA b, acc : b.set @@ acc, <<>>, branches)
AllOf(branches) ==
  LET where == Joined("and", Wheres(branches))
  IN IF \E i \in DOMAIN branches : branches[i].is = "deny" THEN Deny
     ELSE IF where = Everything /\ SetOf(branches) = <<>> THEN Unscoped
     ELSE Scoped(where, SetOf(branches))

RECURSIVE CompileLeaf(_, _, _)
CompileLeaf(leaf, who, op) ==
  CASE leaf.k = "deny" -> Deny
    [] leaf.k = "none" -> Unscoped
    [] leaf.k = "own" -> CompareLeaf(leaf, who, op)
    [] leaf.k = "group" -> GroupLeaf(leaf, who)
    [] leaf.k = "any" -> AnyOf([i \in DOMAIN leaf.of |-> CompileLeaf(leaf.of[i], who, op)])
    [] leaf.k = "all" -> AllOf([i \in DOMAIN leaf.of |-> CompileLeaf(leaf.of[i], who, op)])

\* The leaf of an operation: its own before the one for every write.
LeafForOperation(node, op) ==
  IF node.k # "ops" THEN node
  ELSE IF op \in DOMAIN node.by THEN node.by[op]
  ELSE IF op # "read" /\ "write" \in DOMAIN node.by THEN node.by["write"]
  ELSE [k |-> "absent"]

ScopeGate(rule, who, op) ==
  LET leaf == LeafForOperation(rule, op)
  IN IF rule.k = "none" THEN Unscoped
     ELSE IF rule.k = "deny" THEN Deny
     ELSE IF leaf.k = "absent" THEN Unscoped
     ELSE IF ~ who.known /\ leaf.k # "none" THEN Deny
     ELSE CompileLeaf(leaf, who, op)

\* Several sources: a deny ends it, two forced values that differ deny, the rest is ANDed.
AndScopes(sources) ==
  LET scoped == SelectSeq(sources, LAMBDA s : s.is = "scoped")
      clash == \E i, j \in DOMAIN scoped : \E f \in DOMAIN scoped[i].set \cap DOMAIN scoped[j].set :
                 scoped[i].set[f] # scoped[j].set[f]
  IN IF \E i \in DOMAIN sources : sources[i].is = "deny" THEN Deny
     ELSE IF clash THEN Deny
     ELSE IF scoped = <<>> THEN Unscoped
     ELSE Scoped(Joined("and", Wheres(scoped)), SetOf(scoped))

\* The row passes the filter.
RECURSIVE Holds(_, _)
Holds(w, row) ==
  CASE w.k = "true" -> TRUE
    [] w.k = "eq" -> row[w.f] = w.v
    [] w.k = "in" -> row[w.f] \in w.of
    [] w.k = "and" -> \A i \in DOMAIN w.of : Holds(w.of[i], row)
    [] w.k = "or" -> \E i \in DOMAIN w.of : Holds(w.of[i], row)
Shown(scope) == IF scope.is = "deny" THEN {} ELSE {r \in Rows : Holds(scope.where, r)}

\* The equalities below the ANDs of a filter, and whether it holds anything else.
RECURSIVE ScopeEqualities(_)
ScopeEqualities(w) ==
  CASE w.k = "true" -> {}
    [] w.k = "and" -> UNION {ScopeEqualities(w.of[i]) : i \in DOMAIN w.of}
    [] OTHER -> {w}

\* The ":scope..." parameters of a raw query over fields ps: a value or NULL for each,
\* a deny when two values claim one, an error when they cannot carry the filter.
BindScopeParameters(ps, scope) ==
  LET eqs == ScopeEqualities(scope.where)
      valuesOf(f) == {e.v : e \in {x \in eqs : x.k = "eq" /\ x.f = f}}
  IN IF scope.is = "deny" THEN [is |-> "deny"]
     ELSE IF \E f \in ps : \E v, w \in valuesOf(f) : v # w THEN [is |-> "deny"]
     ELSE IF \E e \in eqs : e.k # "eq" \/ e.f \notin ps THEN [is |-> "ScopeConfigurationError"]
     ELSE [is |-> "bound",
           to |-> [f \in ps |-> IF valuesOf(f) = {} THEN Nil ELSE CHOOSE v \in valuesOf(f) : TRUE]]
\* The documented idiom: (:scopeF IS NULL OR "f" = :scopeF), for every parameter.
\* A scope that pins f to null binds NULL as well, which says that f is free.
RowsBound(b) ==
  IF b.is = "deny" THEN {} ELSE {r \in Rows : \A f \in DOMAIN b.to : b.to[f] \in {Nil, r[f]}}

-----------------------------------------------------------------------------
NotYet == [is |-> "not yet"]
NoQuestion == [op |-> "none"]

Init == RulesInit /\ question = NoQuestion /\ reply = NotYet

\* A request asks for its rows, of the compiled scope and of a source beside it.
Ask(op, who, other) ==
  /\ compiled /\ question = NoQuestion
  /\ question' = [op |-> op, who |-> who, other |-> other]
  /\ reply' = AndScopes(<<ScopeGate(deployment.scope, who, op), other>>)
  /\ UNCHANGED rulesVars

\* The request is over; the bag stands, and the next may ask.
Answered ==
  /\ question # NoQuestion
  /\ question' = NoQuestion /\ reply' = NotYet
  /\ UNCHANGED rulesVars

Next ==
  \/ CompileRules /\ UNCHANGED <<question, reply>>
  \/ Answered
  \/ \E op \in {"read", "create", "update", "delete"}, who \in Principals, other \in OtherScopes :
       Ask(op, who, other)

Spec == Init /\ [][Next]_vars

Asked == question # NoQuestion

-----------------------------------------------------------------------------
TypeOK == /\ deployment \in Deployments
          /\ \A k \in BuildTimeKeys : gates[k].allows \subseteq Arguments(k)
          /\ reply.is \in {"not yet", "deny", "unscoped", "scoped"}

\* The rule itself, read over a row.
DescribesWith(Inner(_), leaf, who, row) ==
  CASE leaf.k = "deny" -> FALSE
    [] leaf.k \in {"none", "absent"} -> TRUE
    [] leaf.k = "own" -> ReadAttr(who, leaf.from) # Nil /\ ReadAttr(who, leaf.from) = row[leaf.field]
    [] leaf.k = "group" -> row[leaf.field] \in MembersOf(who, leaf.from)
    [] leaf.k = "any" -> \E i \in DOMAIN leaf.of : Inner(leaf.of[i])
    [] leaf.k = "all" -> \A i \in DOMAIN leaf.of : Inner(leaf.of[i])
Describes(rule, who, op, row) ==
  LET flat(l) == DescribesWith(LAMBDA x : FALSE, l, who, row)
      once(l) == DescribesWith(flat, l, who, row)
      leaf == LeafForOperation(rule, op)
  IN /\ DescribesWith(once, leaf, who, row)
     /\ who.known \/ leaf.k \in {"none", "absent"}
FiltersSayTheRule ==
  question.op # "create" =>
    Shown(reply) = {r \in Shown(question.other) : Describes(deployment.scope, question.who, question.op, r)}
Enforced(scope) ==
  {r \in Rows : \A e \in ScopeEqualities(scope.where) : e.k = "eq" /\ e.v # Nil => Holds(e, r)}
PinsToNull(scope) == \E e \in ScopeEqualities(scope.where) : e.k = "eq" /\ e.v = Nil
BindingsSayTheFilter ==
  \A ps \in SUBSET UNION {DOMAIN r : r \in Rows} :
    LET b == BindScopeParameters(ps, reply)
    IN b.is # "ScopeConfigurationError" =>
         IF b.is = "bound" /\ PinsToNull(reply) THEN RowsBound(b) = Enforced(reply)
         ELSE RowsBound(b) = Shown(reply)
(* A read, an update or a delete reaches the rows its rule describes for   *)
(* the principal who asks, and of those the ones the other source lets     *)
(* through; nobody known reaches none, unless the rule says so.  A raw     *)
(* query that binds the scope's parameters, by the documented idiom, is    *)
(* refused or returns the same rows: all of them and no others, unless the *)
(* scope pins a field to null.  That binds NULL, which the idiom takes for *)
(* no condition, so the query enforces the rest of the scope only: rows    *)
(* that the scope hides come back.                                         *)
ScopesReachTheirRows == Asked => FiltersSayTheRule /\ BindingsSayTheFilter
=============================================================================
