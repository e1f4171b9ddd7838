---------------------------- MODULE MCPermissions ----------------------------
EXTENDS Permissions

CONSTANTS User, Post

Blanket(d) == [AbsentNode EXCEPT !.all = d]
ForUser(d) == [AbsentNode EXCEPT !.all = "none", !.on[User].all = d]
ForName(d) == [AbsentNode EXCEPT !.all = "none", !.on[User].on = [n \in Name |-> IF n = "x" THEN d ELSE "none"]]
SomeNodes == {AbsentNode, Blanket("allow"), Blanket("deny"), ForUser("allow"), ForUser("deny"),
          ForName("allow"), ForName("deny")}
Second(k) == CASE k \in {"queryExtension", "mutationExtension"} -> "extensions"
               [] k \in {"mutationCreateInput", "mutationUpdateInput"} -> "field"
               [] OTHER -> "model"
OneKey == {[EmptyTree EXCEPT ![k] = n, ![Second(k)] = o] : k \in RuleKeys, n \in SomeNodes, o \in {AbsentNode, ForUser("allow")}}
Everywhere(n) == [k \in RuleKeys |-> n]
Open == [k |-> "none"]
GateDeployments == [role : OneKey \cup {Bare}, defaultDeny : BOOLEAN, scope : {Open},
                    defaults : {EmptyTree, Everywhere(ForName("deny")), Everywhere(ForUser("allow"))}]

Own == [k |-> "own", field |-> "owner", from |-> "id"]
Tenant == [k |-> "own", field |-> "group", from |-> "tenant"]
OwnOfTenant == [k |-> "own", field |-> "owner", from |-> "tenant"]
Group == [k |-> "group", field |-> "group", from |-> "groups"]
Closed == [k |-> "deny"]
Simple == {Own, Tenant, OwnOfTenant, Group, Open, Closed}
Combined == {[k |-> k, of |-> <<a, b>>] : k \in {"any", "all"}, a, b \in Simple}
Nested == {[k |-> "any", of |-> <<[k |-> "all", of |-> <<Own, Group>>], Tenant>>],
           [k |-> "all", of |-> <<[k |-> "any", of |-> <<Own, Group>>], OwnOfTenant>>],
           [k |-> "all", of |-> <<[k |-> "all", of |-> <<Own, Tenant>>], Closed>>]}
PerOp == {[k |-> "ops", by |-> [read |-> Open, write |-> Own]],
          [k |-> "ops", by |-> [write |-> Closed, update |-> Group]]}
ScopeDeployments == [role : {Bare}, defaultDeny : {TRUE}, defaults : {EmptyTree},
                     scope : Simple \cup Combined \cup Nested \cup PerOp]

MCModel == {User, Post}
MCName == {"x", "y"}
MCDeployments == GateDeployments \cup ScopeDeployments
MCPrincipals == {NoPrincipal} \cup
  [known : {TRUE}, has : {[id |-> 1, tenant |-> Nil, groups |-> {}], [id |-> 1, tenant |-> 2, groups |-> {1, 2}],
                          [id |-> Nil, tenant |-> 1, groups |-> {2}]}]
\* Rows that belong to nobody among them, and a source that asks for just these.
MCRows == [owner : {Nil, 1, 2}, group : 1 .. 2]
MCOtherScopes == {Unscoped, Deny, Scoped([k |-> "eq", f |-> "owner", v |-> 2], <<>>),
                  Scoped([k |-> "eq", f |-> "owner", v |-> Nil], <<>>),
                  Scoped(Everything, "owner" :> 2)}
=============================================================================
