---------------------------- MODULE PermissionRules ----------------------------
(***************************************************************************)
(* The boolean gates of createRoleBasedPermissions: one role's rules,      *)
(* merged over the defaults and compiled into the bag of predicates the    *)
(* gates read (utilize/src/permissions.ts).  A rules node is the decision  *)
(* it makes for everything below it, or "none" and the nodes below;        *)
(* "absent" is a key the tree does not have.                               *)
(***************************************************************************)
EXTENDS Gate

CONSTANTS Model, Name,    \* models, and the names of fields, methods and relations
          Deployments     \* [role, defaults, defaultDeny, ...]: trees of rules, or Bare
                          \* for a role that is a string

VARIABLES deployment,     \* the role's tree, the defaults, defaultDeny
          gates,          \* the compiled predicates
          compiled        \* whether they have been

rulesVars == <<deployment, gates, compiled>>

Opinions == {"allow", "deny"}
Decisions == Opinions \cup {"none"}

\* The first of a sequence of decisions that is an opinion.
FirstOpinion(ds) ==
  IF \E i \in DOMAIN ds : ds[i] \in Opinions
  THEN ds[CHOOSE i \in DOMAIN ds : ds[i] \in Opinions /\ \A j \in 1 .. i - 1 : ds[j] \notin Opinions]
  ELSE "none"

DecideOne(node, a) == FirstOpinion(<<node.all, node.on[a].all>>)
DecideTwo(node, m, n) == FirstOpinion(<<node.all, node.on[m].all, node.on[m].on[n]>>)

\* The rules keys that feed each gate, in the order they are asked.
OneArgGates == [k \in OneArgKeys |->
  IF k \in {"queryExtension", "mutationExtension"} THEN <<k, "extensions">> ELSE <<k>>]
\* As shipped once: no map mentions the instance methods that write.
TwoArgGatesForgetful == [k \in TwoArgKeys \ {"mutationInstanceMethods"} |->
  IF k \in {"mutationCreateInput", "mutationUpdateInput"} THEN <<k, "field">> ELSE <<k>>]
TwoArgGates == [k \in TwoArgKeys |->
  IF k \in {"mutationCreateInput", "mutationUpdateInput"} THEN <<k, "field">> ELSE <<k>>]
RuleKeys == BuildTimeKeys \cup {"extensions"}

Unsaid == [all |-> "none", on |-> [n \in Name |-> "none"]]
AbsentNode == [all |-> "absent", on |-> [m \in Model |-> Unsaid]]
IsMap(node) == node.all = "none"
EmptyTree == [k \in RuleKeys |-> AbsentNode]
Bare == <<>>   \* a role that is a string, or unknown, has no rules

\* What is not a map has nothing below it.
ModelNodes == {x \in [all : Decisions, on : [Name -> Decisions]] : x.all # "none" => x.on = Unsaid.on}
Nodes == {x \in [all : Decisions \cup {"absent"}, on : [Model -> ModelNodes]] : ~ IsMap(x) => x.on = AbsentNode.on}
Trees == [RuleKeys -> Nodes]
ASSUME RulesAssumption ==
  \A d \in Deployments : d.role \in Trees \cup {Bare} /\ d.defaults \in Trees /\ d.defaultDeny \in BOOLEAN

\* deepmerge: maps are merged, and what is not a map replaces what it is laid over.
MergedNode(d, r) ==
  IF r.all = "absent" THEN d
  ELSE IF ~ IsMap(r) \/ ~ IsMap(d) THEN r
  ELSE [r EXCEPT !.on = [m \in Model |->
         IF r.on[m].all # "none" \/ d.on[m].all # "none"
         THEN IF r.on[m] = Unsaid THEN d.on[m] ELSE r.on[m]
         ELSE [all |-> "none",
               on |-> [n \in Name |-> FirstOpinion(<<r.on[m].on[n], d.on[m].on[n]>>)]]]]
CompiledRules(role, defaults) ==
  IF role = Bare THEN EmptyTree ELSE [k \in RuleKeys |-> MergedNode(defaults[k], role[k])]

\* A gate: absent, closed, or what its chain of rules decides.
Arguments(k) == IF k \in OneArgKeys THEN Model ELSE Model \X Name
Decide(k, node, a) == IF k \in OneArgKeys THEN DecideOne(node, a) ELSE DecideTwo(node, a[1], a[2])
BuildGate(rules, k, chain, defaultDeny) ==
  LET mentioned == {i \in DOMAIN chain : rules[chain[i]].all # "absent"}
      decided(a) == FirstOpinion([i \in DOMAIN chain |->
                                    IF i \in mentioned THEN Decide(k, rules[chain[i]], a) ELSE "none"])
  IN IF mentioned = {} THEN (IF defaultDeny THEN Predicate({}) ELSE Absent)
     ELSE Predicate({a \in Arguments(k) : IF decided(a) = "none" THEN ~ defaultDeny ELSE decided(a) = "allow"})

CreateRoleBasedPermissions(role, defaults, defaultDeny) ==
  LET rules == CompiledRules(role, defaults)
  IN [k \in BuildTimeKeys |->
        CASE k \in DOMAIN OneArgGates -> BuildGate(rules, k, OneArgGates[k], defaultDeny)
          [] k \in DOMAIN TwoArgGates -> BuildGate(rules, k, TwoArgGates[k], defaultDeny)
          [] OTHER -> Absent]

-----------------------------------------------------------------------------
RulesInit == deployment \in Deployments /\ gates = OpenBag /\ compiled = FALSE

\* The deployment builds its bag, once.
CompileRules ==
  /\ ~ compiled
  /\ gates' = CreateRoleBasedPermissions(deployment.role, deployment.defaults, deployment.defaultDeny)
  /\ compiled' = TRUE
  /\ UNCHANGED deployment

RulesSpec == RulesInit /\ [][CompileRules]_rulesVars

-----------------------------------------------------------------------------
\* The rules keys a gate listens to, and what the role's own tree says.
FedBy(k) == CASE k \in {"queryExtension", "mutationExtension"} -> {k, "extensions"}
              [] k \in {"mutationCreateInput", "mutationUpdateInput"} -> {k, "field"}
              [] OTHER -> {k}
RoleTree == IF deployment.role = Bare THEN EmptyTree ELSE deployment.role

(* Under defaultDeny no surface opens that no rule of the role or of the   *)
(* defaults allows.                                                        *)
NothingOpensByItself ==
  deployment.defaultDeny =>
    \A k \in BuildTimeKeys : \A a \in Arguments(k) :
      IsAllowed(gates[k], a) => \E key \in FedBy(k), tree \in {RoleTree, deployment.defaults} :
                                  Decide(k, tree[key], a) = "allow"
(* What the role itself says of a gate stands: no default, blanket or      *)
(* fallback key overrides it, in either direction.                         *)
OwnRuleStands ==
  \A k \in BuildTimeKeys : \A a \in Arguments(k) :
    Decide(k, RoleTree[k], a) \in Opinions =>
      (IsAllowed(gates[k], a) <=> Decide(k, RoleTree[k], a) = "allow")
(* Without defaultDeny no surface closes that no rule denies.              *)
NothingClosesByItself ==
  ~ deployment.defaultDeny =>
    \A k \in BuildTimeKeys : \A a \in Arguments(k) :
      (\A key \in FedBy(k), tree \in {RoleTree, deployment.defaults} :
         Decide(k, tree[key], a) # "deny") => IsAllowed(gates[k], a)
(* The compiled bag is what the rules say (permissions.ts:175-185 tells of *)
(* a gate no map mentioned, open while it looked closed).                  *)
GatesFollowTheRules ==
  compiled => NothingOpensByItself /\ OwnRuleStands /\ NothingClosesByItself
=============================================================================
