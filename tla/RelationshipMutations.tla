------------------------- MODULE RelationshipMutations -------------------------
(***************************************************************************)
(* What a mutation nests under the name of an association: the eight verbs *)
(* of packages/ormize/src/relationship-mutations.ts, applied in the order  *)
(* of VERBS to one source row after the other, through the accessors that  *)
(* cross-adapter.ts installs when source and target live in two stores.    *)
(*                                                                         *)
(* A relationship is a bag of pairs source, target.  How often a pair      *)
(* occurs is the number of its join rows for belongsToMany, and 0 or 1     *)
(* where a foreign key stands for it: on the target for hasMany and        *)
(* hasOne, on the source for belongsTo.                                    *)
(*                                                                         *)
(* One mutation runs; what its verbs run concurrently interleaves, and so  *)
(* do the links, if any, that other mutations make through the same join   *)
(* model: they look for a join row, and create one, in two calls as this   *)
(* mutation does.  A write stands for the moment others can read it.       *)
(* A list of entries under a verb is applied entry by entry, so one entry  *)
(* stands for it (set collects before it writes: its filter is the union). *)
(* No hooks, no scope, no limit, no sub-tree under update and select; a    *)
(* call that fails ends the mutation: OrmizeTransaction says what follows. *)
(***************************************************************************)
EXTENDS Naturals, Sequences, FiniteSets

CONSTANTS
  Sources, Targets,   \* rows of the two models; a target is unborn until created
  Tags,               \* values of the column that filters select by
  Nothing,            \* an input none of whose columns may be written
  MaxEdges,           \* bound: join rows of a pair that earlier races left behind
  Inputs,             \* sub-trees: functions from verbs to [where, to]
  MaxRows,            \* bound: verbs of the input plus rows it is applied to
  MaxResidents,       \* bound: target rows that are there at first
  MaxRivals           \* bound: links that other mutations make

ASSUME RelationshipAssumption ==
  /\ Nothing \notin Tags
  /\ MaxEdges \in Nat \ {0} /\ {MaxRows, MaxResidents, MaxRivals} \subseteq Nat
  /\ \A i \in Inputs : \A v \in DOMAIN i :
       i[v].where \subseteq Tags /\ i[v].to \in Tags \cup {Nothing}

VERBS == <<"create", "update", "delete", "remove", "add", "set", "restore", "select">>
Verbs == {VERBS[i] : i \in 1..Len(VERBS)}
Kinds == {"hasMany", "hasOne", "belongsTo", "belongsToMany"}
Pairs == Sources \X Targets

VARIABLES
  kind,       \* the association's type
  paranoid,   \* whether the target model soft-deletes
  inPlace,    \* whether the source's adapter writes an update to the row in hand
  rivals,     \* how many links other mutations make meanwhile
  state, tag, \* the target rows
  links,      \* the bag of pairs
  rows,       \* source rows still to go
  input,      \* the sub-tree
  row, hand,  \* the source row, and where its foreign key in memory points
  turn,       \* index of the verb in VERBS
  at,         \* what is awaited next
  found,      \* rows a query returned and the verb has still to handle
  jobs,       \* concurrent processDelete calls: "find", or rows left
  begun,      \* how many of those links have looked for a join row
  pending,    \* pairs that one of them saw no join row of and will create one for
  raced,      \* history: pairs that two links worked on at once, since it was last unlinked
  before      \* history: the tables when the verb began

tables == <<state, tag, links>>
choices == <<kind, paranoid, inPlace, rivals, input>>
overlap == <<begun, pending, raced>>
Alone == rivals = 0
control == <<rows, row, hand, turn>>
vars == <<choices, overlap, tables, control, at, found, jobs, before>>

Singular == kind \in {"belongsTo", "hasOne"}
KeyOnTarget == kind \in {"hasMany", "hasOne"}
Offered == IF Singular THEN Verbs \ {"add"} ELSE Verbs

Verb == VERBS[turn]
Arg == input[Verb]

Live == {t \in Targets : state[t] = "live"}
Matching == {t \in Live : tag[t] \in Arg.where}
Linked == {t \in Targets : links[<<row, t>>] > 0}

(* A find that returns a list gives all of S, a findOne any one of it.     *)
Gives(S) == IF ~Singular THEN {S} ELSE IF S = {} THEN {{}} ELSE {{t} : t \in S}

(* Mutant: the filter selects from the whole table. *)
AttachedToAny == Targets

(* The relationship's get: belongsTo follows the key of the row in hand,   *)
(* the others ask the store.                                               *)
Attached == IF kind = "belongsTo" THEN hand ELSE Linked

-------------------------------------------------------------------------------
(* The writes.  A foreign key holds one value, so writing it unlinks what  *)
(* it pointed at.                                                          *)
PointTarget(t, sources) ==
  links' = [p \in Pairs |-> IF p[2] # t THEN links[p] ELSE IF p[1] \in sources THEN 1 ELSE 0]

PointSource(targets) ==
  /\ links' = [p \in Pairs |-> IF p[1] # row THEN links[p] ELSE IF p[2] \in targets THEN 1 ELSE 0]
  /\ hand' = IF inPlace THEN targets ELSE hand

DropEdges(targets) ==
  /\ links' = [p \in Pairs |-> IF p[1] = row /\ p[2] \in targets THEN 0 ELSE links[p]]
  /\ raced' = {p \in raced : ~(p[1] = row /\ p[2] \in targets)}

(* The pair that this mutation saw no join row of and will create one for. *)
Asked == {<<row, t>> : t \in {u \in found : at = "join" /\ jobs[u] = {"create"}}}

-------------------------------------------------------------------------------
(* How rows may be linked at first: no key points at a row that is not     *)
(* there, a key has one value, and a slot holds one row that is live.      *)
NoneUnborn(l) == \A s \in Sources, t \in Targets : l[<<s, t>>] > 0 => state[t] # "unborn"
OneSource(l) == \A r, s \in Sources, t \in Targets : l[<<r, t>>] > 0 /\ l[<<s, t>>] > 0 => r = s
OneTarget(l, T) == \A s \in Sources, t, u \in T : l[<<s, t>>] > 0 /\ l[<<s, u>>] > 0 => t = u

LegalLinks ==
  {l \in [Pairs -> 0..(IF kind = "belongsToMany" THEN MaxEdges ELSE 1)] :
     /\ NoneUnborn(l)
     /\ KeyOnTarget => OneSource(l)
     /\ kind = "belongsTo" => OneTarget(l, Targets)
     /\ kind = "hasOne" => OneTarget(l, Live)}

Init ==
  /\ kind \in Kinds /\ paranoid \in BOOLEAN
  /\ inPlace \in (IF kind = "belongsTo" THEN BOOLEAN ELSE {TRUE})
  /\ rivals \in (IF kind = "belongsToMany" THEN 0..MaxRivals ELSE {0})
  /\ state \in [Targets -> IF paranoid THEN {"unborn", "live", "dead"} ELSE {"unborn", "live"}]
  /\ Cardinality({t \in Targets : state[t] # "unborn"}) <= MaxResidents
  /\ tag \in {g \in [Targets -> Tags] : \A t \in Targets : state[t] = "unborn" => g[t] = CHOOSE x \in Tags : TRUE}
  /\ links \in LegalLinks
  /\ input \in {i \in Inputs : DOMAIN i \subseteq Offered}
  /\ rows \in {R \in SUBSET Sources : R # {} /\ Cardinality(R) + Cardinality(DOMAIN input) <= MaxRows}
  /\ "create" \in DOMAIN input => Cardinality(rows) <= Cardinality({t \in Targets : state[t] = "unborn"})
  /\ row \in rows /\ hand = {} /\ turn = 0 /\ at = "rows"
  /\ found = {} /\ jobs = [t \in Targets |-> {}]
  /\ begun = 0 /\ pending = {} /\ raced = {p \in Pairs : links[p] > 1}
  /\ before = [state |-> state, tag |-> tag, links |-> links]

(* The next row of waterfall(results), with the key it was read with. *)
NextRow ==
  /\ at = "rows"
  /\ \E r \in rows :
       /\ row' = r /\ rows' = rows \ {r}
       /\ hand' = {t \in Targets : links[<<r, t>>] > 0}
  /\ turn' = 0 /\ at' = "verb"
  /\ UNCHANGED <<choices, overlap, tables, found, jobs, before>>

(* Where a verb starts.  The singular remove looks nothing up. *)
First(v) ==
  IF v = "create" THEN "create"
  ELSE IF v = "remove" /\ Singular THEN "replace"
  ELSE IF v \in {"remove", "add", "set"} THEN "find"
  ELSE "related"

NextVerb ==
  /\ at = "verb"
  /\ LET later == {i \in (turn + 1)..Len(VERBS) : VERBS[i] \in DOMAIN input} IN
     \/ later = {} /\ at' = "rows" /\ UNCHANGED <<turn, before>>
     \/ \E i \in later :
          /\ \A j \in later : i <= j
          /\ turn' = i /\ at' = First(VERBS[i])
          /\ before' = [state |-> state, tag |-> tag, links |-> links]
  /\ found' = {}
  /\ UNCHANGED <<choices, overlap, tables, rows, row, hand, jobs>>

-------------------------------------------------------------------------------
(* applyCreate: processCreate returns no row when no column is left to     *)
(* write; a list is added to, a single slot set.                           *)
CreateTarget ==
  /\ at = "create"
  /\ \/ Arg.to = Nothing /\ found' = {} /\ UNCHANGED <<state, tag>>
     \/ Arg.to # Nothing
        /\ \E t \in Targets :
             /\ state[t] = "unborn"
             /\ state' = [state EXCEPT ![t] = "live"]
             /\ tag' = [tag EXCEPT ![t] = Arg.to]
             /\ found' = {t}
  /\ at' = IF Singular THEN "replace" ELSE "link"
  /\ UNCHANGED <<choices, overlap, links, control, jobs, before>>

(* update, delete, restore and select reach the rows through get. *)
GetRelated ==
  /\ at = "related"
  /\ LET seen == IF Verb = "restore" THEN {"live", "dead"} ELSE {"live"}
         all == {t \in Attached : state[t] \in seen /\ tag[t] \in Arg.where} IN
     \E got \in Gives(all) :
       /\ found' = IF Verb = "restore" THEN {t \in got : state[t] = "dead"} ELSE got
       /\ jobs' = [t \in Targets |-> IF Verb = "delete" /\ t \in got THEN {"find"} ELSE {}]
  /\ at' = IF Verb = "select" THEN "verb" ELSE Verb
  /\ UNCHANGED <<choices, overlap, tables, control, before>>

(* remove, add and set look for the filter in the whole target table. *)
FindByFilter ==
  /\ at = "find"
  /\ found' \in Gives(Matching)
  /\ at' = IF Verb = "set" THEN "replace"
           ELSE IF found' = {} THEN "verb"
           ELSE IF Verb = "add" THEN "link"
           ELSE "unlink"
  /\ UNCHANGED <<choices, overlap, tables, control, jobs, before>>

(* One of the updates of Promise.all. *)
UpdateOne ==
  /\ at = "update" /\ found # {}
  /\ \E t \in found :
       /\ tag' = IF Arg.to = Nothing THEN tag ELSE [tag EXCEPT ![t] = Arg.to]
       /\ found' = found \ {t}
  /\ UNCHANGED <<choices, overlap, state, links, control, at, jobs, before>>

(* Each related row has a processDelete of its own, called with the whole  *)
(* filter: it finds all rows that match, and deletes one after the other.  *)
DeleteFind(t) ==
  /\ at = "delete" /\ jobs[t] = {"find"}
  /\ jobs' = [jobs EXCEPT ![t] = Matching]
  /\ found' = IF Matching = {} THEN found \ {t} ELSE found
  /\ UNCHANGED <<choices, overlap, tables, control, at, before>>

DeleteOne(t) ==
  /\ at = "delete" /\ jobs[t] \notin {{}, {"find"}}
  /\ \E u \in jobs[t] :
       /\ state' = [state EXCEPT ![u] = IF paranoid THEN "dead" ELSE "gone"]
       /\ IF KeyOnTarget /\ ~paranoid THEN PointTarget(u, {}) ELSE UNCHANGED links
       /\ jobs' = [jobs EXCEPT ![t] = @ \ {u}]
       /\ found' = IF jobs[t] = {u} THEN found \ {t} ELSE found
  /\ UNCHANGED <<choices, overlap, tag, control, at, before>>

RestoreOne ==
  /\ at = "restore" /\ found # {}
  /\ \E t \in found :
       /\ state' = [state EXCEPT ![t] = "live"]
       /\ found' = found \ {t}
  /\ UNCHANGED <<choices, overlap, tag, links, control, at, jobs, before>>

-------------------------------------------------------------------------------
(* Mutants: set lets nothing go; set lets everything go. *)
StaysAlways(t) == TRUE
StaysNever(t) == FALSE

(* set does not let go what it is going to link. *)
Stays(t) == t \in found

(* The set accessor.  belongsTo writes the source's key, belongsToMany     *)
(* drops every join row and links again, hasMany and hasOne unlink what    *)
(* get returns and set does not name, row by row, and then link.           *)
Replace ==
  /\ at = "replace"
  /\ \/ kind = "belongsTo" /\ PointSource(found)
        /\ at' = "verb" /\ UNCHANGED <<raced, jobs>>
     \/ kind = "belongsToMany" /\ DropEdges(Targets)
        /\ at' = "link" /\ UNCHANGED <<hand, jobs>>
     \/ KeyOnTarget
        /\ \E got \in Gives(Linked \cap Live) :
             jobs' = [t \in Targets |-> IF t \in got /\ ~Stays(t) THEN {"drop"} ELSE {}]
        /\ at' = "drop" /\ UNCHANGED <<raced, links, hand>>
  /\ UNCHANGED <<choices, begun, pending, state, tag, rows, row, turn, found, before>>

DropOne ==
  /\ at = "drop"
  /\ \E t \in Targets :
       /\ jobs[t] = {"drop"}
       /\ PointTarget(t, {})
       /\ jobs' = [jobs EXCEPT ![t] = {}]
  /\ UNCHANGED <<choices, overlap, state, tag, control, at, found, before>>

Dropped ==
  /\ at = "drop" /\ \A t \in Targets : jobs[t] = {}
  /\ at' = "link"
  /\ UNCHANGED <<choices, overlap, tables, control, found, jobs, before>>

(* link of a key on the target. *)
LinkOne ==
  /\ at = "link" /\ KeyOnTarget
  /\ \E t \in found : PointTarget(t, {row}) /\ found' = found \ {t}
  /\ UNCHANGED <<choices, overlap, state, tag, control, at, jobs, before>>

(* Mutant: link does not look for a join row before it creates one. *)
LookForNone ==
  /\ at = "link" /\ kind = "belongsToMany"
  /\ \E t \in found :
       /\ at' = "join"
       /\ jobs' = [u \in Targets |-> IF u = t THEN {"create"} ELSE {}]
       /\ raced' = raced \cup ({<<row, t>>} \cap pending)
  /\ UNCHANGED <<choices, begun, pending, tables, control, found, before>>

(* link of a join row, target by target: look whether there is one ...     *)
LookForEdge ==
  /\ at = "link" /\ kind = "belongsToMany"
  /\ \E t \in found :
       \/ links[<<row, t>>] > 0 /\ found' = found \ {t} /\ UNCHANGED <<at, jobs, raced>>
       \/ links[<<row, t>>] = 0 /\ at' = "join" /\ UNCHANGED found
          /\ jobs' = [u \in Targets |-> IF u = t THEN {"create"} ELSE {}]
          /\ raced' = raced \cup ({<<row, t>>} \cap pending)
  /\ UNCHANGED <<choices, begun, pending, tables, control, before>>

(* ... and, awaited in turn, create it.                                    *)
CreateEdge ==
  /\ at = "join"
  /\ \E t \in found :
       /\ jobs[t] = {"create"}
       /\ links' = [links EXCEPT ![<<row, t>>] = @ + 1]
       /\ found' = found \ {t}
  /\ jobs' = [t \in Targets |-> {}] /\ at' = "link"
  /\ UNCHANGED <<choices, overlap, state, tag, control, before>>

(* Another mutation's link of the pair p: the same two calls.  One that    *)
(* finds a join row changes nothing.                                       *)
RivalLooks(p) ==
  /\ begun < rivals /\ begun' = begun + 1 /\ p \notin pending
  /\ state[p[2]] # "unborn" /\ links[p] = 0
  /\ pending' = pending \cup {p}
  /\ raced' = raced \cup ({p} \cap Asked)
  /\ UNCHANGED <<choices, tables, control, at, found, jobs, before>>

RivalCreates(p) ==
  /\ p \in pending
  /\ links' = [links EXCEPT ![p] = @ + 1]
  /\ pending' = pending \ {p}
  /\ UNCHANGED <<choices, state, tag, control, at, found, jobs, begun, raced, before>>

(* removeMultiple: a key is nulled row by row, join rows go by filter. *)
Unlink ==
  /\ at = "unlink" /\ found # {}
  /\ \/ KeyOnTarget /\ (\E t \in found : PointTarget(t, {}) /\ found' = found \ {t})
        /\ UNCHANGED raced
     \/ ~KeyOnTarget /\ DropEdges(found) /\ found' = {}
  /\ UNCHANGED <<choices, begun, pending, state, tag, control, at, jobs, before>>

VerbEnds ==
  /\ at \in {"update", "delete", "restore", "link", "unlink"} /\ found = {}
  /\ at' = "verb"
  /\ UNCHANGED <<choices, overlap, tables, control, found, jobs, before>>

MutationEnded == at = "rows" /\ rows = {} /\ UNCHANGED vars

Next ==
  \/ NextRow \/ NextVerb \/ VerbEnds \/ MutationEnded
  \/ CreateTarget \/ GetRelated \/ FindByFilter
  \/ UpdateOne \/ RestoreOne \/ Replace \/ DropOne \/ Dropped \/ LinkOne \/ Unlink
  \/ LookForEdge \/ CreateEdge
  \/ \E p \in Pairs : RivalLooks(p) \/ RivalCreates(p)
  \/ \E t \in Targets : DeleteFind(t) \/ DeleteOne(t)

Spec == Init /\ [][Next]_vars
-------------------------------------------------------------------------------
(* What a verb is for, as one step on a table of links.  A table is shown  *)
(* by its rows and the links to rows that are not deleted.                 *)
Shows(st, tg, pairs) ==
  [rows |-> {<<t, st[t], tg[t]>> : t \in {u \in Targets : st[u] # "unborn"}},
   linked |-> {p \in pairs : st[p[2]] = "live"}]

Now == Shows(state, tag, {p \in Pairs : links[p] > 0})

WasLinked == {p \in Pairs : before.links[p] > 0}
WasOwn == {t \in Targets : <<row, t>> \in WasLinked}
Was(s) == {t \in Targets : before.state[t] = s}
Named == {t \in Targets : before.tag[t] \in Arg.where}

(* The links once row is linked to T: a foreign key on a target leaves its *)
(* former source, and a single slot holds one row.                         *)
Joined(pairs, T) ==
  {p \in pairs : ~(KeyOnTarget /\ p[2] \in T) /\ ~(Singular /\ p[1] = row)} \cup ({row} \X T)

With(f, T, v) == [t \in Targets |-> IF t \in T THEN v ELSE f[t]]

Promised ==
  LET st == before.state
      tg == before.tag
      own == WasOwn \cap Was("live") \cap Named
      others == {p \in WasLinked : p[1] # row} IN
  CASE Verb = "create" ->
         {Shows(With(st, {t}, "live"), With(tg, {t}, Arg.to), Joined(WasLinked, {t})) : t \in Was("unborn")}
    [] Verb = "update" ->
         {Shows(st, IF Arg.to = Nothing THEN tg ELSE With(tg, own, Arg.to), WasLinked)}
    [] Verb = "add" -> {Shows(st, tg, Joined(WasLinked, Was("live") \cap Named))}
    [] Verb = "set" -> {Shows(st, tg, Joined(others, T)) : T \in Gives(Was("live") \cap Named)}
    [] Verb = "restore" ->
         {Shows(With(st, T \cap Was("dead"), "live"), tg, WasLinked) :
            T \in Gives((WasOwn \ Was("unborn")) \cap Named)}
    [] Verb = "select" -> {Shows(st, tg, WasLinked)}
    [] OTHER -> {}

VerbEnded == at = "verb" /\ turn > 0

(* Type invariant. *)
TypeOK ==
  /\ kind \in Kinds /\ {paranoid, inPlace} \subseteq BOOLEAN /\ rivals \in Nat /\ input \in Inputs
  /\ state \in [Targets -> {"unborn", "live", "dead", "gone"}] /\ tag \in [Targets -> Tags]
  /\ links \in [Pairs -> Nat] /\ begun \in Nat /\ {pending, raced} \subseteq SUBSET Pairs
  /\ rows \subseteq Sources /\ row \in Sources /\ hand \subseteq Targets
  /\ turn \in 0..Len(VERBS)
  /\ at \in {"rows", "verb", "create", "related", "find", "update", "delete", "restore",
             "replace", "drop", "link", "join", "unlink"}
  /\ found \subseteq Targets
  /\ jobs \in [Targets -> SUBSET (Targets \cup {"find", "drop", "create"})]

(* Whatever the order of its calls, when create, update, add, set, restore *)
(* or select ends, the tables are what the verb promises, and nothing else *)
(* has changed: each verb acts on what the verbs before it left.  That     *)
(* needs the row in hand to follow its own updates, no mutation that links *)
(* rows meanwhile, and a create that has a value (one that has none        *)
(* empties a single slot).  delete and remove take from the row's own      *)
(* collection the rows that the filter names, and leave it the others.     *)
VerbsDoWhatTheySay ==
  VerbEnded /\ inPlace /\ Alone =>
    IF Verb \in {"delete", "remove"}
    THEN LET own == WasOwn \cap Was("live") IN
         Linked \cap Live = IF Verb = "remove" /\ Singular THEN {} ELSE own \ Named
    ELSE Now \in Promised \/ (Verb = "create" /\ Arg.to = Nothing)

(* A single slot is never seen to hold two rows, unless a soft-deleted one *)
(* is brought back: what held it is let go before the next one is linked.  *)
OneAtATime ==
  kind = "hasOne" /\ ~paranoid => OneTarget(links, Live)

(* A pair has a second join row only where two links of it overlapped, one *)
(* looking before the other had created, since the pair was last unlinked: *)
(* whatever the verbs, their order and the rows others link meanwhile, no  *)
(* link alone doubles a pair, and an unlink takes every double.            *)
NoSecondEdge ==
  \A p \in Pairs : links[p] > 1 => p \in raced

(* While set replaces a collection whose key is on the targets, the rows   *)
(* that stay in it are not let go, not even in between.                    *)
StayingIsUninterrupted ==
  [][kind = "hasMany" /\ turn > 0 /\ turn' = turn /\ Verb = "set" /\ at' # "verb" =>
       \A t \in Linked : t \notin Linked' => tag[t] \notin Arg.where]_vars
===============================================================================
