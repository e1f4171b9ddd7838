---------------------- MODULE RelationshipMutationsProofs ----------------------
(* Theorems about RelationshipMutations. *)
EXTENDS RelationshipMutations, TLAPS

(* While a verb runs it is one that was asked for.  Join rows are looked   *)
(* for, by this mutation or others, for belongsToMany only.                *)
Running ==
  /\ DOMAIN input \subseteq Offered
  /\ at \notin {"rows", "verb"} => turn \in 1..Len(VERBS) /\ Verb \in DOMAIN input
  /\ at = "related" => Verb \in {"update", "delete", "restore", "select"}
  /\ kind # "belongsToMany" => Alone /\ at # "join"
  /\ Alone => pending = {}

(* Keys point at rows that exist, and none shares its slot.                *)
Keys == OneTarget(links, Live) /\ OneSource(links) /\ NoneUnborn(links)

(* The slot of a hasOne whose targets are deleted for good: nothing is to  *)
(* be restored, what set has still to link is one row at most, and what    *)
(* else holds the slot is about to be let go.                              *)
Slot ==
  /\ Keys
  /\ \A t \in Targets : state[t] # "dead"
  /\ at = "restore" => found = {}
  /\ at \in {"replace", "drop", "link"} =>
       \A t, u \in found : t = u /\ state[t] # "unborn"
  /\ at = "drop" => \A t \in Linked \cap Live : t \in found \/ jobs[t] = {"drop"}
  /\ at = "link" => \A t \in Linked \cap Live, u \in found : t = u

IInv == TypeOK /\ Running /\ (kind = "hasOne" /\ ~paranoid => Slot)

-------------------------------------------------------------------------------
(* There are eight verbs, and those of an input have a filter and a value. *)
LEMMA VerbFacts ==
  /\ Len(VERBS) = 8
  /\ \A i \in 1..8 : VERBS[i] \in Verbs
BY DEF VERBS, Verbs

LEMMA ArgTyped ==
  ASSUME TypeOK, Verb \in DOMAIN input
  PROVE  Arg.to \in Tags \cup {Nothing}
BY RelationshipAssumption DEF TypeOK, Arg

(* What a find returns is among what it was asked for. *)
LEMMA GivesSome ==
  ASSUME NEW S, NEW g \in Gives(S)
  PROVE  /\ g \subseteq S
         /\ Singular => \A t, u \in g : t = u
BY DEF Gives

(* The writes keep the bag a bag. *)
LEMMA WritesTyped ==
  ASSUME TypeOK, NEW T, NEW p \in Pairs
  PROVE  /\ PointTarget(p[2], T) => links' \in [Pairs -> Nat]
         /\ PointSource(T) => links' \in [Pairs -> Nat]
         /\ DropEdges(T) => links' \in [Pairs -> Nat] /\ raced' \subseteq Pairs
         /\ links' = [links EXCEPT ![p] = @ + 1] => links' \in [Pairs -> Nat]
<1>1. links \in [Pairs -> Nat] /\ raced \subseteq Pairs BY DEF TypeOK
<1>2. PointTarget(p[2], T) => links' \in [Pairs -> Nat] BY <1>1 DEF PointTarget
<1>3. PointSource(T) => links' \in [Pairs -> Nat] BY <1>1 DEF PointSource
<1>4. DropEdges(T) => links' \in [Pairs -> Nat] /\ raced' \subseteq Pairs BY <1>1 DEF DropEdges
<1>5. links' = [links EXCEPT ![p] = @ + 1] => links' \in [Pairs -> Nat] BY <1>1
<1> QED BY <1>2, <1>3, <1>4, <1>5

LEMMA PointTargetTyped ==
  ASSUME TypeOK, NEW T, NEW t, PointTarget(t, T)
  PROVE  links' \in [Pairs -> Nat]
BY DEF PointTarget, TypeOK

-------------------------------------------------------------------------------
(* A step keeps every variable in its type and runs a verb of the input.   *)
LEMMA TypeStep ==
  ASSUME TypeOK, Running, [Next]_vars
  PROVE  TypeOK' /\ Running'
<1> USE VerbFacts
<1>1. CASE NextRow
  BY <1>1 DEF NextRow, TypeOK, Running, Alone, choices, overlap, tables, Offered, Singular
<1>2. CASE NextVerb
  <2>1. /\ turn' \in 0..8 /\ at' # "related" => at' \in {"rows", "create", "replace", "find"}
        /\ at' # "rows" => turn' \in 1..8 /\ VERBS[turn'] \in DOMAIN input /\ at' = First(VERBS[turn'])
    BY <1>2 DEF NextVerb, First, TypeOK
  <2>2. at' = "related" => VERBS[turn'] \in {"update", "delete", "restore", "select"}
    <3> SUFFICES ASSUME at' = "related"
                 PROVE  VERBS[turn'] \in {"update", "delete", "restore", "select"}
      OBVIOUS
    <3>1. VERBS[turn'] \in {"update", "delete", "restore", "select", "create", "remove", "add", "set"}
      BY <2>1 DEF Verbs, VERBS
    <3> QED BY <2>1, <3>1 DEF First
  <2>3. at' # "verb" BY <2>1 DEF First
  <2> QED BY <1>2, <2>1, <2>2, <2>3 DEF NextVerb, TypeOK, Running, Alone, choices, overlap, tables, Verb, Offered, Singular
<1>3. CASE CreateTarget
  <2>1. Arg.to \in Tags \cup {Nothing} BY <1>3, ArgTyped DEF CreateTarget, Running
  <2> QED BY <1>3, <2>1 DEF CreateTarget, TypeOK, Running, Alone, choices, overlap, control, Verb, Offered, Singular
<1>4. CASE GetRelated
  <2>1. found' \subseteq Targets
    <3>1. Attached \subseteq Targets BY DEF Attached, Linked, TypeOK
    <3> QED BY <1>4, <3>1, GivesSome DEF GetRelated
  <2>2. jobs' \in [Targets -> SUBSET (Targets \cup {"find", "drop", "create"})] BY <1>4 DEF GetRelated
  <2>3. at' \in {"verb", "update", "delete", "restore"} BY <1>4 DEF GetRelated, Running
  <2> QED BY <1>4, <2>1, <2>2, <2>3 DEF GetRelated, TypeOK, Running, Alone, choices, overlap, tables, control, Verb, Offered, Singular
<1>5. CASE FindByFilter
  <2>1. found' \subseteq Targets BY <1>5, GivesSome DEF FindByFilter, Matching, Live
  <2>2. at' \in {"replace", "verb", "link", "unlink"} BY <1>5 DEF FindByFilter
  <2> QED BY <1>5, <2>1, <2>2 DEF FindByFilter, TypeOK, Running, Alone, choices, overlap, tables, control, Verb, Offered, Singular
<1>6. CASE UpdateOne
  <2>1. Arg.to \in Tags \cup {Nothing} BY <1>6, ArgTyped DEF UpdateOne, Running
  <2> QED BY <1>6, <2>1 DEF UpdateOne, TypeOK, Running, Alone, choices, overlap, control, Verb, Offered, Singular
<1>7. CASE RestoreOne
  BY <1>7 DEF RestoreOne, TypeOK, Running, Alone, choices, overlap, control, Verb, Offered, Singular
<1>8. CASE Replace
  <2>1. links' \in [Pairs -> Nat] /\ hand' \subseteq Targets /\ raced' \subseteq Pairs
    <3>1. CASE kind = "belongsTo"
      BY <1>8, <3>1 DEF Replace, PointSource, TypeOK, KeyOnTarget
    <3>2. CASE kind # "belongsTo"
      BY <1>8, <3>2 DEF Replace, DropEdges, TypeOK
    <3> QED BY <3>1, <3>2
  <2>2. jobs' \in [Targets -> SUBSET (Targets \cup {"find", "drop", "create"})]
    BY <1>8 DEF Replace, TypeOK
  <2>3. at' \in {"verb", "link", "drop"} BY <1>8 DEF Replace
  <2> QED BY <1>8, <2>1, <2>2, <2>3 DEF Replace, TypeOK, Running, Alone, choices, overlap, Verb, Offered, Singular
<1>9. CASE DropOne
  <2>1. links' \in [Pairs -> Nat] BY <1>9, PointTargetTyped DEF DropOne
  <2> QED BY <1>9, <2>1 DEF DropOne, TypeOK, Running, Alone, choices, overlap, control, Verb, Offered, Singular
<1>10. CASE Dropped
  BY <1>10 DEF Dropped, TypeOK, Running, Alone, choices, overlap, tables, control, Verb, Offered, Singular
<1>11. CASE LinkOne
  <2>1. links' \in [Pairs -> Nat] BY <1>11, PointTargetTyped DEF LinkOne
  <2> QED BY <1>11, <2>1 DEF LinkOne, TypeOK, Running, Alone, choices, overlap, control, Verb, Offered, Singular
<1>12. CASE Unlink
  <2>1. links' \in [Pairs -> Nat] /\ raced' \subseteq Pairs
    <3>1. CASE KeyOnTarget BY <1>12, <3>1, PointTargetTyped DEF Unlink, TypeOK
    <3>2. CASE ~KeyOnTarget BY <1>12, <3>2 DEF Unlink, DropEdges, TypeOK
    <3> QED BY <3>1, <3>2
  <2> QED BY <1>12, <2>1 DEF Unlink, TypeOK, Running, Alone, choices, overlap, control, Verb, Offered, Singular
<1>13. ASSUME NEW t \in Targets, DeleteFind(t) PROVE TypeOK' /\ Running'
  BY <1>13 DEF DeleteFind, Matching, Live, TypeOK, Running, Alone, choices, overlap, tables, control, Verb, Offered, Singular
<1>14. ASSUME NEW t \in Targets, DeleteOne(t) PROVE TypeOK' /\ Running'
  <2>1. PICK u \in jobs[t] :
          /\ state' = [state EXCEPT ![u] = IF paranoid THEN "dead" ELSE "gone"]
          /\ IF KeyOnTarget /\ ~paranoid THEN PointTarget(u, {}) ELSE UNCHANGED links
          /\ jobs' = [jobs EXCEPT ![t] = @ \ {u}]
          /\ found' = IF jobs[t] = {u} THEN found \ {t} ELSE found
    BY <1>14 DEF DeleteOne
  <2>2. links' \in [Pairs -> Nat]
    BY <2>1 DEF PointTarget, TypeOK
  <2>3. jobs' \in [Targets -> SUBSET (Targets \cup {"find", "drop", "create"})] BY <2>1 DEF TypeOK
  <2>4. state' \in [Targets -> {"unborn", "live", "dead", "gone"}] BY <2>1 DEF TypeOK
  <2> QED BY <1>14, <2>1, <2>2, <2>3, <2>4 DEF DeleteOne, TypeOK, Running, Alone, choices, overlap, control, Verb, Offered, Singular
<1>15. CASE VerbEnds
  BY <1>15 DEF VerbEnds, TypeOK, Running, Alone, choices, overlap, tables, control, Verb, Offered, Singular
<1>16. CASE MutationEnded \/ UNCHANGED vars
  BY <1>16 DEF MutationEnded, vars, TypeOK, Running, Alone, choices, overlap, tables, control, Verb, Offered, Singular
<1>17. CASE LookForEdge
  <2>1. row \in Sources /\ found \subseteq Targets BY DEF TypeOK
  <2>2. found' \subseteq Targets /\ raced' \subseteq Pairs /\ at' \in {"link", "join"}
    BY <1>17, <2>1 DEF LookForEdge, TypeOK, Pairs
  <2>3. jobs' \in [Targets -> SUBSET (Targets \cup {"find", "drop", "create"})]
    BY <1>17 DEF LookForEdge, TypeOK
  <2> QED BY <1>17, <2>2, <2>3 DEF LookForEdge, TypeOK, Running, Alone, choices, tables, control, Verb, Offered, Singular
<1>18. CASE CreateEdge
  <2>1. PICK t \in found : links' = [links EXCEPT ![<<row, t>>] = @ + 1] /\ found' = found \ {t}
    BY <1>18 DEF CreateEdge
  <2>2. <<row, t>> \in Pairs BY DEF TypeOK, Pairs
  <2>3. links' \in [Pairs -> Nat] BY <2>1, <2>2, WritesTyped
  <2> QED BY <1>18, <2>1, <2>3 DEF CreateEdge, TypeOK, Running, Alone, choices, overlap, control, Verb, Offered, Singular
<1>19. ASSUME NEW p \in Pairs, RivalLooks(p) PROVE TypeOK' /\ Running'
  BY <1>19 DEF RivalLooks, TypeOK, Running, Alone, choices, tables, control, Verb, Offered, Singular
<1>20. ASSUME NEW p \in Pairs, RivalCreates(p) PROVE TypeOK' /\ Running'
  <2>1. links' \in [Pairs -> Nat] BY <1>20, WritesTyped DEF RivalCreates
  <2> QED BY <1>20, <2>1 DEF RivalCreates, TypeOK, Running, Alone, choices, control, Verb, Offered, Singular
<1> QED BY <1>1, <1>2, <1>3, <1>4, <1>5, <1>6, <1>7, <1>8, <1>9, <1>10, <1>11, <1>12, <1>13, <1>14,
           <1>15, <1>16, <1>17, <1>18, <1>19, <1>20 DEF Next

-------------------------------------------------------------------------------
(* Links that go away, and rows that are deleted, break no key.            *)
LEMMA FewerLinks ==
  ASSUME TypeOK, Keys,
         \A p \in Pairs : links'[p] > 0 => links[p] > 0,
         \A t \in Targets : state'[t] # state[t] => state'[t] = "gone"
  PROVE  Keys'
<1>1. \A s \in Sources, t \in Targets : links'[<<s, t>>] > 0 => links[<<s, t>>] > 0
  BY DEF Pairs
<1>2. Live' \subseteq Live BY DEF Live
<1> QED BY <1>1, <1>2 DEF Keys, OneTarget, OneSource, NoneUnborn, Live

LEMMA PointTargetAway ==
  ASSUME TypeOK, NEW t, PointTarget(t, {})
  PROVE  \A p \in Pairs : links'[p] > 0 => links[p] > 0 /\ p[2] # t
BY DEF PointTarget, TypeOK

(* Without a join model no join row is looked for or created.              *)
LEMMA NoJoinRows ==
  ASSUME TypeOK, Running, kind # "belongsToMany"
  PROVE  /\ ~LookForEdge /\ ~CreateEdge
         /\ \A p \in Pairs : ~RivalLooks(p) /\ ~RivalCreates(p)
BY DEF LookForEdge, CreateEdge, RivalLooks, RivalCreates, Running, Alone, TypeOK

(* A step keeps what is said of the slot.                                  *)
LEMMA SlotStep ==
  ASSUME TypeOK, Running, Slot, kind = "hasOne", ~paranoid, [Next]_vars
  PROVE  Slot'
<1>a. at \notin {"rows", "verb"} => Verb # "add"
  BY DEF Singular, Running, Offered
<1>b. Singular /\ KeyOnTarget BY DEF Singular, KeyOnTarget
<1>c. UNCHANGED tables => Keys' BY DEF tables, Slot, Keys, OneTarget, OneSource, NoneUnborn, Live
<1>1. CASE NextRow
  BY <1>1, <1>c DEF NextRow, Slot, tables
<1>2. CASE NextVerb
  <2>1. at' \in {"rows", "create", "related", "find", "replace"} BY <1>2 DEF NextVerb, First
  <2> QED BY <1>2, <1>c, <2>1 DEF NextVerb, Slot, tables
<1>3. CASE CreateTarget
  <2>1. Keys'
    <3>1. CASE state' = state
      BY <1>3, <1>c, <3>1 DEF CreateTarget, tables, Keys, Slot, OneTarget, OneSource, NoneUnborn, Live
    <3>2. CASE state' # state
      <4>1. PICK t \in Targets : state[t] = "unborn" /\ state' = [state EXCEPT ![t] = "live"]
        BY <1>3, <3>2 DEF CreateTarget
      <4>2. \A s \in Sources : ~(links[<<s, t>>] > 0) BY <4>1 DEF Slot, Keys, NoneUnborn
      <4>3. links' = links BY <1>3 DEF CreateTarget
      <4> QED BY <4>1, <4>2, <4>3 DEF Slot, Keys, OneTarget, OneSource, NoneUnborn, Live, TypeOK
    <3> QED BY <3>1, <3>2
  <2>2. at' = "replace" BY <1>3, <1>b DEF CreateTarget
  <2>3. \A t, u \in found' : t = u /\ state'[t] # "unborn" BY <1>3 DEF CreateTarget, TypeOK
  <2>4. \A t \in Targets : state'[t] # "dead" BY <1>3 DEF CreateTarget, TypeOK, Slot
  <2> QED BY <2>1, <2>2, <2>3, <2>4 DEF Slot
<1>4. CASE GetRelated
  <2>1. at' \in {"verb", "update", "delete", "restore"} BY <1>4 DEF GetRelated, Running
  <2>2. at' = "restore" => found' = {}
    <3>1. Attached \subseteq Targets BY DEF Attached, Linked, TypeOK
    <3>2. at' = "restore" => \A t \in found' : t \in Targets /\ state[t] = "dead"
      BY <1>4, <3>1, GivesSome DEF GetRelated
    <3> QED BY <3>2 DEF Slot
  <2> QED BY <1>4, <1>c, <2>1, <2>2 DEF GetRelated, Slot, tables
<1>5. CASE FindByFilter
  <2>1. \A t, u \in found' : t = u /\ t \in Live
    BY <1>5, <1>b, GivesSome DEF FindByFilter, Matching
  <2>2. at' \in {"replace", "verb", "unlink"} BY <1>5, <1>a DEF FindByFilter
  <2> QED BY <1>5, <1>c, <2>1, <2>2 DEF FindByFilter, Slot, tables, Live
<1>6. CASE UpdateOne
  BY <1>6 DEF UpdateOne, Slot, Keys, OneTarget, OneSource, NoneUnborn, Live
<1>7. CASE RestoreOne
  BY <1>7 DEF RestoreOne, Slot
<1>8. CASE Replace
  <2>1. PICK got \in Gives(Linked \cap Live) :
          jobs' = [t \in Targets |-> IF t \in got /\ ~Stays(t) THEN {"drop"} ELSE {}]
    BY <1>8, <1>b DEF Replace
  <2>2. at' = "drop" /\ UNCHANGED <<tables, row, found>> BY <1>8 DEF Replace, tables, KeyOnTarget
  <2>3. \A t \in Linked \cap Live : t \in got
    <3>1. \A t, u \in Linked \cap Live : t = u
      BY DEF Slot, Keys, OneTarget, Linked, Live, TypeOK
    <3> QED BY <1>b, <2>1, <3>1 DEF Gives
  <2>4. (Linked \cap Live)' = Linked \cap Live BY <2>2 DEF Linked, Live, tables
  <2>5. \A t \in (Linked \cap Live)' : t \in found' \/ jobs'[t] = {"drop"}
    BY <2>1, <2>2, <2>3, <2>4 DEF Stays, Live
  <2> QED BY <1>8, <1>c, <2>2, <2>5 DEF Slot, tables, Replace
<1>9. CASE DropOne
  <2>1. PICK t \in Targets : PointTarget(t, {}) /\ jobs' = [jobs EXCEPT ![t] = {}] BY <1>9 DEF DropOne
  <2>2. \A p \in Pairs : links'[p] > 0 => links[p] > 0 /\ p[2] # t BY <2>1, PointTargetAway
  <2>3. Keys' BY <1>9, <2>2, FewerLinks DEF DropOne, Slot
  <2>4. \A u \in (Linked \cap Live)' : u \in Linked \cap Live /\ u # t
    BY <1>9, <2>2 DEF DropOne, Linked, Live, control, Pairs, TypeOK
  <2> QED BY <1>9, <2>1, <2>3, <2>4 DEF DropOne, Slot, control, TypeOK, Live
<1>10. CASE Dropped
  <2>1. (Linked \cap Live)' = Linked \cap Live BY <1>10 DEF Dropped, Linked, Live, tables, control
  <2>2. \A t \in Linked \cap Live : t \in found BY <1>10 DEF Dropped, Slot, Live
  <2> QED BY <1>10, <1>c, <2>1, <2>2 DEF Dropped, Slot, tables
<1>11. CASE LinkOne
  <2>1. PICK t \in found : PointTarget(t, {row}) /\ found' = found \ {t} BY <1>11, <1>b DEF LinkOne
  <2>2. t \in Targets /\ state[t] # "unborn" BY <1>11, <2>1 DEF LinkOne, Slot, TypeOK
  <2>3. \A s \in Sources, u \in Targets :
          links'[<<s, u>>] > 0 => IF u = t THEN s = row ELSE links[<<s, u>>] > 0
    BY <2>1 DEF PointTarget, Pairs, TypeOK
  <2>4. UNCHANGED <<state, row, at>> BY <1>11 DEF LinkOne, control
  <2>5. OneTarget(links', Live')
    <3>1. \A u \in Live : links[<<row, u>>] > 0 => u = t
      BY <1>11, <2>1 DEF LinkOne, Slot, Linked, Live
    <3> QED BY <2>3, <2>4, <3>1 DEF Slot, Keys, OneTarget, Live
  <2>6. OneSource(links)' /\ NoneUnborn(links)'
    BY <2>2, <2>3, <2>4 DEF Slot, Keys, OneSource, NoneUnborn
  <2>7. found' = {} BY <1>11, <2>1 DEF LinkOne, Slot
  <2> QED BY <1>11, <2>4, <2>5, <2>6, <2>7 DEF LinkOne, Slot, Keys
<1>12. CASE Unlink
  <2>1. PICK t \in found : PointTarget(t, {}) BY <1>12, <1>b DEF Unlink
  <2>2. \A p \in Pairs : links'[p] > 0 => links[p] > 0 BY <2>1, PointTargetAway
  <2>3. Keys' BY <1>12, <2>2, FewerLinks DEF Unlink, Slot
  <2> QED BY <1>12, <2>3 DEF Unlink, Slot
<1>13. ASSUME NEW t \in Targets, DeleteFind(t) PROVE Slot'
  BY <1>13, <1>c DEF DeleteFind, Slot, tables
<1>14. ASSUME NEW t \in Targets, DeleteOne(t) PROVE Slot'
  <2>1. PICK u \in jobs[t] : state' = [state EXCEPT ![u] = "gone"] /\ PointTarget(u, {})
    BY <1>14, <1>b DEF DeleteOne
  <2>2. \A p \in Pairs : links'[p] > 0 => links[p] > 0 BY <2>1, PointTargetAway
  <2>3. \A v \in Targets : state'[v] # state[v] => state'[v] = "gone" BY <2>1 DEF TypeOK
  <2>4. Keys' BY <2>2, <2>3, FewerLinks DEF Slot
  <2> QED BY <1>14, <2>3, <2>4 DEF DeleteOne, Slot
<1>15. CASE VerbEnds
  BY <1>15, <1>c DEF VerbEnds, Slot, tables
<1>16. CASE MutationEnded \/ UNCHANGED vars
  BY <1>16, <1>c DEF MutationEnded, vars, overlap, Slot, tables, control, choices, Linked, Live
<1> QED BY <1>1, <1>2, <1>3, <1>4, <1>5, <1>6, <1>7, <1>8, <1>9, <1>10, <1>11, <1>12, <1>13, <1>14,
           <1>15, <1>16, NoJoinRows DEF Next

-------------------------------------------------------------------------------
LEMMA InitInv == Init => IInv
<1> SUFFICES ASSUME Init PROVE IInv OBVIOUS
<1>1. TypeOK
  <2>1. (IF kind = "belongsToMany" THEN MaxEdges ELSE 1) \in Nat /\ MaxRivals \in Nat
    BY RelationshipAssumption
  <2>2. /\ links \in [Pairs -> Nat] /\ rivals \in Nat /\ begun \in Nat
        /\ {pending, raced} \subseteq SUBSET Pairs
    BY <2>1 DEF Init, LegalLinks
  <2>3. state \in [Targets -> {"unborn", "live", "dead", "gone"}]
    <3>1. CASE paranoid BY <3>1 DEF Init
    <3>2. CASE ~paranoid BY <3>2 DEF Init
    <3> QED BY <3>1, <3>2
  <2>4. tag \in [Targets -> Tags] BY DEF Init
  <2>5. jobs \in [Targets -> SUBSET (Targets \cup {"find", "drop", "create"})] BY DEF Init
  <2>6. /\ kind \in Kinds /\ {paranoid, inPlace} \subseteq BOOLEAN /\ input \in Inputs
        /\ rows \subseteq Sources /\ row \in Sources /\ hand = {} /\ found = {} /\ at = "rows"
    BY DEF Init
  <2>7. turn \in 0..Len(VERBS) BY VerbFacts DEF Init
  <2> QED BY <2>2, <2>3, <2>4, <2>5, <2>6, <2>7 DEF TypeOK
<1>2. Running BY DEF Init, Running, Alone
<1>3. kind = "hasOne" /\ ~paranoid => Slot
  BY DEF Init, LegalLinks, KeyOnTarget, Slot, Keys
<1> QED BY <1>1, <1>2, <1>3 DEF IInv

LEMMA StepInv == IInv /\ [Next]_vars => IInv'
<1> SUFFICES ASSUME IInv, [Next]_vars PROVE IInv' OBVIOUS
<1>1. TypeOK' /\ Running' BY TypeStep DEF IInv
<1>2. UNCHANGED <<kind, paranoid>>
  BY DEF Next, vars, choices, NextRow, NextVerb, VerbEnds, MutationEnded, CreateTarget, GetRelated,
         FindByFilter, UpdateOne, RestoreOne, Replace, DropOne, Dropped, LinkOne, Unlink, DeleteFind,
         DeleteOne, LookForEdge, CreateEdge, RivalLooks, RivalCreates
<1>3. kind = "hasOne" /\ ~paranoid => Slot' BY SlotStep DEF IInv
<1> QED BY <1>1, <1>2, <1>3 DEF IInv

(* Every variable keeps its type, and only verbs of the input run.         *)
THEOREM TypesHold == Spec => []TypeOK
<1>1. IInv => TypeOK BY DEF IInv
<1> QED BY InitInv, StepInv, <1>1, PTL DEF Spec

(* The slot of a hasOne never holds two live rows, whatever number of rows *)
(* and inputs there are: the former holder goes before the new one comes.  *)
THEOREM OneAtATimeHolds == Spec => []OneAtATime
<1>1. IInv => OneAtATime BY DEF IInv, Slot, Keys, OneAtATime
<1> QED BY InitInv, StepInv, <1>1, PTL DEF Spec

-------------------------------------------------------------------------------
(* What a second join row comes from: while two links of a pair overlap,   *)
(* or one is to create a row that is there by now, the pair is marked.     *)
Marked ==
  \A p \in Pairs :
    \/ p \in raced
    \/ links[p] = 0 /\ ~(p \in Asked /\ p \in pending)
    \/ links[p] = 1 /\ p \notin Asked /\ p \notin pending

(* A write that takes links away, or leaves one, while none is being made  *)
(* for the row: PointTarget and PointSource write keys, for which no other *)
(* mutation makes links.                                                   *)
LEMMA KeysMarked ==
  ASSUME TypeOK, Marked, pending = {}, Asked = {}, UNCHANGED <<pending, raced>>, Asked' = {},
         \A p \in Pairs : links'[p] = links[p] \/ links'[p] \in {0, 1}
  PROVE  Marked'
BY DEF Marked

(* Where no pair is asked for, and links stay, so does the marking.        *)
LEMMA StillMarked ==
  ASSUME Marked, Asked' = {}, UNCHANGED <<pending, raced, links>>
  PROVE  Marked'
BY DEF Marked

LEMMA MarkedStep ==
  ASSUME TypeOK, Running, TypeOK', Running', Marked, [Next]_vars
  PROVE  Marked'
<1>a. at # "join" => Asked = {} BY DEF Asked
<1>b. at' # "join" => Asked' = {} BY DEF Asked
<1>c. KeyOnTarget \/ kind = "belongsTo" => pending = {} /\ at # "join" /\ at' # "join" /\ Asked = {} /\ Asked' = {}
  <2>1. KeyOnTarget \/ kind = "belongsTo" => kind # "belongsToMany" BY DEF KeyOnTarget
  <2>2. kind' = kind
    BY DEF Next, vars, choices, NextRow, NextVerb, VerbEnds, MutationEnded, CreateTarget, GetRelated,
           FindByFilter, UpdateOne, RestoreOne, Replace, DropOne, Dropped, LinkOne, Unlink, DeleteFind,
           DeleteOne, LookForEdge, CreateEdge, RivalLooks, RivalCreates
  <2> QED BY <1>a, <1>b, <2>1, <2>2 DEF Running
<1>1. CASE \/ NextRow \/ NextVerb \/ VerbEnds \/ CreateTarget \/ GetRelated \/ FindByFilter
           \/ UpdateOne \/ RestoreOne \/ Dropped \/ \E t \in Targets : DeleteFind(t)
  <2>1. UNCHANGED <<pending, raced, links>>
    BY <1>1 DEF NextRow, NextVerb, VerbEnds, CreateTarget, GetRelated, FindByFilter, UpdateOne, RestoreOne,
                Dropped, DeleteFind, overlap, tables
  <2>2. at' # "join"
    <3>1. CASE NextVerb BY <3>1 DEF NextVerb, First
    <3>2. CASE GetRelated BY <3>2 DEF GetRelated, Running
    <3> QED BY <1>1, <3>1, <3>2 DEF NextRow, VerbEnds, CreateTarget, FindByFilter, UpdateOne, RestoreOne,
                Dropped, DeleteFind
  <2> QED BY <1>b, <2>1, <2>2, StillMarked
<1>2. CASE MutationEnded \/ UNCHANGED vars
  BY <1>2 DEF MutationEnded, vars, overlap, tables, control, Marked, Asked
<1>3. CASE Replace
  <2>1. CASE kind = "belongsToMany"
    <3>1. DropEdges(Targets) /\ UNCHANGED pending /\ at' = "link"
      BY <1>3, <2>1 DEF Replace, KeyOnTarget
    <3> QED BY <1>b, <3>1 DEF DropEdges, Marked, TypeOK, Pairs
  <2>2. CASE kind # "belongsToMany"
    <3>1. UNCHANGED <<pending, raced>> BY <1>3, <2>2 DEF Replace
    <3>2. \A p \in Pairs : links'[p] = links[p] \/ links'[p] \in {0, 1}
      BY <1>3, <2>2 DEF Replace, PointSource
    <3>3. KeyOnTarget \/ kind = "belongsTo" BY <1>3, <2>2 DEF Replace
    <3> QED BY <1>c, <3>1, <3>2, <3>3, KeysMarked
  <2> QED BY <2>1, <2>2
<1>4. CASE LinkOne \/ DropOne
  <2>1. UNCHANGED <<pending, raced>> BY <1>4 DEF LinkOne, DropOne, overlap
  <2>2. \A p \in Pairs : links'[p] = links[p] \/ links'[p] \in {0, 1}
    BY <1>4 DEF LinkOne, DropOne, PointTarget
  <2>3. CASE KeyOnTarget BY <1>c, <2>1, <2>2, <2>3, KeysMarked
  <2>4. CASE ~KeyOnTarget
    <3>1. DropOne BY <1>4, <2>4 DEF LinkOne
    <3>2. \A p \in Pairs : links'[p] = links[p] \/ links'[p] = 0 BY <3>1 DEF DropOne, PointTarget
    <3>3. at' # "join" BY <3>1 DEF DropOne
    <3> QED BY <1>b, <2>1, <3>2, <3>3 DEF Marked
  <2> QED BY <2>3, <2>4
<1>5. CASE Unlink
  <2>1. CASE KeyOnTarget
    <3>1. UNCHANGED <<pending, raced>> BY <1>5, <2>1 DEF Unlink
    <3>2. \A p \in Pairs : links'[p] = links[p] \/ links'[p] \in {0, 1}
      BY <1>5, <2>1 DEF Unlink, PointTarget
    <3> QED BY <1>c, <2>1, <3>1, <3>2, KeysMarked
  <2>2. CASE ~KeyOnTarget
    <3>1. DropEdges(found) /\ UNCHANGED pending /\ at' # "join" BY <1>5, <2>2 DEF Unlink
    <3> QED BY <1>b, <3>1 DEF DropEdges, Marked, TypeOK
  <2> QED BY <2>1, <2>2
<1>6. ASSUME NEW t \in Targets, DeleteOne(t) PROVE Marked'
  <2>1. UNCHANGED <<pending, raced>> /\ at' # "join" BY <1>6 DEF DeleteOne, overlap
  <2>2. \A p \in Pairs : links'[p] = links[p] \/ links'[p] = 0 BY <1>6 DEF DeleteOne, PointTarget
  <2> QED BY <1>b, <2>1, <2>2 DEF Marked
<1>7. CASE LookForEdge
  <2>1. PICK t \in found :
          \/ links[<<row, t>>] > 0 /\ found' = found \ {t} /\ UNCHANGED <<at, jobs, raced>>
          \/ links[<<row, t>>] = 0 /\ at' = "join" /\ UNCHANGED found
             /\ jobs' = [u \in Targets |-> IF u = t THEN {"create"} ELSE {}]
             /\ raced' = raced \cup ({<<row, t>>} \cap pending)
    BY <1>7 DEF LookForEdge
  <2>2. UNCHANGED <<pending, links, row>> /\ at = "link" BY <1>7 DEF LookForEdge, tables, control
  <2>3. CASE links[<<row, t>>] > 0 BY <1>b, <2>1, <2>2, <2>3, StillMarked
  <2>4. CASE ~(links[<<row, t>>] > 0)
    <3>1. Asked' \subseteq {<<row, t>>} BY <2>1, <2>2, <2>4 DEF Asked, TypeOK
    <3>2. links[<<row, t>>] = 0 /\ raced' = raced \cup ({<<row, t>>} \cap pending) BY <2>1, <2>4
    <3> QED BY <2>2, <3>1, <3>2 DEF Marked
  <2> QED BY <2>3, <2>4
<1>8. CASE CreateEdge
  <2>1. PICK t \in found : jobs[t] = {"create"} /\ links' = [links EXCEPT ![<<row, t>>] = @ + 1]
    BY <1>8 DEF CreateEdge
  <2>2. UNCHANGED <<pending, raced>> /\ at' = "link" /\ at = "join" BY <1>8 DEF CreateEdge, overlap
  <2>3. <<row, t>> \in Asked BY <2>1, <2>2 DEF Asked
  <2>4. \A p \in Pairs : links'[p] = IF p = <<row, t>> THEN links[p] + 1 ELSE links[p]
    BY <2>1 DEF TypeOK
  <2> QED BY <1>b, <2>2, <2>3, <2>4 DEF Marked
<1>9. ASSUME NEW q \in Pairs, RivalLooks(q) PROVE Marked'
  <2>1. Asked' = Asked BY <1>9 DEF RivalLooks, Asked, control
  <2>2. /\ pending' = pending \cup {q} /\ raced' = raced \cup ({q} \cap Asked) /\ links[q] = 0
        /\ links' = links
    BY <1>9 DEF RivalLooks, tables
  <2> QED BY <2>1, <2>2 DEF Marked
<1>10. ASSUME NEW q \in Pairs, RivalCreates(q) PROVE Marked'
  <2>1. Asked' = Asked BY <1>10 DEF RivalCreates, Asked, control
  <2>2. pending' = pending \ {q} /\ raced' = raced /\ q \in pending BY <1>10 DEF RivalCreates
  <2>3. \A p \in Pairs : links'[p] = IF p = q THEN links[p] + 1 ELSE links[p]
    BY <1>10 DEF RivalCreates, TypeOK
  <2> QED BY <2>1, <2>2, <2>3 DEF Marked
<1> QED BY <1>1, <1>2, <1>3, <1>4, <1>5, <1>6, <1>7, <1>8, <1>9, <1>10 DEF Next

(* A pair has a second join row only where two links of it overlapped: for *)
(* any rows, inputs and number of links that other mutations make, neither *)
(* of two links doubles a pair when one ends before the other looks.       *)
THEOREM NoSecondEdgeHolds == Spec => []NoSecondEdge
<1>1. Init => Marked
  <2> SUFFICES ASSUME Init PROVE Marked OBVIOUS
  <2>1. links \in [Pairs -> Nat] BY InitInv DEF IInv, TypeOK
  <2> QED BY <2>1 DEF Init, Marked, Asked
<1>2. IInv => TypeOK /\ Running BY DEF IInv
<1>3. Marked /\ TypeOK => NoSecondEdge BY DEF Marked, NoSecondEdge, TypeOK
<1>4. TypeOK /\ Running /\ TypeOK' /\ Running' /\ Marked /\ [Next]_vars => Marked' BY MarkedStep
<1> QED BY InitInv, StepInv, <1>1, <1>2, <1>3, <1>4, PTL DEF Spec

-------------------------------------------------------------------------------
(* While set replaces a hasMany collection: what is found is what the      *)
(* filter names, and what is about to be let go is not.                    *)
Replacing ==
  kind = "hasMany" /\ at \notin {"rows", "verb"} /\ Verb = "set" =>
    /\ at \in {"find", "replace", "drop", "link"}
    /\ at = "replace" => found = Matching
    /\ at = "drop" => \A t \in Targets : jobs[t] = {"drop"} => tag[t] \notin Arg.where

LEMMA ReplacingStep ==
  ASSUME TypeOK, Running, Replacing, [Next]_vars
  PROVE  Replacing'
<1> SUFFICES ASSUME kind = "hasMany", at' \notin {"rows", "verb"}, Verb' = "set"
             PROVE  /\ at' \in {"find", "replace", "drop", "link"}
                    /\ at' = "replace" => found' = Matching'
                    /\ at' = "drop" => \A t \in Targets : jobs'[t] = {"drop"} => tag'[t] \notin Arg'.where
  <2>1. kind' = kind
    BY DEF Next, vars, choices, NextRow, NextVerb, VerbEnds, MutationEnded, CreateTarget, GetRelated,
           FindByFilter, UpdateOne, RestoreOne, Replace, DropOne, Dropped, LinkOne, Unlink, DeleteFind,
           DeleteOne, LookForEdge, CreateEdge, RivalLooks, RivalCreates
  <2> QED BY <2>1 DEF Replacing
<1>1. ~Singular /\ KeyOnTarget BY DEF Singular, KeyOnTarget
<1>2. CASE NextVerb
  <2>1. at' = First("set") BY <1>2 DEF NextVerb, Verb
  <2> QED BY <1>1, <2>1 DEF First
<1>3. CASE FindByFilter
  <2>1. Verb = "set" /\ at' = "replace" /\ found' = Matching
    BY <1>1, <1>3 DEF FindByFilter, control, Verb, Gives
  <2>2. Matching' = Matching BY <1>3 DEF FindByFilter, Matching, Live, Arg, Verb, tables, control, choices
  <2> QED BY <2>1, <2>2
<1>4. CASE Replace
  <2>1. Verb = "set" /\ at' = "drop" BY <1>1, <1>4 DEF Replace, Verb, KeyOnTarget
  <2>2. PICK got \in Gives(Linked \cap Live) :
          jobs' = [t \in Targets |-> IF t \in got /\ ~Stays(t) THEN {"drop"} ELSE {}]
    BY <1>1, <1>4 DEF Replace, KeyOnTarget
  <2>3. found = Matching BY <1>4, <2>1 DEF Replacing, Replace
  <2>4. UNCHANGED <<tag, Arg>> BY <1>4 DEF Replace, Arg, Verb, choices
  <2>5. \A t \in Targets : jobs'[t] = {"drop"} => tag[t] \notin Arg.where
    BY <2>2, <2>3, GivesSome DEF Stays, Matching, Live
  <2> QED BY <2>1, <2>4, <2>5
<1>5. CASE DropOne \/ Dropped \/ LinkOne
  <2>1. Verb = "set" /\ UNCHANGED <<tag, Arg>>
    BY <1>5 DEF DropOne, Dropped, LinkOne, Verb, Arg, tables, control, choices
  <2>2. at' \in {"drop", "link"} BY <1>5 DEF DropOne, Dropped, LinkOne
  <2>3. at' = "drop" => \A t \in Targets : jobs'[t] = {"drop"} => jobs[t] = {"drop"} /\ at = "drop"
    BY <1>5 DEF DropOne, Dropped, LinkOne, TypeOK
  <2> QED BY <2>1, <2>2, <2>3 DEF Replacing
<1>6. CASE \/ CreateTarget \/ GetRelated \/ UpdateOne \/ RestoreOne \/ Unlink
           \/ \E t \in Targets : DeleteFind(t) \/ DeleteOne(t)
  BY <1>6 DEF CreateTarget, GetRelated, UpdateOne, RestoreOne, Unlink, DeleteFind, DeleteOne, Replacing,
              Verb, control
<1>7. CASE UNCHANGED vars
  BY <1>7 DEF vars, overlap, tables, control, choices, Replacing, Verb, Arg, Matching, Live
<1>8. kind # "belongsToMany"
  BY DEF Next, vars, choices, NextRow, NextVerb, VerbEnds, MutationEnded, CreateTarget, GetRelated,
         FindByFilter, UpdateOne, RestoreOne, Replace, DropOne, Dropped, LinkOne, Unlink, DeleteFind,
         DeleteOne, LookForEdge, CreateEdge, RivalLooks, RivalCreates
<1> QED BY <1>2, <1>3, <1>4, <1>5, <1>6, <1>7, <1>8, NoJoinRows DEF Next, NextRow, VerbEnds, MutationEnded

(* Only DropOne unlinks something while a collection is replaced.          *)
LEMMA StayingStep ==
  ASSUME TypeOK, Running, Replacing, [Next]_vars,
         kind = "hasMany", turn > 0, turn' = turn, Verb = "set", at' # "verb",
         NEW t \in Linked, t \notin Linked'
  PROVE  tag[t] \notin Arg.where
<1>1. ~Singular /\ KeyOnTarget BY DEF Singular, KeyOnTarget
<1>2. t \in Targets /\ <<row, t>> \in Pairs /\ links[<<row, t>>] > 0 /\ 1 > 0
  BY DEF Linked, TypeOK, Pairs
<1>3. row' = row => ~(links'[<<row, t>>] > 0) BY <1>2 DEF Linked
<1>4. CASE DropOne
  <2>1. PICK u \in Targets : jobs[u] = {"drop"} /\ PointTarget(u, {}) BY <1>4 DEF DropOne
  <2>2. at = "drop" /\ row' = row BY <1>4 DEF DropOne, control
  <2>3. t = u BY <1>2, <1>3, <2>1, <2>2 DEF PointTarget
  <2> QED BY <1>2, <2>1, <2>2, <2>3 DEF Replacing
<1>5. CASE LinkOne
  <2>1. PICK u \in found : PointTarget(u, {row}) BY <1>1, <1>5 DEF LinkOne
  <2>2. row' = row BY <1>5 DEF LinkOne, control
  <2> QED BY <1>2, <1>3, <2>1, <2>2 DEF PointTarget
<1>6. CASE NextRow
  BY <1>6 DEF NextRow, TypeOK
<1>7. CASE \/ Replace \/ FindByFilter \/ Dropped \/ NextVerb \/ MutationEnded \/ UNCHANGED vars
  BY <1>1, <1>2, <1>3, <1>7
  DEF Replace, FindByFilter, Dropped, NextVerb, MutationEnded, vars, tables, control, KeyOnTarget
<1>8. CASE \/ CreateTarget \/ GetRelated \/ UpdateOne \/ RestoreOne \/ Unlink \/ VerbEnds
           \/ \E u \in Targets : DeleteFind(u) \/ DeleteOne(u)
  BY <1>8 DEF CreateTarget, GetRelated, UpdateOne, RestoreOne, Unlink, DeleteFind, DeleteOne, VerbEnds,
              Replacing
<1> QED BY <1>4, <1>5, <1>6, <1>7, <1>8, NoJoinRows DEF Next

(* Replacing a collection whose key is on the targets never lets go, not   *)
(* even in between, of a row that stays, whatever number of rows there are *)
(* and in whatever order the calls come.                                   *)
THEOREM StayingHolds == Spec => StayingIsUninterrupted
<1>1. Init => Replacing BY DEF Init, Replacing
<1>2. IInv => TypeOK /\ Running BY DEF IInv
<1>3. TypeOK /\ Running /\ Replacing /\ [Next]_vars => Replacing' BY ReplacingStep
<1>4. TypeOK /\ Running /\ Replacing /\ [Next]_vars
      => [kind = "hasMany" /\ turn > 0 /\ turn' = turn /\ Verb = "set" /\ at' # "verb" =>
            \A t \in Linked : t \notin Linked' => tag[t] \notin Arg.where]_vars
  BY StayingStep
<1> QED BY InitInv, StepInv, <1>1, <1>2, <1>3, <1>4, PTL DEF Spec, StayingIsUninterrupted
-------------------------------------------------------------------------------
(* What a verb has done so far, in terms of the tables it began with.      *)
Same == state = before.state /\ tag = before.tag

(* At most one live row in the slot of s. *)
OneLive(s) == \A t, u \in Live : links[<<s, t>>] > 0 /\ links[<<s, u>>] > 0 => t = u

(* Between verbs: keys point at rows that exist and hold one value, the    *)
(* row in hand agrees with its store, and no slot holds two live rows      *)
(* until its source's restore has run.                                     *)
Sound ==
  /\ NoneUnborn(links)
  /\ KeyOnTarget => OneSource(links)
  /\ kind = "belongsTo" => OneTarget(links, Targets) /\ (at # "rows" => hand = Linked)
  /\ kind = "hasOne" => \A s \in Sources : s \in rows \/ (s = row /\ turn < 7) => OneLive(s)
  /\ row \in rows => at = "rows"

(* The tables that the verb began with were sound. *)
WasSound ==
  /\ before.state \in [Targets -> {"unborn", "live", "dead", "gone"}]
  /\ before.tag \in [Targets -> Tags] /\ before.links \in [Pairs -> Nat]
  /\ \A p \in Pairs : before.links[p] > 0 => before.state[p[2]] # "unborn"
  /\ KeyOnTarget => OneSource(before.links)
  /\ Singular /\ turn < 7 => \A t, u \in WasOwn \cap Was("live") : t = u
  /\ kind = "belongsTo" => \A t, u \in WasOwn : t = u

(* T is what create, add or set is to link; an emptied slot gets nothing.  *)
Chosen(T) ==
  \/ /\ Verb = "create" /\ Arg.to # Nothing
     /\ \E t \in Was("unborn") : /\ T = {t}
                                 /\ state = With(before.state, T, "live")
                                 /\ tag = With(before.tag, T, Arg.to)
  \/ Verb = "create" /\ Arg.to = Nothing /\ T = {} /\ Same
  \/ Verb \in {"add", "set"} /\ T \in Gives(Was("live") \cap Named) /\ Same
  \/ Verb = "remove" /\ Singular /\ T = {} /\ Same

Replaces == Verb = "set" \/ Singular

(* What the row had and set lets go; the pairs that are left then.         *)
LetGo(T) == (WasOwn \cap Was("live")) \ T
Left(p, T) ==
  before.links[p] > 0 /\ (Replaces => IF KeyOnTarget THEN p[2] \notin LetGo(T) ELSE p[1] # row)

Dropping ==
  /\ KeyOnTarget /\ Replaces /\ Chosen(found)
  /\ \A t \in Targets : jobs[t] = {} \/ (jobs[t] = {"drop"} /\ t \in LetGo(found))
  /\ \A p \in Pairs : links[p] > 0 <=>
       before.links[p] > 0 /\ (p[2] \in LetGo(found) => jobs[p[2]] = {"drop"})

LinkedBut(T) ==
  \A p \in Pairs : links[p] > 0 <=>
    IF p[2] \in T \ found /\ (KeyOnTarget \/ p[1] = row) THEN p[1] = row ELSE Left(p, T)

Linking ==
  /\ kind # "belongsTo"
  /\ \E T \in SUBSET Targets : Chosen(T) /\ found \subseteq T /\ LinkedBut(T)

Unlinking ==
  LET T == Was("live") \cap Named IN
  /\ Verb = "remove" /\ ~Singular /\ Same /\ found \subseteq T
  /\ \A p \in Pairs : links[p] > 0 <=>
       before.links[p] > 0 /\ ~(p[2] \in T \ found /\ (KeyOnTarget \/ p[1] = row))

Updating ==
  LET own == WasOwn \cap Was("live") \cap Named IN
  /\ Verb = "update" /\ state = before.state /\ links = before.links /\ found \subseteq own
  /\ tag = IF Arg.to = Nothing THEN before.tag ELSE With(before.tag, own \ found, Arg.to)

Restoring ==
  /\ Verb = "restore" /\ tag = before.tag /\ links = before.links
  /\ \E T \in Gives((WasOwn \ Was("unborn")) \cap Named) :
       /\ found \subseteq T \cap Was("dead")
       /\ state = With(before.state, (T \cap Was("dead")) \ found, "live")

Deleting ==
  /\ Verb = "delete" /\ tag = before.tag
  /\ \A t \in Targets : state[t] = "live" => before.state[t] = "live"
  /\ \A t \in Was("live") : t \notin Named => state[t] = "live"
  /\ \A p \in Pairs : IF state[p[2]] = "live" THEN links[p] = before.links[p]
                      ELSE links[p] > 0 => before.links[p] > 0
  /\ \A t \in Targets : jobs[t] = {"find"} \/ jobs[t] \subseteq Named
  /\ \A t \in Targets : jobs[t] # {} => t \in found
  /\ \A t \in WasOwn \cap Live \cap Named : \E u \in Targets : jobs[u] = {"find"} \/ t \in jobs[u]

Progress ==
  /\ at \in {"create", "related", "find"} => Same /\ links = before.links
  /\ at = "create" => Verb = "create"
  /\ at = "find" => Verb \in {"add", "set", "remove"} /\ (Verb = "remove" => ~Singular)
  /\ at = "replace" => Replaces /\ Chosen(found) /\ links = before.links
  /\ at = "drop" => Dropping
  /\ at \in {"link", "join"} => Linking
  /\ at = "unlink" => Unlinking
  /\ at = "update" => Updating
  /\ at = "restore" => Restoring
  /\ at = "delete" => Deleting

Busy == at \notin {"rows", "verb"}

VInv == inPlace /\ Alone => Sound /\ (Busy => WasSound /\ Progress) /\ VerbsDoWhatTheySay

(* What is said of a verb when it has ended. *)
Says ==
  IF Verb \in {"delete", "remove"}
  THEN LET own == WasOwn \cap Was("live") IN
       Linked \cap Live = IF Verb = "remove" /\ Singular THEN {} ELSE own \ Named
  ELSE Now \in Promised \/ (Verb = "create" /\ Arg.to = Nothing)

-------------------------------------------------------------------------------
(* Where at most one row is asked for, a find gives all that there is.     *)
LEMMA GivesAll ==
  ASSUME NEW S, Singular => \A t, u \in S : t = u
  PROVE  Gives(S) = {S}
<1>1. CASE ~Singular BY <1>1 DEF Gives
<1>2. CASE Singular /\ S = {} BY <1>2 DEF Gives
<1>3. CASE Singular /\ S # {}
  <2>1. PICK t : t \in S BY <1>3
  <2>2. S = {t} BY <1>3, <2>1
  <2> QED BY <1>3, <2>2 DEF Gives
<1> QED BY <1>1, <1>2, <1>3

(* Tables that agree on the links to live rows look the same.              *)
LEMMA ShowsSame ==
  ASSUME NEW st, NEW tg, NEW A \in SUBSET Pairs, NEW B \in SUBSET Pairs,
         \A p \in Pairs : st[p[2]] = "live" => (p \in A <=> p \in B)
  PROVE  Shows(st, tg, A) = Shows(st, tg, B)
<1>1. {p \in A : st[p[2]] = "live"} = {p \in B : st[p[2]] = "live"} OBVIOUS
<1> QED BY <1>1 DEF Shows

(* What a verb promises, verb by verb. *)
Promise(x) ==
  \/ /\ Verb = "create"
     /\ \E t \in Was("unborn") :
          x = Shows(With(before.state, {t}, "live"), With(before.tag, {t}, Arg.to), Joined(WasLinked, {t}))
  \/ /\ Verb = "update"
     /\ x = Shows(before.state, IF Arg.to = Nothing THEN before.tag
                                ELSE With(before.tag, WasOwn \cap Was("live") \cap Named, Arg.to), WasLinked)
  \/ /\ Verb = "add"
     /\ x = Shows(before.state, before.tag, Joined(WasLinked, Was("live") \cap Named))
  \/ /\ Verb = "set"
     /\ \E T \in Gives(Was("live") \cap Named) :
          x = Shows(before.state, before.tag, Joined({p \in WasLinked : p[1] # row}, T))
  \/ /\ Verb = "restore"
     /\ \E T \in Gives((WasOwn \ Was("unborn")) \cap Named) :
          x = Shows(With(before.state, T \cap Was("dead"), "live"), before.tag, WasLinked)
  \/ Verb = "select" /\ x = Shows(before.state, before.tag, WasLinked)

LEMMA PromiseIs == \A x : x \in Promised <=> Promise(x)
<1> SUFFICES ASSUME NEW x PROVE x \in Promised <=> Promise(x) OBVIOUS
<1>1. CASE Verb = "create" BY <1>1 DEF Promised, Promise
<1>2. CASE Verb = "update" BY <1>2 DEF Promised, Promise
<1>3. CASE Verb = "add" BY <1>3 DEF Promised, Promise
<1>4. CASE Verb = "set" BY <1>4 DEF Promised, Promise
<1>5. CASE Verb = "restore" BY <1>5 DEF Promised, Promise
<1>6. CASE Verb = "select" BY <1>6 DEF Promised, Promise
<1>7. CASE Verb \notin {"create", "update", "add", "set", "restore", "select"}
  BY <1>7 DEF Promised, Promise
<1> QED BY <1>1, <1>2, <1>3, <1>4, <1>5, <1>6, <1>7

LEMMA PromiseIsNext == (\A x : x \in Promised <=> Promise(x))'
BY PromiseIs, PTL

(* The promise is about the tables that the verb began with.               *)
LEMMA PromisedKept ==
  ASSUME UNCHANGED <<choices, row, turn, before>>, NEW x
  PROVE  x \in Promised' <=> x \in Promised
<1>1. UNCHANGED <<kind, input, row, turn, before>> BY DEF choices
<1>2. UNCHANGED <<Verb, Arg, Singular, KeyOnTarget>> BY <1>1 DEF Verb, Arg, Singular, KeyOnTarget
<1>3. UNCHANGED <<WasOwn, WasLinked, Named>> BY <1>1, <1>2 DEF WasOwn, WasLinked, Named
<1>4. \A v : Was(v)' = Was(v) BY <1>1 DEF Was
<1>5. \A S : Gives(S)' = Gives(S) BY <1>2 DEF Gives
<1>6. \A S, T : Joined(S, T)' = Joined(S, T) BY <1>1, <1>2 DEF Joined
<1>7. UNCHANGED {p \in WasLinked : p[1] # row} BY <1>1, <1>3
<1>8. Promise(x)' <=> Promise(x)
  BY <1>1, <1>2, <1>3, <1>4, <1>5, <1>6, <1>7 DEF Promise
<1> QED BY <1>8, PromiseIs, PromiseIsNext

LEMMA SaysKept ==
  ASSUME UNCHANGED <<choices, tables, row, turn, before>>
  PROVE  Says' = Says
<1>1. UNCHANGED <<kind, input, state, tag, links, row, turn, before>> BY DEF choices, tables
<1>2. UNCHANGED <<Verb, Arg, Singular, Linked, Live, WasOwn, Was("live"), Named>>
  BY <1>1 DEF Verb, Arg, Singular, Linked, Live, WasOwn, WasLinked, Was, Named
<1>3. Now' = Now BY <1>1 DEF Now
<1> QED BY <1>2, <1>3, PromisedKept DEF Says

(* What was chosen is live, and nothing else changed its state.            *)
LEMMA ChosenFacts ==
  ASSUME TypeOK, WasSound, NEW T, Chosen(T)
  PROVE  /\ T \subseteq Targets
         /\ \A t \in T : state[t] = "live" /\ (t \notin Was("live") => t \notin WasOwn)
         /\ Singular => \A t, u \in T : t = u
         /\ \A t \in Targets : t \notin T => state[t] = before.state[t]
         /\ \A t \in Targets : before.state[t] = "live" => state[t] = "live"
         /\ \A t \in Targets : state[t] = "unborn" => before.state[t] = "unborn"
<1>1. ASSUME NEW t \in Targets, before.state[t] = "unborn" PROVE t \notin WasOwn
  BY <1>1 DEF WasOwn, WasLinked, WasSound
<1>2. CASE \E t \in Was("unborn") : T = {t} /\ state = With(before.state, T, "live")
  BY <1>1, <1>2 DEF Was, With, WasSound
<1>3. CASE Same /\ T = {}
  BY <1>3 DEF Same
<1>4. CASE Same /\ T \in Gives(Was("live") \cap Named)
  <2>1. T \subseteq Was("live") /\ (Singular => \A t, u \in T : t = u) BY <1>4, GivesSome
  <2> QED BY <1>4, <2>1 DEF Same, Was
<1> QED BY <1>2, <1>3, <1>4 DEF Chosen

(* A row linked to what was chosen, and rid of what set lets go, is linked *)
(* as the verb promises.                                                   *)
LEMMA LinksSay ==
  ASSUME TypeOK, WasSound, NEW T, Chosen(T), Verb # "remove",
         Verb = "create" => Arg.to # Nothing, Verb = "add" => ~Singular,
         NEW l \in [Pairs -> Nat],
         \A p \in Pairs : l[p] > 0 <=>
           IF p[2] \in T /\ (KeyOnTarget \/ p[1] = row) THEN p[1] = row ELSE Left(p, T)
  PROVE  Shows(state, tag, {p \in Pairs : l[p] > 0}) \in Promised
<1> DEFINE X == IF Verb = "set" THEN {p \in WasLinked : p[1] # row} ELSE WasLinked
           L == {p \in Pairs : l[p] > 0}
<1>1. L \in SUBSET Pairs /\ Joined(X, T) \in SUBSET Pairs
  BY ChosenFacts DEF Joined, WasLinked, Pairs, TypeOK
<1>2. ASSUME NEW s \in Sources, NEW t \in Targets, state[t] = "live"
      PROVE  <<s, t>> \in L <=> <<s, t>> \in Joined(X, T)
  <2>1. <<s, t>> \in Pairs /\ <<row, t>> \in Pairs BY DEF Pairs, TypeOK
  <2>2. <<s, t>> \in L <=> IF t \in T /\ (KeyOnTarget \/ s = row) THEN s = row ELSE Left(<<s, t>>, T)
    BY <2>1
  <2>3. <<s, t>> \in Joined(X, T) <=>
          \/ <<s, t>> \in X /\ ~(KeyOnTarget /\ t \in T) /\ ~(Singular /\ s = row)
          \/ s = row /\ t \in T
    BY DEF Joined
  <2>4. <<s, t>> \in X <=> before.links[<<s, t>>] > 0 /\ (Verb = "set" => s # row)
    BY <2>1 DEF WasLinked
  <2>5. Left(<<s, t>>, T) <=>
          before.links[<<s, t>>] > 0
          /\ (Replaces => IF KeyOnTarget THEN t \notin LetGo(T) ELSE s # row)
    BY DEF Left
  <2>6. t \notin T => t \in Was("live") BY <1>2, ChosenFacts DEF Was
  <2>7. t \in WasOwn <=> before.links[<<row, t>>] > 0 BY <2>1 DEF WasOwn, WasLinked
  <2>8. KeyOnTarget /\ before.links[<<s, t>>] > 0 /\ t \in WasOwn => s = row
    BY <2>7 DEF WasSound, OneSource, TypeOK
  <2>9. t \notin T => (t \in LetGo(T) <=> t \in WasOwn) BY <2>6 DEF LetGo
  <2> HIDE DEF X, L
  <2> QED BY <2>2, <2>3, <2>4, <2>5, <2>7, <2>8, <2>9 DEF Replaces
<1>3. \A p \in Pairs : state[p[2]] = "live" => (p \in L <=> p \in Joined(X, T))
  BY <1>2 DEF Pairs
<1>4. Shows(state, tag, L) = Shows(state, tag, Joined(X, T))
  <2> HIDE DEF X, L
  <2> QED BY <1>1, <1>3, ShowsSame
<1>5. Promise(Shows(state, tag, Joined(X, T)))
  <2>1. CASE Verb = "create" BY <2>1 DEF Chosen, Promise
  <2>2. CASE Verb = "set" BY <2>2 DEF Chosen, Promise, Same
  <2>3. CASE Verb = "add" BY <2>3 DEF Chosen, Promise, Same, Gives
  <2> QED BY <2>1, <2>2, <2>3 DEF Chosen
<1> QED BY <1>4, <1>5, PromiseIs

(* The tables before a verb stay sound while it runs.                      *)
LEMMA WasSoundKept ==
  ASSUME WasSound, UNCHANGED <<before, kind, row, turn>>
  PROVE  WasSound'
BY DEF WasSound, KeyOnTarget, OneSource, Singular, WasOwn, WasLinked, Was

(* Links that go, and rows that are deleted, leave the tables sound.       *)
LEMMA SoundFewer ==
  ASSUME TypeOK, Sound, at # "rows", UNCHANGED <<kind, row, rows, turn, hand>>,
         \A p \in Pairs : links'[p] > 0 => links[p] > 0,
         kind = "belongsTo" => links' = links,
         \A t \in Targets : /\ state'[t] = "live" => state[t] = "live"
                            /\ state'[t] = "unborn" => state[t] = "unborn"
  PROVE  Sound'
<1>1. \A s \in Sources, t \in Targets : links'[<<s, t>>] > 0 => links[<<s, t>>] > 0
  BY DEF Pairs
<1>2. Live' \subseteq Live BY DEF Live
<1>3. NoneUnborn(links)' BY <1>1 DEF Sound, NoneUnborn
<1>4. (KeyOnTarget => OneSource(links))' BY <1>1 DEF Sound, OneSource, KeyOnTarget
<1>5. kind = "belongsTo" => OneTarget(links', Targets) /\ hand' = Linked'
  BY DEF Sound, OneTarget, Linked
<1>6. kind = "hasOne" => \A s \in Sources : s \in rows \/ (s = row /\ turn < 7) => OneLive(s)'
  BY <1>1, <1>2 DEF Sound, OneLive, Live
<1> QED BY <1>3, <1>4, <1>5, <1>6 DEF Sound

(* One action after the other: what is known of a verb in progress, and of *)
(* one that has ended, is kept.                                            *)
Going == TypeOK /\ Running /\ inPlace /\ Alone /\ Sound /\ (Busy => WasSound /\ Progress)
Kept == Sound /\ (Busy => WasSound /\ Progress) /\ (VerbEnded => Says)

LEMMA NextRowKeeps ==
  ASSUME Going, NextRow
  PROVE  Kept'
<1>1. PICK r \in rows : row' = r /\ rows' = rows \ {r} /\ hand' = {t \in Targets : links[<<r, t>>] > 0}
  BY DEF NextRow
<1>2. ~Busy' /\ ~VerbEnded' BY DEF NextRow, Busy, VerbEnded
<1>3. UNCHANGED <<kind, state, links>> /\ turn' = 0 /\ at' = "verb" BY DEF NextRow, choices, tables
<1>4. Sound'
  <2>1. NoneUnborn(links)' /\ (KeyOnTarget => OneSource(links))'
    BY <1>3 DEF Going, Sound, NoneUnborn, KeyOnTarget, OneSource
  <2>2. (kind = "belongsTo" => OneTarget(links, Targets) /\ (at # "rows" => hand = Linked))'
    BY <1>1, <1>3 DEF Going, Sound, OneTarget, Linked
  <2>3. \A s \in Sources : OneLive(s)' = OneLive(s) BY <1>3 DEF OneLive, Live
  <2>4. (kind = "hasOne" => \A s \in Sources : s \in rows \/ (s = row /\ turn < 7) => OneLive(s))'
    BY <1>1, <1>3, <2>3 DEF Going, Sound
  <2> QED BY <1>1, <2>1, <2>2, <2>4 DEF Sound
<1> QED BY <1>2, <1>4 DEF Kept

LEMMA NextVerbKeeps ==
  ASSUME Going, NextVerb
  PROVE  Kept'
<1>1. UNCHANGED <<kind, state, tag, links, rows, row, hand, Singular, KeyOnTarget>> /\ at = "verb"
  BY DEF NextVerb, choices, tables, Singular, KeyOnTarget
<1>2. found' = {} /\ at' # "verb" BY DEF NextVerb, First
<1>3. Busy' => /\ turn' \in (turn + 1)..8 /\ at' = First(Verb')
               /\ before' = [state |-> state, tag |-> tag, links |-> links]
  BY <1>1, VerbFacts DEF NextVerb, Busy, Verb
<1>4. turn' >= turn
  BY <1>3, VerbFacts DEF NextVerb, Going, TypeOK
<1>5. Sound'
  <2>1. \A s \in Sources : OneLive(s)' = OneLive(s) BY <1>1 DEF OneLive, Live
  <2>2. (kind = "hasOne" => \A s \in Sources : s \in rows \/ (s = row /\ turn < 7) => OneLive(s))'
    BY <1>1, <1>3, <1>4, <2>1 DEF Going, Sound, TypeOK, NextVerb
  <2> QED BY <1>1, <2>2 DEF Going, Sound, NoneUnborn, OneSource, OneTarget, Linked
<1>6. ASSUME Busy' PROVE WasSound'
  <2>1. (WasOwn \cap Was("live"))' = Linked \cap Live /\ WasOwn' = Linked
    BY <1>1, <1>3, <1>6 DEF WasOwn, WasLinked, Was, Linked, Live, Pairs, Going, TypeOK
  <2>2. turn' < 7 => turn < 7 BY <1>3, <1>6 DEF Going, TypeOK
  <2>3. Singular /\ turn' < 7 => \A t, u \in Linked \cap Live : t = u
    <3>1. CASE kind = "hasOne" BY <2>2, <3>1 DEF Going, Sound, OneLive, Linked, TypeOK
    <3>2. CASE kind = "belongsTo" BY <3>2 DEF Going, Sound, OneTarget, Linked, Live, TypeOK
    <3> QED BY <3>1, <3>2 DEF Singular
  <2>4. kind = "belongsTo" => \A t, u \in Linked : t = u
    BY DEF Going, Sound, OneTarget, Linked, TypeOK
  <2>5. \A p \in Pairs : links[p] > 0 => state[p[2]] # "unborn"
    BY DEF Going, Sound, NoneUnborn, Pairs
  <2> QED BY <1>1, <1>3, <1>6, <2>1, <2>3, <2>4, <2>5 DEF WasSound, Going, TypeOK, Sound, OneSource
<1>7. ASSUME Busy' PROVE Progress'
  <2>1. Same' /\ links' = before'.links BY <1>1, <1>3, <1>7 DEF Same
  <2>2. Verb' \in Verbs BY <1>3, <1>7, VerbFacts DEF Verb, Going, TypeOK
  <2>3. /\ at' \in {"create", "replace", "find", "related"}
        /\ at' = "create" => Verb' = "create"
        /\ at' = "replace" => Verb' = "remove" /\ Singular'
        /\ at' = "find" => Verb' \in {"remove", "add", "set"} /\ (Verb' = "remove" => ~Singular')
    BY <1>1, <1>3, <1>7 DEF First
  <2>4. at' = "replace" => Chosen(found)' BY <1>2, <2>1, <2>3 DEF Chosen
  <2> QED BY <2>1, <2>3, <2>4 DEF Progress, Replaces
<1> QED BY <1>2, <1>5, <1>6, <1>7 DEF Kept, VerbEnded

LEMMA CreateKeeps ==
  ASSUME Going, CreateTarget
  PROVE  Kept'
<1>1. /\ UNCHANGED <<kind, input, rows, row, hand, turn, before, links, Singular, KeyOnTarget, Verb, Arg>>
      /\ at = "create" /\ at' = IF Singular THEN "replace" ELSE "link"
  BY DEF CreateTarget, choices, control, Singular, KeyOnTarget, Verb, Arg
<1>2. Busy /\ Busy' /\ ~VerbEnded' BY <1>1 DEF Busy, VerbEnded
<1>3. WasSound /\ WasSound' BY <1>1, <1>2, WasSoundKept DEF Going
<1>4. Verb = "create" /\ Same /\ links = before.links BY <1>1, <1>2 DEF Going, Progress
<1>5. Chosen(found)'
  <2>1. CASE Arg.to = Nothing /\ found' = {} /\ UNCHANGED <<state, tag>>
    BY <1>1, <1>4, <2>1 DEF Chosen, Same
  <2>2. CASE Arg.to # Nothing
    <3>1. PICK t \in Targets :
            /\ state[t] = "unborn"
            /\ state' = [state EXCEPT ![t] = "live"]
            /\ tag' = [tag EXCEPT ![t] = Arg.to]
            /\ found' = {t}
      BY <2>2 DEF CreateTarget
    <3>2. t \in Was("unborn")' BY <1>1, <1>4, <3>1 DEF Was, Same
    <3>3. state' = With(before.state, {t}, "live") /\ tag' = With(before.tag, {t}, Arg.to)
      BY <1>4, <3>1 DEF Same, With, Going, TypeOK
    <3> QED BY <1>1, <1>4, <2>2, <3>1, <3>2, <3>3 DEF Chosen
  <2> QED BY <2>1, <2>2 DEF CreateTarget
<1>6. Progress'
  <2>1. CASE Singular BY <1>1, <1>4, <1>5, <2>1 DEF Progress, Replaces
  <2>2. CASE ~Singular
    <3>1. LinkedBut(found)'
      BY <1>1, <1>4, <2>2 DEF LinkedBut, Left, Replaces
    <3>2. found' \subseteq Targets BY DEF CreateTarget
    <3>3. Linking' BY <1>1, <1>5, <2>2, <3>1, <3>2 DEF Linking, Singular
    <3> QED BY <1>1, <2>2, <3>3 DEF Progress
  <2> QED BY <2>1, <2>2
<1>7. Sound'
  <2>1. \A t \in Targets : /\ state'[t] = "unborn" => state[t] = "unborn"
                           /\ state'[t] # state[t] => state[t] = "unborn"
    BY DEF CreateTarget, Going, TypeOK
  <2>2. NoneUnborn(links)' BY <1>1, <2>1 DEF Going, Sound, NoneUnborn
  <2>3. \A s \in Sources : OneLive(s) => OneLive(s)'
    <3>1. \A s \in Sources, t \in Targets : links[<<s, t>>] > 0 => state'[t] = state[t]
      BY <2>1 DEF Going, Sound, NoneUnborn
    <3> QED BY <1>1, <3>1 DEF OneLive, Live
  <2> QED BY <1>1, <2>2, <2>3 DEF Going, Sound, OneSource, OneTarget, Linked
<1> QED BY <1>2, <1>3, <1>6, <1>7 DEF Kept

(* The rows that get returns: of a single slot there is one at most.       *)
LEMMA OwnRows ==
  ASSUME Going, at = "related"
  PROVE  /\ Attached = WasOwn /\ Attached \subseteq Targets
         /\ Verb \in {"update", "delete"} =>
              Gives({t \in Attached : state[t] = "live" /\ tag[t] \in Arg.where})
                = {WasOwn \cap Was("live") \cap Named}
<1>1. Busy /\ Same /\ links = before.links BY DEF Busy, Going, Progress
<1>2. Linked = WasOwn /\ Linked \subseteq Targets
  BY <1>1 DEF Linked, WasOwn, WasLinked, Pairs, Going, TypeOK
<1>3. Attached = WasOwn BY <1>1, <1>2 DEF Attached, Going, Sound, Busy
<1>4. {t \in Attached : state[t] = "live" /\ tag[t] \in Arg.where} = WasOwn \cap Was("live") \cap Named
  BY <1>1, <1>2, <1>3 DEF Was, Named, Same
<1>5. Verb \in {"update", "delete"} => turn < 7
  <2>1. turn \in 1..8 BY <1>1, VerbFacts DEF Going, Running, Busy
  <2> QED BY <2>1 DEF Verb, VERBS
<1>6. Verb \in {"update", "delete"} /\ Singular => \A t, u \in WasOwn \cap Was("live") \cap Named : t = u
  BY <1>1, <1>5 DEF Going, WasSound, Running
<1> QED BY <1>2, <1>3, <1>4, <1>6, GivesAll

LEMMA GetRelatedKeeps ==
  ASSUME Going, GetRelated
  PROVE  Kept'
<1> DEFINE seen == IF Verb = "restore" THEN {"live", "dead"} ELSE {"live"}
           all == {t \in Attached : state[t] \in seen /\ tag[t] \in Arg.where}
           own == WasOwn \cap Was("live") \cap Named
<1>1. /\ UNCHANGED <<kind, input, rows, row, hand, turn, before, state, tag, links>>
      /\ UNCHANGED <<Singular, KeyOnTarget, Verb, Arg>>
      /\ at = "related" /\ at' = IF Verb = "select" THEN "verb" ELSE Verb
  BY DEF GetRelated, choices, tables, control, Singular, KeyOnTarget, Verb, Arg
<1>2. Busy /\ Verb \in {"update", "delete", "restore", "select"} /\ turn \in 1..8
  BY <1>1, VerbFacts DEF Busy, Going, Running
<1>3. WasSound /\ WasSound' BY <1>1, <1>2, WasSoundKept DEF Going
<1>4. Same /\ links = before.links BY <1>1, <1>2 DEF Going, Progress
<1>5. Sound' BY <1>1 DEF Going, Sound, NoneUnborn, OneSource, OneTarget, Linked, OneLive, Live
<1>6. UNCHANGED <<WasLinked, WasOwn, Was("live"), Was("dead"), Was("unborn"), Named>>
  BY <1>1 DEF WasLinked, WasOwn, Was, Named
<1>7. PICK got \in Gives(all) :
        /\ found' = IF Verb = "restore" THEN {t \in got : state[t] = "dead"} ELSE got
        /\ jobs' = [t \in Targets |-> IF Verb = "delete" /\ t \in got THEN {"find"} ELSE {}]
  BY DEF GetRelated
<1>8. Verb \in {"update", "delete"} => got = own
  <2>1. Verb # "restore" => all = {t \in Attached : state[t] = "live" /\ tag[t] \in Arg.where}
    OBVIOUS
  <2> HIDE DEF all, own
  <2> QED BY <1>1, <1>7, <2>1, OwnRows DEF own
<1>9. CASE Verb = "select"
  <2>1. Now = Shows(before.state, before.tag, WasLinked)
    BY <1>4 DEF Now, Same, WasLinked
  <2>2. Says BY <1>9, <2>1, PromiseIs DEF Says, Promise
  <2>3. Says' BY <1>1, <2>2, SaysKept DEF choices, tables, GetRelated
  <2> QED BY <1>1, <1>5, <1>9, <2>3 DEF Kept, Busy
<1>10. CASE Verb = "update"
  <2>1. found' = own /\ at' = "update" BY <1>1, <1>7, <1>8, <1>10
  <2>2. (own \ found)' = {} BY <1>6, <2>1
  <2>3. before.tag = With(before.tag, {}, Arg.to) BY <1>3 DEF With, WasSound
  <2>4. Updating' BY <1>1, <1>4, <1>6, <1>10, <2>1, <2>2, <2>3 DEF Updating, Same
  <2> QED BY <1>3, <1>5, <2>1, <2>4 DEF Kept, Progress, VerbEnded
<1>11. CASE Verb = "delete"
  <2>1. at' = "delete" /\ got = own BY <1>1, <1>8, <1>11
  <2>2. \A t \in Targets : jobs'[t] = IF t \in own THEN {"find"} ELSE {} BY <1>7, <1>11, <2>1
  <2>3. found' = own BY <1>7, <1>11, <2>1
  <2>4. \A t \in (WasOwn \cap Live \cap Named)' : t \in own /\ t \in Targets
    BY <1>1, <1>4, <1>6 DEF Live, Same, Was
  <2>5. Deleting'
    <3> HIDE DEF own
    <3>1. \A t \in Was("live") : state[t] = "live" BY <1>4 DEF Was, Same
    <3>2. \A t \in (WasOwn \cap Live \cap Named)' : \E u \in Targets : jobs'[u] = {"find"} \/ t \in jobs'[u]
      BY <2>2, <2>4
    <3>3. \A t \in Targets : jobs'[t] # {} => t \in found' BY <2>2, <2>3
    <3>4. \A t \in Targets : jobs'[t] = {"find"} \/ jobs'[t] \subseteq Named' BY <2>2
    <3> QED BY <1>1, <1>4, <1>6, <1>11, <3>1, <3>2, <3>3, <3>4 DEF Deleting, Same
  <2> QED BY <1>3, <1>5, <2>1, <2>5 DEF Kept, Progress, VerbEnded
<1>12. CASE Verb = "restore"
  <2> DEFINE S == (WasOwn \ Was("unborn")) \cap Named
  <2>1. Attached = WasOwn /\ WasOwn \subseteq Targets BY <1>1, OwnRows
  <2>2. all \subseteq S /\ \A t \in S : t \notin all => t \notin Was("dead")
    BY <1>4, <1>12, <2>1 DEF Same, Was, Named
  <2>3. \A t \in Was("dead") : state[t] = "dead" BY <1>4 DEF Was, Same
  <2>4. found' = got \cap Was("dead")
    <3>1. got \subseteq all BY <1>7, GivesSome
    <3> QED BY <1>4, <1>7, <1>12, <2>1, <3>1 DEF Was, Same
  <2>5. \E T \in Gives(S) : found' = T \cap Was("dead")
    <3> HIDE DEF all, S
    <3>1. CASE ~Singular
      <4>1. got = all /\ Gives(S) = {S} BY <1>7, <3>1 DEF Gives
      <4>2. got \cap Was("dead") = S \cap Was("dead") BY <2>2, <4>1
      <4> QED BY <2>4, <4>1, <4>2
    <3>2. CASE Singular /\ all # {}
      <4>1. PICK t \in all : got = {t} BY <1>7, <3>2 DEF Gives
      <4>2. got \in Gives(S) BY <2>2, <3>2, <4>1 DEF Gives
      <4> QED BY <2>4, <4>2
    <3>3. CASE Singular /\ all = {}
      <4>1. got = {} BY <1>7, <3>3 DEF Gives
      <4>2. CASE S = {}
        <5>1. {} \in Gives(S) BY <3>3, <4>2 DEF Gives
        <5> QED BY <2>4, <4>1, <5>1
      <4>3. CASE S # {}
        <5>1. PICK t \in S : TRUE BY <4>3
        <5>2. {t} \in Gives(S) BY <3>3, <4>3, <5>1 DEF Gives
        <5>3. {t} \cap Was("dead") = {} BY <2>2, <3>3, <5>1
        <5> QED BY <2>4, <4>1, <5>2, <5>3
      <4> QED BY <4>2, <4>3
    <3> QED BY <3>1, <3>2, <3>3
  <2>6. PICK T \in Gives(S) : found' = T \cap Was("dead") BY <2>5
  <2>7. Gives(S)' = Gives(S) BY <1>1, <1>6 DEF Gives
  <2>8. (T \cap Was("dead")) \ found' = {} BY <2>6
  <2>9. before.state = With(before.state, {}, "live") BY <1>3 DEF With, WasSound
  <2>10. Restoring' BY <1>1, <1>4, <1>6, <1>12, <2>6, <2>7, <2>8, <2>9 DEF Restoring, Same
  <2> QED BY <1>1, <1>3, <1>5, <1>12, <2>10 DEF Kept, Progress, VerbEnded
<1> QED BY <1>2, <1>9, <1>10, <1>11, <1>12

LEMMA FindByFilterKeeps ==
  ASSUME Going, FindByFilter
  PROVE  Kept'
<1> DEFINE T == Was("live") \cap Named
<1>1. /\ UNCHANGED <<kind, input, rows, row, hand, turn, before, state, tag, links>>
      /\ UNCHANGED <<Singular, KeyOnTarget, Verb, Arg>>
      /\ at = "find"
  BY DEF FindByFilter, choices, tables, control, Singular, KeyOnTarget, Verb, Arg
<1>2. Busy BY <1>1 DEF Busy
<1>3. WasSound /\ WasSound' BY <1>1, <1>2, WasSoundKept DEF Going
<1>4. /\ Same /\ links = before.links
      /\ Verb \in {"add", "set", "remove"} /\ (Verb = "remove" => ~Singular)
  BY <1>1, <1>2 DEF Going, Progress
<1>5. Verb = "add" => ~Singular BY <1>2 DEF Going, Running, Offered, Busy
<1>6. Sound' BY <1>1, <1>2 DEF Going, Sound, NoneUnborn, OneSource, OneTarget, Linked, OneLive, Live, Busy
<1>7. UNCHANGED <<WasLinked, WasOwn, Was("live"), Named>>
  BY <1>1 DEF WasLinked, WasOwn, Was, Named
<1>8. found' \in Gives(T) /\ Gives(T)' = Gives(T) /\ T \subseteq Targets
  <2>1. Matching = T BY <1>4 DEF Matching, Live, Was, Named, Same
  <2>2. found' \in Gives(Matching) BY DEF FindByFilter
  <2>3. Gives(T)' = Gives(T) BY <1>1, <1>7 DEF Gives
  <2> QED BY <2>1, <2>2, <2>3 DEF Was
<1>9. found' \subseteq T BY <1>8, GivesSome
<1>10. CASE Verb = "set"
  <2>1. at' = "replace" BY <1>10 DEF FindByFilter
  <2>2. Chosen(found)' BY <1>1, <1>4, <1>8, <1>10 DEF Chosen, Same
  <2>3. Progress' BY <1>1, <1>4, <1>10, <2>1, <2>2 DEF Progress, Replaces
  <2> QED BY <1>3, <1>6, <2>1, <2>3 DEF Kept, VerbEnded
<1>11. CASE Verb # "set" /\ found' = {}
  <2>1. at' = "verb" /\ T = {} BY <1>4, <1>5, <1>8, <1>11 DEF FindByFilter, Gives
  <2>2. Says
    <3>1. CASE Verb = "add"
      <4>1. Joined(WasLinked, {}) = WasLinked BY <1>5, <3>1 DEF Joined
      <4>2. Now = Shows(before.state, before.tag, WasLinked) BY <1>4 DEF Now, Same, WasLinked
      <4> QED BY <2>1, <3>1, <4>1, <4>2, PromiseIs DEF Says, Promise
    <3>2. CASE Verb = "remove"
      <4>1. Linked \cap Live = (WasOwn \cap Was("live"))
        BY <1>4 DEF Linked, Live, WasOwn, WasLinked, Was, Same, Going, TypeOK, Pairs
      <4> QED BY <1>4, <2>1, <3>2, <4>1 DEF Says
    <3> QED BY <1>4, <1>11, <3>1, <3>2
  <2>3. Says' BY <1>1, <2>2, SaysKept DEF choices, tables, FindByFilter
  <2> QED BY <1>6, <2>1, <2>3 DEF Kept, Busy
<1>12. CASE Verb = "add" /\ found' # {}
  <2>1. at' = "link" BY <1>12 DEF FindByFilter
  <2>2. Chosen(found)' BY <1>1, <1>4, <1>8, <1>12 DEF Chosen, Same
  <2>3. LinkedBut(found)' BY <1>1, <1>4, <1>5, <1>12 DEF LinkedBut, Left, Replaces
  <2>4. Linking' BY <1>1, <1>5, <1>8, <1>9, <1>12, <2>2, <2>3 DEF Linking, Singular
  <2>5. Progress' BY <2>1, <2>4 DEF Progress
  <2> QED BY <1>3, <1>6, <2>1, <2>5 DEF Kept, VerbEnded
<1>13. CASE Verb = "remove" /\ found' # {}
  <2>1. at' = "unlink" BY <1>13 DEF FindByFilter
  <2>2. found' = T BY <1>4, <1>8, <1>13 DEF Gives
  <2>3. Unlinking' BY <1>1, <1>4, <1>7, <1>13, <2>2 DEF Unlinking, Same
  <2>4. Progress' BY <2>1, <2>3 DEF Progress
  <2> QED BY <1>3, <1>6, <2>1, <2>4 DEF Kept, VerbEnded
<1> QED BY <1>4, <1>10, <1>11, <1>12, <1>13

LEMMA UpdateKeeps ==
  ASSUME Going, UpdateOne
  PROVE  Kept'
<1> DEFINE own == WasOwn \cap Was("live") \cap Named
<1>1. /\ UNCHANGED <<kind, input, rows, row, hand, turn, at, before, state, links, Verb, Arg>>
      /\ at = "update"
  BY DEF UpdateOne, choices, control, Verb, Arg
<1>2. Busy /\ Busy' /\ ~VerbEnded' BY <1>1 DEF Busy, VerbEnded
<1>3. WasSound /\ WasSound' BY <1>1, <1>2, WasSoundKept DEF Going
<1>4. /\ Verb = "update" /\ state = before.state /\ links = before.links /\ found \subseteq own
      /\ tag = IF Arg.to = Nothing THEN before.tag ELSE With(before.tag, own \ found, Arg.to)
  BY <1>1, <1>2 DEF Going, Progress, Updating
<1>5. Sound'
  BY <1>1 DEF Going, Sound, NoneUnborn, KeyOnTarget, OneSource, OneTarget, Linked, OneLive, Live
<1>6. UNCHANGED own BY <1>1 DEF WasLinked, WasOwn, Was, Named
<1>7. PICK t \in found : /\ tag' = IF Arg.to = Nothing THEN tag ELSE [tag EXCEPT ![t] = Arg.to]
                         /\ found' = found \ {t}
  BY DEF UpdateOne
<1>8. tag' = IF Arg.to = Nothing THEN before.tag ELSE With(before.tag, own \ found', Arg.to)
  <2> HIDE DEF own
  <2>1. CASE Arg.to = Nothing BY <1>4, <1>7, <2>1
  <2>2. CASE Arg.to # Nothing
    <3>1. tag = With(before.tag, own \ found, Arg.to) BY <1>4, <2>2
    <3>2. own \ found' = (own \ found) \cup {t} BY <1>4, <1>7
    <3>3. [With(before.tag, own \ found, Arg.to) EXCEPT ![t] = Arg.to]
            = With(before.tag, (own \ found) \cup {t}, Arg.to)
      BY DEF With
    <3> QED BY <1>7, <2>2, <3>1, <3>2, <3>3
  <2> QED BY <2>1, <2>2
<1>9. found' \subseteq own BY <1>4, <1>7
<1>10. Updating' BY <1>1, <1>4, <1>6, <1>8, <1>9 DEF Updating
<1> QED BY <1>1, <1>2, <1>3, <1>5, <1>10 DEF Kept, Progress

LEMMA RestoreKeeps ==
  ASSUME Going, RestoreOne
  PROVE  Kept'
<1> DEFINE S == (WasOwn \ Was("unborn")) \cap Named
<1>1. /\ UNCHANGED <<kind, input, rows, row, hand, turn, at, before, tag, links, Verb, Arg, Singular>>
      /\ at = "restore"
  BY DEF RestoreOne, choices, control, Verb, Arg, Singular
<1>2. Busy /\ Busy' /\ ~VerbEnded' BY <1>1 DEF Busy, VerbEnded
<1>3. WasSound /\ WasSound' BY <1>1, <1>2, WasSoundKept DEF Going
<1>4. Verb = "restore" /\ tag = before.tag /\ links = before.links
  BY <1>1, <1>2 DEF Going, Progress, Restoring
<1>5. PICK T \in Gives(S) : /\ found \subseteq T \cap Was("dead")
                            /\ state = With(before.state, (T \cap Was("dead")) \ found, "live")
  BY <1>1, <1>2 DEF Going, Progress, Restoring
<1>6. PICK t \in found : state' = [state EXCEPT ![t] = "live"] /\ found' = found \ {t}
  BY DEF RestoreOne
<1>7. UNCHANGED <<S, Was("dead")>> BY <1>1 DEF WasLinked, WasOwn, Was, Named
<1>8. Gives(S)' = Gives(S) BY <1>1, <1>7 DEF Gives
<1>9. T \subseteq S BY <1>5, GivesSome
<1>10. state' = With(before.state, (T \cap Was("dead")) \ found', "live")
  <2> HIDE DEF S
  <2>1. (T \cap Was("dead")) \ found' = ((T \cap Was("dead")) \ found) \cup {t} BY <1>5, <1>6
  <2>2. [With(before.state, (T \cap Was("dead")) \ found, "live") EXCEPT ![t] = "live"]
          = With(before.state, ((T \cap Was("dead")) \ found) \cup {t}, "live")
    BY DEF With
  <2> QED BY <1>5, <1>6, <2>1, <2>2
<1>11. Restoring'
  <2> HIDE DEF S
  <2>1. found' \subseteq T \cap Was("dead")' BY <1>5, <1>6, <1>7
  <2>2. state' = With(before'.state, (T \cap Was("dead")') \ found', "live") BY <1>1, <1>7, <1>10
  <2> QED BY <1>1, <1>4, <1>5, <1>8, <2>1, <2>2 DEF Restoring, S
<1>12. Sound'
  <2>1. t \in WasOwn /\ t \in Targets /\ links[<<row, t>>] > 0
    BY <1>4, <1>5, <1>6, <1>9 DEF WasOwn, WasLinked
  <2>2. turn = 7
    <3>1. turn \in 1..8 BY <1>2, VerbFacts DEF Going, Running, Busy
    <3> QED BY <1>4, <3>1 DEF Verb, VERBS
  <2>3. \A u \in Targets : u # t => state'[u] = state[u] BY <1>6 DEF Going, TypeOK
  <2>4. NoneUnborn(links)' BY <1>1, <1>6, <2>1, <2>3 DEF Going, Sound, NoneUnborn, TypeOK
  <2>5. ASSUME kind = "hasOne", NEW s \in Sources, s \in rows PROVE OneLive(s)'
    <3>1. s # row BY <1>1, <2>5 DEF Going, Sound
    <3>2. ~(links[<<s, t>>] > 0)
      BY <2>1, <2>5, <3>1 DEF Going, Sound, KeyOnTarget, OneSource, TypeOK
    <3>3. OneLive(s) BY <2>5 DEF Going, Sound
    <3> QED BY <1>1, <2>3, <3>2, <3>3 DEF OneLive, Live
  <2> QED BY <1>1, <2>2, <2>4, <2>5 DEF Going, Sound, KeyOnTarget, OneSource, OneTarget, Linked
<1> QED BY <1>1, <1>2, <1>3, <1>11, <1>12 DEF Kept, Progress

LEMMA ReplaceKeeps ==
  ASSUME Going, Replace
  PROVE  Kept'
<1>1. /\ UNCHANGED <<kind, input, inPlace, rows, row, turn, before, state, tag, found>>
      /\ UNCHANGED <<Singular, KeyOnTarget, Verb, Arg, Replaces>>
      /\ at = "replace"
  BY DEF Replace, choices, Singular, KeyOnTarget, Verb, Arg, Replaces
<1>2. Busy BY <1>1 DEF Busy
<1>3. WasSound /\ WasSound' BY <1>1, <1>2, WasSoundKept DEF Going
<1>4. Replaces /\ Chosen(found) /\ links = before.links BY <1>1, <1>2 DEF Going, Progress
<1>5. Chosen(found)' BY <1>1, <1>4 DEF Chosen, Same, Gives, Was, Named
<1>6. /\ found \subseteq Targets /\ \A t \in found : state[t] = "live"
      /\ Singular => \A t, u \in found : t = u
  BY <1>3, <1>4, ChosenFacts DEF Going
<1>7. CASE kind = "belongsTo"
  <2>1. PointSource(found) /\ at' = "verb" BY <1>7 DEF Replace, KeyOnTarget
  <2>2. Singular /\ ~KeyOnTarget BY <1>7 DEF Singular, KeyOnTarget
  <2>3. links' \in [Pairs -> Nat]
    BY <1>1, <2>1 DEF PointSource, Going, TypeOK
  <2>4. \A p \in Pairs : links'[p] > 0 <=>
          IF p[2] \in found /\ (KeyOnTarget \/ p[1] = row) THEN p[1] = row ELSE Left(p, found)
    BY <1>4, <2>1, <2>2 DEF PointSource, Left
  <2>5. hand' = found /\ Linked' = found
    <3>1. \A t \in Targets : links'[<<row, t>>] > 0 <=> t \in found
      BY <2>1 DEF PointSource, Pairs, Going, TypeOK
    <3> QED BY <1>1, <1>6, <2>1, <3>1 DEF PointSource, Linked, Going
  <2>6. Sound'
    <3>1. \A s \in Sources, t \in Targets :
            links'[<<s, t>>] > 0 => IF s = row THEN t \in found ELSE links[<<s, t>>] > 0
      BY <2>1 DEF PointSource, Pairs
    <3>2. NoneUnborn(links)' BY <1>1, <1>6, <3>1 DEF Going, Sound, NoneUnborn
    <3>3. OneTarget(links', Targets) BY <1>6, <1>7, <2>2, <3>1 DEF Going, Sound, OneTarget
    <3> QED BY <1>1, <1>2, <1>7, <2>2, <2>5, <3>2, <3>3 DEF Sound, Going, Busy
  <2>7. Says'
    <3>1. CASE Verb = "remove"
      <4>1. found = {} BY <1>4, <2>2, <3>1 DEF Chosen
      <4>2. (Linked \cap Live)' = {} BY <2>5, <4>1
      <4> QED BY <1>1, <2>2, <3>1, <4>2 DEF Says
    <3>2. CASE Verb = "create" /\ Arg.to = Nothing BY <1>1, <3>2 DEF Says
    <3>3. CASE Verb # "remove" /\ (Verb = "create" => Arg.to # Nothing)
      <4>1. Verb # "add" BY <1>2, <2>2 DEF Going, Running, Offered, Busy
      <4>2. Shows(state, tag, {p \in Pairs : links'[p] > 0}) \in Promised
        BY <1>3, <1>4, <2>3, <2>4, <3>3, <4>1, LinksSay DEF Going
      <4>3. Now' \in Promised
        BY <1>1, <4>2 DEF Now
      <4>4. Now' \in Promised' BY <1>1, <4>3, PromisedKept DEF Replace
      <4>5. Verb \in {"create", "set"} BY <1>4, <3>3, <4>1 DEF Chosen
      <4> QED BY <1>1, <4>4, <4>5 DEF Says
    <3> QED BY <3>1, <3>2, <3>3
  <2> QED BY <2>1, <2>6, <2>7 DEF Kept, Busy
<1>8. CASE kind = "belongsToMany"
  <2>1. DropEdges(Targets) /\ at' = "link" /\ hand' = hand BY <1>8 DEF Replace, KeyOnTarget
  <2>2. ~Singular /\ ~KeyOnTarget BY <1>8 DEF Singular, KeyOnTarget
  <2>3. \A p \in Pairs : links'[p] > 0 <=> links[p] > 0 /\ p[1] # row
    BY <2>1 DEF DropEdges, Pairs
  <2>4. LinkedBut(found)' BY <1>1, <1>4, <2>2, <2>3 DEF LinkedBut, Left
  <2>5. Linking' BY <1>1, <1>5, <1>6, <1>8, <2>4 DEF Linking
  <2>6. Sound' BY <1>1, <1>8, <2>1, <2>3, SoundFewer DEF Going
  <2> QED BY <1>3, <2>1, <2>5, <2>6 DEF Kept, Progress, VerbEnded
<1>9. CASE KeyOnTarget
  <2>1. PICK got \in Gives(Linked \cap Live) :
          jobs' = [t \in Targets |-> IF t \in got /\ ~Stays(t) THEN {"drop"} ELSE {}]
    BY <1>9 DEF Replace, KeyOnTarget
  <2>2. at' = "drop" /\ UNCHANGED <<links, hand>> BY <1>9 DEF Replace, KeyOnTarget
  <2>3. got = WasOwn \cap Was("live")
    <3>1. Linked \cap Live = WasOwn \cap Was("live")
      <4>1. Linked = WasOwn BY <1>4 DEF Linked, WasOwn, WasLinked, Going, TypeOK, Pairs
      <4>2. \A t \in WasOwn : t \in Live <=> t \in Was("live")
        BY <1>3, <1>4, ChosenFacts DEF Live, Was, WasOwn, Going
      <4> QED BY <4>1, <4>2
    <3>2. turn < 7
      <4>1. turn \in 1..8 BY <1>2, VerbFacts DEF Going, Running, Busy
      <4> QED BY <1>4, <4>1 DEF Chosen, Verb, VERBS
    <3>3. Singular => \A t, u \in WasOwn \cap Was("live") : t = u BY <1>3, <3>2 DEF WasSound
    <3> QED BY <2>1, <3>1, <3>3, GivesAll
  <2>4. LetGo(found)' = LetGo(found) BY <1>1 DEF LetGo, WasOwn, WasLinked, Was
  <2>5. \A t \in Targets : jobs'[t] = IF t \in LetGo(found) THEN {"drop"} ELSE {}
    BY <2>1, <2>3 DEF LetGo, Stays
  <2>6. Dropping'
    <3>1. \A p \in Pairs : p[2] \in Targets BY DEF Pairs
    <3> QED BY <1>1, <1>4, <1>5, <1>9, <2>2, <2>4, <2>5, <3>1 DEF Dropping
  <2>7. Sound' BY <1>1, <2>2, SoundFewer DEF Going
  <2> QED BY <1>3, <2>2, <2>6, <2>7 DEF Kept, Progress, VerbEnded
<1> QED BY <1>7, <1>8, <1>9 DEF Replace

LEMMA DropKeeps ==
  ASSUME Going, DropOne
  PROVE  Kept'
<1>1. /\ UNCHANGED <<kind, input, rows, row, hand, turn, at, before, state, tag, found>>
      /\ UNCHANGED <<Singular, KeyOnTarget, Verb, Arg, Replaces>>
      /\ at = "drop"
  BY DEF DropOne, choices, control, Singular, KeyOnTarget, Verb, Arg, Replaces
<1>2. Busy /\ Busy' /\ ~VerbEnded' BY <1>1 DEF Busy, VerbEnded
<1>3. WasSound' BY <1>1, <1>2, WasSoundKept DEF Going
<1>4. Dropping BY <1>1, <1>2 DEF Going, Progress
<1>5. PICK t \in Targets : jobs[t] = {"drop"} /\ PointTarget(t, {}) /\ jobs' = [jobs EXCEPT ![t] = {}]
  BY DEF DropOne
<1>6. \A p \in Pairs : links'[p] > 0 <=> links[p] > 0 /\ p[2] # t BY <1>5 DEF PointTarget
<1>7. Sound' BY <1>1, <1>4, <1>6, SoundFewer DEF Going, Dropping, KeyOnTarget
<1>8. Chosen(found)' BY <1>1, <1>4 DEF Dropping, Chosen, Same, Gives, Was, Named
<1>9. LetGo(found)' = LetGo(found) BY <1>1 DEF LetGo, WasOwn, WasLinked, Was
<1>10. Dropping'
  <2>1. t \in LetGo(found) BY <1>4, <1>5 DEF Dropping
  <2>2. \A u \in Targets : jobs'[u] = IF u = t THEN {} ELSE jobs[u] BY <1>5 DEF Going, TypeOK
  <2>3. \A p \in Pairs : p[2] \in Targets BY DEF Pairs
  <2> QED BY <1>1, <1>4, <1>6, <1>8, <1>9, <2>1, <2>2, <2>3 DEF Dropping
<1> QED BY <1>1, <1>2, <1>3, <1>7, <1>10 DEF Kept, Progress

LEMMA DroppedKeeps ==
  ASSUME Going, Dropped
  PROVE  Kept'
<1>1. /\ UNCHANGED <<kind, input, rows, row, hand, turn, before, state, tag, links, found>>
      /\ UNCHANGED <<Singular, KeyOnTarget, Verb, Arg, Replaces>>
      /\ at = "drop" /\ at' = "link"
  BY DEF Dropped, choices, control, tables, Singular, KeyOnTarget, Verb, Arg, Replaces
<1>2. Busy /\ Busy' /\ ~VerbEnded' BY <1>1 DEF Busy, VerbEnded
<1>3. WasSound' BY <1>1, <1>2, WasSoundKept DEF Going
<1>4. Dropping BY <1>1, <1>2 DEF Going, Progress
<1>5. Sound' BY <1>1, SoundFewer DEF Going
<1>6. Chosen(found)' BY <1>1, <1>4 DEF Dropping, Chosen, Same, Gives, Was, Named
<1>7. LetGo(found)' = LetGo(found) BY <1>1 DEF LetGo, WasOwn, WasLinked, Was
<1>8. LinkedBut(found)'
  <2>1. \A p \in Pairs : jobs[p[2]] = {} BY DEF Dropped, Pairs
  <2>2. \A p \in Pairs : links[p] > 0 <=> before.links[p] > 0 /\ p[2] \notin LetGo(found)
    BY <1>4, <2>1 DEF Dropping
  <2> QED BY <1>1, <1>4, <1>7, <2>2 DEF LinkedBut, Left, Dropping
<1>9. Linking' BY <1>1, <1>4, <1>6, <1>8 DEF Linking, Dropping, KeyOnTarget, Going, TypeOK
<1> QED BY <1>1, <1>2, <1>3, <1>5, <1>9 DEF Kept, Progress

(* One more of what is to be linked is linked. *)
LEMMA OneMoreKeeps ==
  ASSUME Going, at \in {"link", "join"}, at' \in {"link", "join"},
         UNCHANGED <<kind, input, rows, row, hand, turn, before, state, tag>>,
         NEW t \in found, found' = found \ {t},
         \A p \in Pairs : links'[p] > 0 <=>
           IF p[2] = t /\ (KeyOnTarget \/ p[1] = row) THEN p[1] = row ELSE links[p] > 0
  PROVE  Kept'
<1>1. UNCHANGED <<Singular, KeyOnTarget, Verb, Arg, Replaces>>
  BY DEF Singular, KeyOnTarget, Verb, Arg, Replaces
<1>2. Busy /\ Busy' /\ ~VerbEnded' BY DEF Busy, VerbEnded
<1>3. WasSound /\ WasSound' BY <1>1, <1>2, WasSoundKept DEF Going
<1>4. PICK T \in SUBSET Targets : Chosen(T) /\ found \subseteq T /\ LinkedBut(T)
  BY <1>1, <1>2 DEF Going, Progress, Linking
<1>5. kind # "belongsTo" BY <1>1, <1>2 DEF Going, Progress, Linking
<1>6. found' = found \ {t} OBVIOUS
<1>7. /\ t \in T /\ t \in Targets /\ state[t] = "live"
      /\ Singular => \A u \in T : u = t
      /\ \A u \in Targets : u \notin T => state[u] = before.state[u]
  BY <1>3, <1>4, <1>6, ChosenFacts DEF Going
<1>8. Chosen(T)' BY <1>1, <1>4 DEF Chosen, Same, Gives, Was, Named
<1>9. \A p \in Pairs : Left(p, T)' <=> Left(p, T)
  BY <1>1 DEF Left, LetGo, WasOwn, WasLinked, Was
<1>10. \A p \in Pairs : links'[p] > 0 <=>
         IF p[2] = t /\ (KeyOnTarget \/ p[1] = row) THEN p[1] = row ELSE links[p] > 0
  OBVIOUS
<1>11. LinkedBut(T)'
  <2>1. T \ found' = (T \ found) \cup {t} BY <1>6, <1>7
  <2> QED BY <1>1, <1>4, <1>9, <1>10, <2>1 DEF LinkedBut
<1>12. Linking' BY <1>1, <1>4, <1>5, <1>6, <1>8, <1>11 DEF Linking
<1>13. Sound'
  <2>1. \A s \in Sources, u \in Targets : links'[<<s, u>>] > 0 <=>
          IF u = t /\ (KeyOnTarget \/ s = row) THEN s = row ELSE links[<<s, u>>] > 0
    BY <1>10 DEF Pairs
  <2>2. NoneUnborn(links)' BY <1>1, <1>7, <2>1 DEF Going, Sound, NoneUnborn
  <2>3. (KeyOnTarget => OneSource(links))' BY <1>1, <2>1 DEF Going, Sound, OneSource
  <2>4. ASSUME kind = "hasOne", NEW s \in Sources, s \in rows \/ (s = row /\ turn < 7)
        PROVE  OneLive(s)'
    <3>1. Singular /\ KeyOnTarget /\ Replaces BY <2>4 DEF Singular, KeyOnTarget, Replaces
    <3>2. CASE s # row
      <4>1. OneLive(s) BY <2>4 DEF Going, Sound
      <4> QED BY <1>1, <2>1, <3>1, <3>2, <4>1 DEF OneLive, Live
    <3>3. CASE s = row
      <4>1. ASSUME NEW u \in Live, links[<<row, u>>] > 0 PROVE u = t
        <5>1. u \in Targets /\ <<row, u>> \in Pairs BY DEF Live, Pairs, Going, TypeOK
        <5>2. CASE u \in T BY <1>7, <3>1, <5>2
        <5>3. CASE u \notin T
          <6>1. Left(<<row, u>>, T) BY <1>4, <4>1, <5>1, <5>3 DEF LinkedBut
          <6>2. u \notin LetGo(T) /\ u \in WasOwn
            BY <3>1, <5>1, <6>1 DEF Left, WasOwn, WasLinked
          <6>3. u \in Was("live") BY <1>7, <5>1, <5>3 DEF Was, Live
          <6> QED BY <5>3, <6>2, <6>3 DEF LetGo
        <5> QED BY <5>2, <5>3
      <4> QED BY <1>1, <2>1, <3>3, <4>1 DEF OneLive, Live
    <3> QED BY <3>2, <3>3
  <2> QED BY <1>1, <1>5, <2>2, <2>3, <2>4 DEF Going, Sound
<1> QED BY <1>1, <1>2, <1>3, <1>12, <1>13 DEF Kept, Progress

(* Nothing is linked yet. *)
LEMMA SameLinksKeep ==
  ASSUME Going, at = "link", at' = "join",
         UNCHANGED <<kind, input, rows, row, hand, turn, before, state, tag, links, found>>
  PROVE  Kept'
<1>1. UNCHANGED <<Singular, KeyOnTarget, Verb, Arg, Replaces>>
  BY DEF Singular, KeyOnTarget, Verb, Arg, Replaces
<1>2. Busy /\ Busy' /\ ~VerbEnded' BY DEF Busy, VerbEnded
<1>3. WasSound' BY <1>1, <1>2, WasSoundKept DEF Going
<1>4. PICK T \in SUBSET Targets : Chosen(T) /\ found \subseteq T /\ LinkedBut(T)
  BY <1>2 DEF Going, Progress, Linking
<1>5. kind # "belongsTo" BY <1>2 DEF Going, Progress, Linking
<1>6. Chosen(T)' BY <1>1, <1>4 DEF Chosen, Same, Gives, Was, Named
<1>7. LinkedBut(T)' BY <1>1, <1>4 DEF LinkedBut, Left, LetGo, WasOwn, WasLinked, Was
<1>8. Linking' BY <1>4, <1>5, <1>6, <1>7 DEF Linking
<1>9. Sound' BY <1>5, SoundFewer DEF Going
<1> QED BY <1>1, <1>2, <1>3, <1>8, <1>9 DEF Kept, Progress

LEMMA LinkKeeps ==
  ASSUME Going, LinkOne
  PROVE  Kept'
<1>1. PICK t \in found : PointTarget(t, {row}) /\ found' = found \ {t} BY DEF LinkOne
<1>2. /\ UNCHANGED <<kind, input, rows, row, hand, turn, before, state, tag>>
      /\ at = "link" /\ at' = "link" /\ KeyOnTarget
  BY DEF LinkOne, choices, control
<1>3. \A p \in Pairs : links'[p] > 0 <=>
        IF p[2] = t /\ (KeyOnTarget \/ p[1] = row) THEN p[1] = row ELSE links[p] > 0
  BY <1>1, <1>2 DEF PointTarget
<1> QED BY <1>1, <1>2, <1>3, OneMoreKeeps

(* Where one pair's count has become positive, or stays so.                *)
LEMMA OnePair ==
  ASSUME TypeOK, ~KeyOnTarget, NEW t \in Targets,
         \/ links' = [links EXCEPT ![<<row, t>>] = @ + 1]
         \/ links' = links /\ links[<<row, t>>] > 0
  PROVE  \A p \in Pairs : links'[p] > 0 <=>
           IF p[2] = t /\ (KeyOnTarget \/ p[1] = row) THEN p[1] = row ELSE links[p] > 0
<1>1. links \in [Pairs -> Nat] /\ <<row, t>> \in Pairs BY DEF TypeOK, Pairs
<1>2. \A p \in Pairs : p = <<row, t>> <=> p[1] = row /\ p[2] = t BY DEF Pairs
<1>3. \A p \in Pairs : links'[p] > 0 <=> p = <<row, t>> \/ links[p] > 0 BY <1>1
<1> QED BY <1>2, <1>3

LEMMA LookForKeeps ==
  ASSUME Going, LookForEdge
  PROVE  Kept'
<1>1. /\ UNCHANGED <<kind, input, rows, row, hand, turn, before, state, tag, links>>
      /\ at = "link" /\ ~KeyOnTarget
  BY DEF LookForEdge, choices, control, tables, KeyOnTarget
<1>2. PICK t \in found :
        \/ links[<<row, t>>] > 0 /\ found' = found \ {t} /\ at' = at
        \/ at' = "join" /\ UNCHANGED found
  BY DEF LookForEdge
<1>3. CASE links[<<row, t>>] > 0 /\ found' = found \ {t} /\ at' = at
  <2>1. t \in Targets /\ TypeOK BY DEF Going, TypeOK
  <2>2. \A p \in Pairs : links'[p] > 0 <=>
          IF p[2] = t /\ (KeyOnTarget \/ p[1] = row) THEN p[1] = row ELSE links[p] > 0
    BY <1>1, <1>3, <2>1, OnePair
  <2> QED BY <1>1, <1>3, <2>2, OneMoreKeeps
<1>4. CASE at' = "join" /\ UNCHANGED found BY <1>1, <1>4, SameLinksKeep
<1> QED BY <1>2, <1>3, <1>4

LEMMA CreateEdgeKeeps ==
  ASSUME Going, CreateEdge
  PROVE  Kept'
<1>1. /\ UNCHANGED <<kind, input, rows, row, hand, turn, before, state, tag>>
      /\ at = "join" /\ at' = "link" /\ ~KeyOnTarget
  BY DEF CreateEdge, choices, control, Going, Running, KeyOnTarget
<1>2. PICK t \in found : links' = [links EXCEPT ![<<row, t>>] = @ + 1] /\ found' = found \ {t}
  BY DEF CreateEdge
<1>3. \A p \in Pairs : links'[p] > 0 <=>
        IF p[2] = t /\ (KeyOnTarget \/ p[1] = row) THEN p[1] = row ELSE links[p] > 0
  <2>1. t \in Targets /\ TypeOK BY DEF Going, TypeOK
  <2> QED BY <1>1, <1>2, <2>1, OnePair
<1> QED BY <1>1, <1>2, <1>3, OneMoreKeeps

LEMMA UnlinkKeeps ==
  ASSUME Going, Unlink
  PROVE  Kept'
<1> DEFINE T == Was("live") \cap Named
<1>1. /\ UNCHANGED <<kind, input, rows, row, hand, turn, at, before, state, tag>>
      /\ UNCHANGED <<Singular, KeyOnTarget, Verb, Arg>>
      /\ at = "unlink"
  BY DEF Unlink, choices, control, Singular, KeyOnTarget, Verb, Arg
<1>2. Busy /\ Busy' /\ ~VerbEnded' BY <1>1 DEF Busy, VerbEnded
<1>3. WasSound' BY <1>1, <1>2, WasSoundKept DEF Going
<1>4. Unlinking BY <1>1, <1>2 DEF Going, Progress
<1>5. T' = T BY <1>1 DEF Was, Named
<1>6. found' \subseteq found
      /\ \A p \in Pairs : links'[p] > 0 <=>
           links[p] > 0 /\ ~(p[2] \in found \ found' /\ (KeyOnTarget \/ p[1] = row))
  <2>1. CASE KeyOnTarget /\ \E t \in found : PointTarget(t, {}) /\ found' = found \ {t}
    BY <2>1 DEF PointTarget
  <2>2. CASE ~KeyOnTarget /\ DropEdges(found) /\ found' = {}
    BY <2>2 DEF DropEdges
  <2> QED BY <2>1, <2>2 DEF Unlink
<1>7. Sound'
  <2>1. kind # "belongsTo" BY <1>4 DEF Unlinking, Singular
  <2> QED BY <1>1, <1>6, <2>1, SoundFewer DEF Going
<1>8. Unlinking'
  <2>1. /\ Verb = "remove" /\ ~Singular /\ Same /\ found \subseteq T
        /\ \A p \in Pairs : links[p] > 0 <=>
             before.links[p] > 0 /\ ~(p[2] \in T \ found /\ (KeyOnTarget \/ p[1] = row))
    BY <1>4 DEF Unlinking
  <2> HIDE DEF T
  <2>2. \A p \in Pairs : links'[p] > 0 <=>
          before.links[p] > 0 /\ ~(p[2] \in T \ found' /\ (KeyOnTarget \/ p[1] = row))
    BY <1>6, <2>1
  <2>3. Same' BY <1>1, <2>1 DEF Same
  <2> QED BY <1>1, <1>5, <1>6, <2>1, <2>2, <2>3 DEF Unlinking, T
<1> QED BY <1>1, <1>2, <1>3, <1>7, <1>8 DEF Kept, Progress

LEMMA DeleteFindKeeps ==
  ASSUME Going, NEW t \in Targets, DeleteFind(t)
  PROVE  Kept'
<1>1. /\ UNCHANGED <<kind, input, rows, row, hand, turn, at, before, state, tag, links, Verb, Arg>>
      /\ at = "delete" /\ jobs[t] = {"find"}
      /\ jobs' = [jobs EXCEPT ![t] = Matching]
      /\ found' = IF Matching = {} THEN found \ {t} ELSE found
  BY DEF DeleteFind, choices, tables, control, Verb, Arg
<1>2. Busy /\ Busy' /\ ~VerbEnded' BY <1>1 DEF Busy, VerbEnded
<1>3. WasSound' BY <1>1, <1>2, WasSoundKept DEF Going
<1>4. Deleting BY <1>1, <1>2 DEF Going, Progress
<1>5. Sound' BY <1>1, SoundFewer DEF Going
<1>6. UNCHANGED <<WasOwn, Was("live"), Named, Live>> BY <1>1 DEF WasOwn, WasLinked, Was, Named, Live
<1>7. Matching = Live \cap Named BY <1>4 DEF Deleting, Matching, Named, Live
<1>8. \A u \in Targets : jobs'[u] = IF u = t THEN Matching ELSE jobs[u] BY <1>1 DEF Going, TypeOK
<1>9. \A u \in Targets : jobs'[u] = {"find"} \/ jobs'[u] \subseteq Named
  BY <1>4, <1>7, <1>8 DEF Deleting
<1>10. \A u \in Targets : jobs'[u] # {} => u \in found'
  BY <1>1, <1>4, <1>8 DEF Deleting
<1>11. \A v \in WasOwn \cap Live \cap Named : \E u \in Targets : jobs'[u] = {"find"} \/ v \in jobs'[u]
  BY <1>7, <1>8
<1>12. Deleting' BY <1>1, <1>4, <1>6, <1>9, <1>10, <1>11 DEF Deleting
<1> QED BY <1>1, <1>2, <1>3, <1>5, <1>12 DEF Kept, Progress

LEMMA DeleteOneKeeps ==
  ASSUME Going, NEW t \in Targets, DeleteOne(t)
  PROVE  Kept'
<1>1. /\ UNCHANGED <<kind, input, rows, row, hand, turn, at, before, tag, Verb, Arg, KeyOnTarget>>
      /\ at = "delete" /\ jobs[t] # {} /\ jobs[t] # {"find"}
  BY DEF DeleteOne, choices, control, Verb, Arg, KeyOnTarget
<1>2. Busy /\ Busy' /\ ~VerbEnded' BY <1>1 DEF Busy, VerbEnded
<1>3. WasSound' BY <1>1, <1>2, WasSoundKept DEF Going
<1>4. Deleting BY <1>1, <1>2 DEF Going, Progress
<1>5. PICK u \in jobs[t] :
        /\ state' = [state EXCEPT ![u] = IF paranoid THEN "dead" ELSE "gone"]
        /\ IF KeyOnTarget /\ ~paranoid THEN PointTarget(u, {}) ELSE UNCHANGED links
        /\ jobs' = [jobs EXCEPT ![t] = @ \ {u}]
        /\ found' = IF jobs[t] = {u} THEN found \ {t} ELSE found
  BY DEF DeleteOne
<1>6. u \in Named /\ u \in Targets BY <1>1, <1>4, <1>5 DEF Deleting, Named
<1>7. \A v \in Targets : state'[v] = IF v = u THEN IF paranoid THEN "dead" ELSE "gone" ELSE state[v]
  BY <1>5 DEF Going, TypeOK
<1>8. \A p \in Pairs : links'[p] = links[p] \/ (p[2] = u /\ links'[p] = 0)
  BY <1>5 DEF PointTarget
<1>9. \A v \in Targets : jobs'[v] = IF v = t THEN jobs[t] \ {u} ELSE jobs[v]
  BY <1>5 DEF Going, TypeOK
<1>10. Sound'
  <2>1. \A p \in Pairs : links'[p] > 0 => links[p] > 0 BY <1>8
  <2>2. kind = "belongsTo" => links' = links BY <1>5 DEF KeyOnTarget
  <2> QED BY <1>1, <1>7, <2>1, <2>2, SoundFewer DEF Going
<1>11. Deleting'
  <2>1. UNCHANGED <<WasOwn, Was("live"), Named>> BY <1>1 DEF WasOwn, WasLinked, Was, Named
  <2>2. Live' = Live \ {u} BY <1>7 DEF Live
  <2>3. \A p \in Pairs : IF state'[p[2]] = "live" THEN links'[p] = before.links[p]
                         ELSE links'[p] > 0 => before.links[p] > 0
    <3>1. \A p \in Pairs : p[2] \in Targets BY DEF Pairs
    <3> QED BY <1>4, <1>7, <1>8, <3>1 DEF Deleting
  <2>4. \A v \in Targets : jobs'[v] = {"find"} \/ jobs'[v] \subseteq Named
    BY <1>1, <1>4, <1>9 DEF Deleting
  <2>5. \A v \in Targets : jobs'[v] # {} => v \in found'
    BY <1>4, <1>5, <1>9 DEF Deleting
  <2>6. \A v \in WasOwn \cap Live' \cap Named : \E w \in Targets : jobs'[w] = {"find"} \/ v \in jobs'[w]
    <3> SUFFICES ASSUME NEW v \in WasOwn \cap Live \cap Named, v # u
                 PROVE  \E w \in Targets : jobs'[w] = {"find"} \/ v \in jobs'[w]
      BY <2>2
    <3>1. PICK w \in Targets : jobs[w] = {"find"} \/ v \in jobs[w] BY <1>4 DEF Deleting
    <3> QED BY <1>1, <1>9, <3>1
  <2>7. \A v \in Targets : state'[v] = "live" => before.state[v] = "live"
    BY <1>4, <1>7 DEF Deleting
  <2>8. \A v \in Was("live") : v \notin Named => state'[v] = "live"
    BY <1>4, <1>6, <1>7 DEF Deleting, Was
  <2> QED BY <1>1, <1>4, <2>1, <2>3, <2>4, <2>5, <2>6, <2>7, <2>8 DEF Deleting
<1> QED BY <1>1, <1>2, <1>3, <1>10, <1>11 DEF Kept, Progress

(* A verb that has nothing left to do has done what it says.               *)
LEMMA EndSays ==
  ASSUME Going, at \in {"update", "delete", "restore", "link", "unlink"}, found = {}
  PROVE  Says
<1>1. Busy /\ WasSound /\ Progress /\ TypeOK BY DEF Busy, Going
<1>2. /\ Linked = {t \in Targets : links[<<row, t>>] > 0}
      /\ WasOwn = {t \in Targets : before.links[<<row, t>>] > 0}
      /\ \A t \in Targets : <<row, t>> \in Pairs
  BY <1>1 DEF Linked, WasOwn, WasLinked, Pairs, TypeOK
<1>3. links = before.links => Now = Shows(state, tag, WasLinked) BY DEF Now, WasLinked
<1>4. CASE at = "update"
  <2>1. Updating BY <1>1, <1>4 DEF Progress
  <2> DEFINE own == WasOwn \cap Was("live") \cap Named
  <2>2. own \ found = own OBVIOUS
  <2>3. tag = IF Arg.to = Nothing THEN before.tag ELSE With(before.tag, own, Arg.to)
    BY <2>1, <2>2 DEF Updating
  <2>4. Promise(Now) BY <1>3, <2>1, <2>3 DEF Promise, Updating
  <2> QED BY <2>1, <2>4, PromiseIs DEF Says, Updating
<1>5. CASE at = "restore"
  <2>1. Restoring BY <1>1, <1>5 DEF Progress
  <2>2. PICK T \in Gives((WasOwn \ Was("unborn")) \cap Named) :
          state = With(before.state, (T \cap Was("dead")) \ found, "live")
    BY <2>1 DEF Restoring
  <2>3. (T \cap Was("dead")) \ found = T \cap Was("dead") OBVIOUS
  <2>4. Now = Shows(With(before.state, T \cap Was("dead"), "live"), before.tag, WasLinked)
    BY <1>3, <2>1, <2>2, <2>3 DEF Restoring
  <2>5. Promise(Now) BY <2>1, <2>4 DEF Promise, Restoring
  <2> QED BY <2>1, <2>5, PromiseIs DEF Says, Restoring
<1>6. CASE at = "link"
  <2>1. PICK T \in SUBSET Targets : Chosen(T) /\ LinkedBut(T) BY <1>1, <1>6 DEF Progress, Linking
  <2>2. \A p \in Pairs : links[p] > 0 <=>
          IF p[2] \in T /\ (KeyOnTarget \/ p[1] = row) THEN p[1] = row ELSE Left(p, T)
    BY <2>1 DEF LinkedBut
  <2>3. CASE Verb = "remove" /\ Singular
    <3>1. T = {} /\ Same BY <2>1, <2>3 DEF Chosen
    <3>2. ASSUME NEW t \in Linked \cap Live PROVE FALSE
      <4>1. t \in Targets /\ <<row, t>> \in Pairs /\ links[<<row, t>>] > 0 /\ t \in Was("live")
        BY <1>2, <3>1 DEF Live, Was, Same
      <4>2. Left(<<row, t>>, T) BY <2>2, <3>1, <4>1
      <4> QED BY <1>2, <2>3, <3>1, <4>1, <4>2 DEF Left, LetGo, Replaces
    <3> QED BY <2>3, <3>2 DEF Says
  <2>5. CASE Verb = "create" /\ Arg.to = Nothing BY <2>5 DEF Says
  <2>6. CASE Verb # "remove" /\ (Verb = "create" => Arg.to # Nothing)
    <3>1. Verb = "add" => ~Singular BY <1>1 DEF Going, Running, Offered, Busy
    <3>2. links \in [Pairs -> Nat] BY <1>1 DEF TypeOK
    <3>3. Shows(state, tag, {p \in Pairs : links[p] > 0}) \in Promised
      BY <1>1, <2>1, <2>2, <2>6, <3>1, <3>2, LinksSay
    <3>4. Verb \notin {"delete", "remove"} BY <2>1, <2>6 DEF Chosen
    <3> QED BY <3>3, <3>4 DEF Says, Now
  <2>4. Verb = "remove" => Singular BY <2>1 DEF Chosen
  <2> QED BY <2>3, <2>4, <2>5, <2>6
<1>7. CASE at = "unlink"
  <2>1. Unlinking BY <1>1, <1>7 DEF Progress
  <2>2. Linked \cap Live = (WasOwn \cap Was("live")) \ Named
    <3>1. \A t \in Targets : links[<<row, t>>] > 0 <=>
            before.links[<<row, t>>] > 0 /\ t \notin Was("live") \cap Named
      BY <1>2, <2>1 DEF Unlinking
    <3>2. Live = Was("live") BY <2>1 DEF Unlinking, Same, Live, Was
    <3> QED BY <1>2, <3>1, <3>2
  <2> QED BY <2>1, <2>2 DEF Says, Unlinking
<1>8. CASE at = "delete"
  <2>1. Deleting BY <1>1, <1>8 DEF Progress
  <2>2. \A t \in Targets : jobs[t] = {} BY <2>1 DEF Deleting
  <2>3. \A t \in WasOwn \cap Live : t \notin Named BY <2>1, <2>2 DEF Deleting
  <2>4. \A t \in Targets : state[t] = "live" => (links[<<row, t>>] > 0 <=> before.links[<<row, t>>] > 0)
    BY <1>2, <2>1 DEF Deleting
  <2>5. \A t \in Was("live") : t \notin Named => t \in Live BY <2>1 DEF Deleting, Live, Was
  <2>6. \A t \in Live : t \in Was("live") BY <2>1 DEF Deleting, Live, Was
  <2>7. Linked \cap Live = (WasOwn \cap Was("live")) \ Named
    BY <1>2, <2>3, <2>4, <2>5, <2>6 DEF Live
  <2>8. Verb = "delete" BY <2>1 DEF Deleting
  <2> QED BY <2>7, <2>8 DEF Says
<1> QED BY <1>4, <1>5, <1>6, <1>7, <1>8

LEMMA VerbEndsKeeps ==
  ASSUME Going, VerbEnds
  PROVE  Kept'
<1>1. Says' BY EndSays, SaysKept DEF VerbEnds, choices, control
<1>2. Sound' BY SoundFewer DEF VerbEnds, choices, tables, control, Going
<1> QED BY <1>1, <1>2 DEF Kept, Busy, VerbEnds

LEMMA VerbStep == IInv /\ VInv /\ [Next]_vars => VInv'
<1> SUFFICES ASSUME IInv, VInv, [Next]_vars, inPlace', Alone' PROVE Kept'
  BY DEF VInv, Kept, VerbsDoWhatTheySay, Says, VerbEnded
<1>1. inPlace' = inPlace /\ Alone
  <2>1. UNCHANGED <<inPlace, rivals>>
    BY DEF Next, vars, choices, NextRow, NextVerb, VerbEnds, MutationEnded, CreateTarget, GetRelated,
           FindByFilter, UpdateOne, RestoreOne, Replace, DropOne, Dropped, LinkOne, Unlink, DeleteFind,
           DeleteOne, LookForEdge, CreateEdge, RivalLooks, RivalCreates
  <2> QED BY <2>1 DEF Alone
<1>2. Going BY <1>1 DEF IInv, VInv, Going
<1>3. CASE UNCHANGED vars
  <2>1. VerbEnded => Says BY <1>1 DEF VInv, VerbsDoWhatTheySay, Says
  <2>2. Says' = Says BY <1>3, SaysKept DEF vars, control
  <2>3. UNCHANGED <<kind, input, state, tag, links, rows, row, hand, turn, at, found, jobs, before>>
    BY <1>3 DEF vars, choices, tables, control
  <2>4. Sound'
    BY <1>2, <2>3 DEF Going, Sound, NoneUnborn, KeyOnTarget, OneSource, OneTarget, Linked, OneLive, Live
  <2>5. Busy => WasSound' BY <1>2, <2>3, WasSoundKept DEF Going
  <2>6. ASSUME Busy PROVE Progress'
    <3>1. UNCHANGED <<Verb, Arg, Singular, KeyOnTarget, Replaces, Named, WasOwn, Live>>
      BY <2>3 DEF Verb, Arg, Singular, KeyOnTarget, Replaces, Named, WasOwn, WasLinked, Live
    <3>2. \A v : Was(v)' = Was(v) BY <2>3 DEF Was
    <3>3. \A S : Gives(S)' = Gives(S) BY <3>1 DEF Gives
    <3>4. Same' = Same BY <2>3 DEF Same
    <3>5. \A T : Chosen(T)' = Chosen(T) BY <2>3, <3>1, <3>2, <3>3, <3>4 DEF Chosen
    <3>6. \A T : LetGo(T)' = LetGo(T) BY <3>1, <3>2 DEF LetGo
    <3>7. \A T : LinkedBut(T)' <=> LinkedBut(T) BY <2>3, <3>1, <3>6 DEF LinkedBut, Left
    <3>8. Linking' <=> Linking BY <2>3, <3>5, <3>7 DEF Linking
    <3>9. Dropping' <=> Dropping BY <2>3, <3>1, <3>5, <3>6 DEF Dropping
    <3>10. Unlinking' <=> Unlinking BY <2>3, <3>1, <3>2, <3>4 DEF Unlinking
    <3>11. Updating' <=> Updating BY <2>3, <3>1, <3>2 DEF Updating
    <3>12. Restoring' <=> Restoring BY <2>3, <3>1, <3>2, <3>3 DEF Restoring
    <3>13. Deleting' <=> Deleting BY <2>3, <3>1, <3>2 DEF Deleting
    <3> QED BY <1>2, <2>3, <2>6, <3>1, <3>4, <3>5, <3>8, <3>9, <3>10, <3>11, <3>12, <3>13
      DEF Going, Progress
  <2> QED BY <2>1, <2>2, <2>3, <2>4, <2>5, <2>6 DEF Kept, Busy, VerbEnded
<1>4. \A p \in Pairs : ~RivalLooks(p) /\ ~RivalCreates(p)
  BY <1>1 DEF RivalLooks, RivalCreates, IInv, Running, Alone, TypeOK
<1> QED BY <1>2, <1>3, <1>4, NextRowKeeps, NextVerbKeeps, VerbEndsKeeps, CreateKeeps, GetRelatedKeeps,
           FindByFilterKeeps, UpdateKeeps, RestoreKeeps, ReplaceKeeps, DropKeeps, DroppedKeeps, LinkKeeps,
           UnlinkKeeps, LookForKeeps, CreateEdgeKeeps, DeleteFindKeeps, DeleteOneKeeps
       DEF Next, MutationEnded

LEMMA VerbInit == Init => VInv
<1> SUFFICES ASSUME Init PROVE VInv OBVIOUS
<1>1. at = "rows" /\ turn = 0 /\ hand = {} BY DEF Init
<1>2. /\ NoneUnborn(links) /\ (KeyOnTarget => OneSource(links))
      /\ kind = "belongsTo" => OneTarget(links, Targets)
      /\ kind = "hasOne" => OneTarget(links, Live)
  BY DEF Init, LegalLinks
<1>3. kind = "hasOne" => \A s \in Sources : OneLive(s) BY <1>2 DEF OneTarget, OneLive
<1> QED BY <1>1, <1>2, <1>3 DEF VInv, Sound, Busy, VerbsDoWhatTheySay, VerbEnded

(* When a verb ends the tables are what it promises, whatever number of    *)
(* rows, links, verbs and filters there are, and in whatever order its     *)
(* concurrent calls come: nothing that an interleaving of them does is     *)
(* left behind for the verbs after it.                                     *)
THEOREM VerbsHold == Spec => []VerbsDoWhatTheySay
<1>1. inPlace \in BOOLEAN /\ VInv => VerbsDoWhatTheySay BY DEF VInv, VerbsDoWhatTheySay
<1>2. IInv => inPlace \in BOOLEAN BY DEF IInv, TypeOK
<1> QED BY InitInv, StepInv, VerbInit, VerbStep, <1>1, <1>2, PTL DEF Spec
===============================================================================
