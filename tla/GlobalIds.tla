------------------------------ MODULE GlobalIds ------------------------------
(***************************************************************************)
(* The opaque ids of a GraphQL schema: minted where a key is shown, read   *)
(* back on every road by which a client may name a row (a list and its     *)
(* includes, the filter of a mutation and of a verb under an association,  *)
(* node(id), the keys of an input), and compared with the type the field   *)
(* expects.  A spelling is a sequence of names: <<"1">> is a raw key,      *)
(* <<"User", "1">> the id of a type in front of it, in any format that     *)
(* carries the type.  A raw key may be spelled like an id.  Padding and    *)
(* the difference between "1" and 1 are left out.                          *)
(***************************************************************************)
EXTENDS Naturals, Sequences, SequencesExt

CONSTANTS
  Fields,        \* getFields: model -> field -> primaryKey, foreignKey, foreignTarget, ignoreGlobalKey, writable
  Associations,  \* model -> relationship -> target model
  Keys,          \* model -> the primary keys of its rows
  Codecs,        \* which of "relay", "prefix" and "raw" are tried
  Prefixed,      \* the types prefixIdCodec has a prefix for
  ScopedBy,      \* model -> the field its row-level scope filters on and forces
  Scopes,        \* what the scope may say: a key, or None
  Requests,      \* what clients may ask
  Rows           \* bound: rows of the model that is written to

None == <<>>
Mismatch == <<"GLOBAL_ID_TYPE_MISMATCH">>
Models == DOMAIN Fields

VARIABLES
  codec,   \* options.id
  scope,   \* what the principal's scope says for this request
  held,    \* the foreign key of the rows written to
  last     \* the last request, how it ended and what the datastore was handed

vars == <<codec, scope, held, last>>
-------------------------------------------------------------------------------
(* Codecs and keys *)

Encode(type, key) == IF codec = "raw" THEN key ELSE <<type>> \o key
Recognises(value) ==
  \/ codec = "raw"
  \/ Len(value) > 1 /\ (codec = "prefix" => Head(value) \in Prefixed)
CarriesType == codec # "raw"
KeyIn(value) == IF CarriesType THEN Tail(value) ELSE value

IsKey(m, f) == f \in DOMAIN Fields[m] /\ (Fields[m][f].primaryKey \/ Fields[m][f].foreignKey)
GlobalKeys(m) == {f \in DOMAIN Fields[m] : IsKey(m, f) /\ ~Fields[m][f].ignoreGlobalKey}
\* A key that is both is typed by what it points at.
Target(m, f) == IF Fields[m][f].foreignTarget # "" THEN Fields[m][f].foreignTarget ELSE m
GlobalKeyTargets(m) == [f \in GlobalKeys(m) |-> Target(m, f)]
\* What the schema shows of a key, whether or not it is one of GlobalKeys.
Mint(m, f, key) == Encode(Target(m, f), key)

\* Not one of the codec's: left alone. One of another type: raised.
DecodeGlobalId(value, type) ==
  IF ~Recognises(value) THEN value
  ELSE IF CarriesType /\ Head(value) # type THEN Mismatch
  ELSE KeyIn(value)

\* The key that opened the region a walk is in; a walk leaves it with that key.
Enter(tagged, path, keys) ==
  LET at == SelectInSeq(path, LAMBDA k : k \in keys)
  IN  IF tagged # "" \/ at = 0 THEN tagged ELSE path[at]
NeverLeave(tagged, path, keys) == tagged
Leave(tagged, path, keys) == IF \E i \in DOMAIN path : path[i] \in keys THEN "" ELSE tagged

\* A tree is its leaves in the order of the walk, each with the keys above it.
ReplaceIdDeep(leaves, m) ==
  LET keys == GlobalKeys(m)
      Visit(seen, leaf) ==
        LET tagged == Enter(seen.tagged, leaf.path, keys)
            value == IF tagged = "" THEN leaf.value ELSE DecodeGlobalId(leaf.value, GlobalKeyTargets(m)[tagged])
        IN  [tagged |-> Leave(tagged, leaf.path, keys),
             leaves |-> Append(seen.leaves, [leaf EXCEPT !.value = value])]
  IN  FoldLeft(Visit, [tagged |-> "", leaves |-> <<>>], leaves).leaves
Raised(leaves) == \E i \in DOMAIN leaves : leaves[i].value = Mismatch
-------------------------------------------------------------------------------
(* What is asked: a leaf says what the client means by it. *)

\* An id a field showed, a key typed as it is, or a text that only looks like an id.
Spelling(sent) == IF sent.kind = "key" THEN sent.key ELSE Mint(sent.model, sent.field, sent.key)
Leaves(asked) == [i \in DOMAIN asked |-> [path |-> asked[i].path, value |-> Spelling(asked[i].sent)]]

\* The model a level of an include tree filters: one association further at each.
ModelAt(r, level) == FoldLeft(LAMBDA m, rel : Associations[m][rel], r.model, SubSeq(r.include, 1, level - 1))

MergeScope(leaves, m) ==
  IF scope = None \/ m \notin DOMAIN ScopedBy THEN leaves
  ELSE Append(leaves, [path |-> <<ScopedBy[m], "eq">>, value |-> scope])
ScopedThenRead(leaves, m) == ReplaceIdDeep(MergeScope(leaves, m), m)
\* The caller's ids are read first: what the scope says is raw already.
ScopedWhere(leaves, m) == MergeScope(ReplaceIdDeep(leaves, m), m)

Answer(r, outcome, wheres, written) ==
  last' = [request |-> r, outcome |-> outcome, wheres |-> wheres, written |-> written]
Filtered(r, wheres) ==
  /\ IF \E i \in DOMAIN wheres : Raised(wheres[i]) THEN Answer(r, "mismatch", <<>>, None)
     ELSE Answer(r, "acted", wheres, None)
  /\ UNCHANGED <<codec, scope, held>>
-------------------------------------------------------------------------------
(* Roads of filters *)

\* resolveFindAll and resolveManyRelationship: every level of the include is read as its own model.
FindAll(r) ==
  /\ r.road = "list"
  /\ Filtered(r, [level \in DOMAIN r.wheres |-> ScopedWhere(Leaves(r.wheres[level]), ModelAt(r, level))])

\* The filter of update, delete, restore and select.
Write(r) == r.road = "write" /\ Filtered(r, <<ScopedWhere(Leaves(r.wheres[1]), r.model)>>)

\* The filter of a verb under an association runs against the target.
Verb(r) == r.road = "verb" /\ Filtered(r, <<ScopedWhere(Leaves(r.wheres[1]), ModelAt(r, 2))>>)

\* node(id): the type is read out of the id, and the key goes the road of a list.
Node(r) ==
  LET value == Spelling(r.wheres[1][1].sent)
      type  == Head(value)
      pk    == CHOOSE f \in DOMAIN Fields[type] : Fields[type][f].primaryKey
  IN /\ r.road = "node" /\ CarriesType
     /\ IF Recognises(value) /\ type \in Models
        THEN Filtered(r, <<ScopedWhere(<<[path |-> <<pk>>, value |-> KeyIn(value)]>>, type)>>)
        ELSE Answer(r, "nothing", <<>>, None) /\ UNCHANGED <<codec, scope, held>>
-------------------------------------------------------------------------------
(* Roads of inputs *)

Writable(m, f) == Fields[m][f].writable \/ ~IsKey(m, f)
Allowed(leaves, m) == SelectSeq(leaves, LAMBDA e : Writable(m, e.path[1]))
Forced(m) == scope # None /\ m \in DOMAIN ScopedBy
Disagrees(leaves, m) == \E i \in DOMAIN leaves : leaves[i].path[1] = ScopedBy[m] /\ leaves[i].value # scope

\* The allow-list, then what the scope forces; an input that says otherwise is refused.
Denies(leaves, m) == Forced(m) /\ Disagrees(Allowed(leaves, m), m)
ProcessInputs(leaves, m) ==
  IF ~Forced(m) THEN Allowed(leaves, m)
  ELSE Append(SelectSeq(Allowed(leaves, m), LAMBDA e : e.path[1] # ScopedBy[m]),
              [path |-> <<ScopedBy[m]>>, value |-> scope])

\* translateId, key by key; processInputs comes after it.
UpdateInput(leaves, m) == ReplaceIdDeep(leaves, m)

Put(r, m, denied, leaves) ==
  LET at == SelectInSeq(leaves, LAMBDA e : e.path[1] = ScopedBy[m])
      value == IF at = 0 THEN None ELSE leaves[at].value
  IN CASE Raised(leaves) -> Answer(r, "mismatch", <<>>, None) /\ UNCHANGED held
       [] ~Raised(leaves) /\ denied -> Answer(r, "denied", <<>>, None) /\ UNCHANGED held
       [] ~Raised(leaves) /\ ~denied ->
            /\ Answer(r, "acted", <<>>, value)
            /\ \E row \in Rows : held' = [held EXCEPT ![row] = IF at = 0 THEN @ ELSE value]

\* On a create what the client sent meets the scope before it is read.
Create(r) ==
  LET sent == Leaves(r.input)
  IN /\ r.road = "create"
     /\ IF Denies(sent, r.model) THEN Answer(r, "denied", <<>>, None) /\ UNCHANGED held
        ELSE Put(r, r.model, FALSE, ReplaceIdDeep(ProcessInputs(sent, r.model), r.model))
     /\ UNCHANGED <<codec, scope>>

Update(r) ==
  LET read == UpdateInput(Leaves(r.input), r.model)
  IN /\ r.road = "update"
     /\ IF Raised(read) THEN Answer(r, "mismatch", <<>>, None) /\ UNCHANGED held
        ELSE Put(r, r.model, Denies(read, r.model), ProcessInputs(read, r.model))
     /\ UNCHANGED <<codec, scope>>

\* The update verb hands its input to processInputs as it came.
UpdateUnderAnAssociation(r) ==
  LET m == ModelAt(r, 2)
      sent == Leaves(r.input)
  IN /\ r.road = "nested update"
     /\ Put(r, m, Denies(sent, m), ProcessInputs(sent, m))
     /\ UNCHANGED <<codec, scope>>

NoRequest == [request |-> [road |-> "none"], outcome |-> "none", wheres |-> <<>>, written |-> None]
Init ==
  /\ codec \in Codecs /\ scope \in Scopes
  /\ held = [row \in Rows |-> None] /\ last = NoRequest

Step(r) ==
  \/ FindAll(r) \/ Write(r) \/ Verb(r) \/ Node(r)
  \/ Create(r) \/ Update(r) \/ UpdateUnderAnAssociation(r)

\* The next request may be of another principal; the codec stays.
NextPrincipal == last # NoRequest /\ scope' \in Scopes /\ last' = NoRequest /\ UNCHANGED <<codec, held>>

Next == NextPrincipal \/ (last = NoRequest /\ \E r \in Requests : Step(r))
Spec == Init /\ [][Next]_vars
-------------------------------------------------------------------------------
(* Properties *)

FieldOf(path, m) ==
  LET at == SelectInSeq(path, LAMBDA k : IsKey(m, k)) IN IF at = 0 THEN "" ELSE path[at]
TypeOfSent(sent) == Target(sent.model, sent.field)

\* A leaf names a row if it is an id, and of the type that its field holds keys of.
IsId(leaf, m) == leaf.sent.kind = "id" /\ FieldOf(leaf.path, m) # ""
NamesARow(leaf, m) == IsId(leaf, m) /\ TypeOfSent(leaf.sent) = Target(m, FieldOf(leaf.path, m))
Forged(leaf, m) == IsId(leaf, m) /\ ~NamesARow(leaf, m)
Meant(leaf, m) == IF NamesARow(leaf, m) THEN leaf.sent.key ELSE Spelling(leaf.sent)

Road == last.request.road
FilterRoads == {"list", "write", "verb"}
InputRoads == {"create", "update", "nested update"}
WrittenModel == IF Road = "nested update" THEN ModelAt(last.request, 2) ELSE last.request.model
FilteredModel(level) == IF Road = "verb" THEN ModelAt(last.request, 2) ELSE ModelAt(last.request, level)
Acted == last.outcome = "acted"

(* An id that a field showed, sent back by any road to any field that      *)
(* holds keys of the same type, reaches the datastore as the key it was    *)
(* shown for, at every level of a tree and next to any neighbour; texts    *)
(* and keys typed as they are reach it as they were sent; node(id) asks    *)
(* for the key of the row the id was minted for.                           *)
IdsReachTheirRows ==
  Acted =>
    /\ Road \in FilterRoads =>
         \A level \in DOMAIN last.request.wheres : \A i \in DOMAIN last.request.wheres[level] :
           last.wheres[level][i].value = Meant(last.request.wheres[level][i], FilteredModel(level))
    /\ Road = "node" => last.wheres[1][1].value = last.request.wheres[1][1].sent.key
    /\ Road \in InputRoads /\ ~Forced(WrittenModel) =>
         \A i \in DOMAIN last.request.input :
           LET leaf == last.request.input[i]
           IN  leaf.path[1] = ScopedBy[WrittenModel] /\ Writable(WrittenModel, leaf.path[1])
                 => last.written = Meant(leaf, WrittenModel)

(* Where ids carry their type, one minted for another type is an error,    *)
(* never a filter that silently matches nothing or a key that is written;  *)
(* and nothing else is called one.                                         *)
ForeignIdsAreRefused ==
  CarriesType /\ Road \in FilterRoads \cup InputRoads =>
    LET asked == IF Road \in FilterRoads
                 THEN {<<last.request.wheres[l][i], FilteredModel(l)>> :
                         l \in DOMAIN last.request.wheres, i \in DOMAIN last.request.wheres[1]}
                 ELSE {<<last.request.input[i], WrittenModel>> : i \in DOMAIN last.request.input}
        forged == \E a \in asked : Forged(a[1], a[2]) /\ (Road \in InputRoads => Writable(a[2], a[1].path[1]))
    IN  /\ last.outcome = "mismatch" => forged
        /\ forged => last.outcome \in {"mismatch", "denied"}

(* What a scope says reaches the datastore as it was resolved, even when   *)
(* the principal's key is spelled like an id: the caller's filter is read  *)
(* before the scope is merged into it.                                     *)
ScopeStaysRaw ==
  Acted /\ Road \in FilterRoads /\ scope # None =>
    \A level \in DOMAIN last.wheres :
      FilteredModel(level) \in DOMAIN ScopedBy =>
        [path |-> <<ScopedBy[FilteredModel(level)], "eq">>, value |-> scope] \in Range(last.wheres[level])

(* A written foreign key holds a key of the model it points at, never the  *)
(* id a client named it by, whatever was written and shown before.         *)
KeysStayRaw ==
  \A row \in Rows : held[row] = None \/ \E m \in DOMAIN ScopedBy : held[row] \in Keys[Target(m, ScopedBy[m])]
===============================================================================
