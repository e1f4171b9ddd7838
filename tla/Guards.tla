------------------------------- MODULE Guards -------------------------------
(***************************************************************************)
(* What stands between a caller and the engine in both GraphQL-free doors: *)
(* the shared guards (utilize/src/guards.ts) and the schemas ormize-zod4   *)
(* generates from a bag, which say what may be written and what may leave. *)
(***************************************************************************)
EXTENDS Gate

CONSTANTS Models,     \* the models of the orm
          Columns,    \* [Models -> set of columns], "id" among them
          Meta,       \* [columns -> primaryKey, foreignKey, writable, required]
          Ignored,    \* [Models -> the columns in ignoreFields]
          Relations   \* [Models -> [relation names -> target model]]

AllColumns == UNION {Columns[m] : m \in Models}

\* A guard passes, or fails the call with its error; the first to fail decides.
Guard(passes, error) == [passes |-> passes, error |-> error]
Verdict(guards) ==
  IF \A i \in DOMAIN guards : guards[i].passes THEN "ok"
  ELSE guards[CHOOSE i \in DOMAIN guards : ~ guards[i].passes /\ \A j \in 1 .. i - 1 : guards[j].passes].error

\* where: whether a filter was given at all, and the fields it names at any depth.
Writable(readOnly)           == Guard(~ readOnly, "read-only")
ScopedMutation(where, optIn) == Guard(where.given \/ optIn, "unscoped-mutation")
FilterAllowed(bag, m, where) ==
  Guard(\A f \in where.fields : IsFieldExposed(Ignored[m], bag, m, f), "denied-field")
OrderAllowed(bag, m, order)  ==
  Guard(\A f \in order : IsFieldExposed(Ignored[m], bag, m, f), "denied-field")

Absence == {"no schema"}
\* What an entity shows: its exposed columns and its allowed relations.
EntityShape(bag, m, includeRelations) ==
  IF ~ IsModelAllowed(bag, m) THEN Absence
  ELSE {f \in Columns[m] \ Ignored[m] : IsFieldAllowed(bag, m, f)}
       \cup {r \in DOMAIN Relations[m] : includeRelations /\ IsRelationshipAllowed(bag, m, r)}
InputShape(bag, m, kind) ==
  IF ~ IsModelAllowed(bag, m) \/ ~ IsMutationAllowed(bag, m, kind) THEN Absence
  ELSE {f \in Columns[m] \ Ignored[m] : IsInputFieldWritable(bag, m, f, kind, Meta[f])}
Required(bag, m, kind) ==
  {f \in InputShape(bag, m, kind) \cap AllColumns : kind = "create" /\ Meta[f].required}

\* Parsing drops what the schema does not name, and fails on what it does and cannot be.
ValidInput(bag, m, kind, input) ==
  \/ InputShape(bag, m, kind) = Absence
  \/ /\ Required(bag, m, kind) \subseteq input.columns
     /\ input.malformed \cap InputShape(bag, m, kind) = {}
Parsed(bag, m, kind, input) ==
  IF InputShape(bag, m, kind) = Absence THEN input.columns ELSE input.columns \cap InputShape(bag, m, kind)

\* What of a row leaves; a model without a schema is not projected.
Project(row, shape) == IF shape = Absence THEN row ELSE row \cap shape
WholeRow(m) == Columns[m] \cup DOMAIN Relations[m]
=============================================================================
