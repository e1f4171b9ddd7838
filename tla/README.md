# A verification project for gqlize / ormize

TLA+ modules, TLC runs and TLAPS proofs for the monorepo under `src/` (TypeScript,
packages `ormize`, `gqlize`, `utilize` and their adapters). The modules are read
from the code; every definition that stands for code is listed with its lines in
`PROJECT.json` under `map`.

## 1. The system

`ormize` is an engine that puts one definition language, one query and mutation
interface and row-level scopes over several *adapters* (Sequelize, Valkey). `gqlize`
builds a GraphQL schema on top of it, `nestize` a REST interface, `temporalize` a
set of Temporal activities. `utilize` holds the contracts they share.

| part | where | state it keeps | operations | what is hard about it | what makes it correct |
|---|---|---|---|---|---|
| transaction coordinator | `ormize/src/transaction.ts`, `engine/transactions.ts` | a Map adapter → transaction, the registered callbacks | `handleFor`, `afterCommit`, `commit`, `rollback`, driven by `transaction()` and `withTransaction()` | concurrent mutations of one body; a commit that fails in the middle; answers that come after a rollback | nothing committed of what comes too late, nothing left open, callbacks after the commits |
| read cache | `ormize/src/read-cache/index.ts`, `engine/read-cache-bridge.ts` | flights in progress, shapes known to be too big; entries and generations in a store | `read`, `invalidate`, `clear` | a read that fetches before a write and stores after it; transactions; followers of a flight that fails | no stale and no uncommitted row, every read settles |
| cache stores | `ormize/src/read-cache/memory-store.ts`, `ormize-cache-ioredis/src/index.ts` | entries in LRU order, byte total, generations | `get`, `set`, `lookup`, `invalidate`, `clear` | byte accounting across replacement, expiry and eviction; a TTL behind the index's back; `clear()` in pages | limits, totals, eviction order, nothing outdated |
| Valkey adapter | `ormize-adapter-valkey/src` | rows, ids and equality ZSETs, unique keys, membership sets; an overlay per transaction | create, update, delete, `persistPatch`, `setExpiry`, queries, relationship accessors | check-then-act across awaits; four structures per row that must agree; TTLs; lazy garbage collection | every row is found under its values, no other is, only the dead are collected |
| row-level scope | `ormize/src/scope.ts`, `scope-hooks.ts`, `engine/scope-bridge.ts` | a memo per request | resolve, merge into a filter, assert before and after a write | a row that leaves or enters the scope between check and write; the predicate's own reads; principals that share a context | only visible rows are shown or counted, writes stay inside, nothing waits for itself |
| mutation engine, relationship verbs | `ormize/src/engine/mutations.ts`, `relationship-mutations.ts` | none | create/update/delete/restore and eight verbs under an association | partly applied nested verbs; concurrency inside one verb | each verb does what it says, to related rows |
| cross-adapter relationships | `ormize/src/cross-adapter.ts` | generated join models | get, set, add, remove, has, count | no foreign key and no transaction spans the two stores | one holder of a slot, one join row of a pair while one link at a time works on it |
| manager lifecycle, hooks | `ormize/src/manager.ts`, `engine/hooks.ts`, `relationships.ts` | registered adapters, definitions, wired hooks, a permission | register, addDefinition, define, initialise, setPermission, class methods | calling order; calling twice; relationships wired concurrently; one of several that fails | what was declared or a refusal with a reason |
| Sequelize adapter | `ormize-adapter-sequelize/src` | models, the build permission and its memo of types | the adapter contract | windows, inline counts, includes; the SQL is Sequelize's | pages are slices, types follow the permission |
| permissions, gate | `utilize/src/gate.ts`, `permissions.ts` | none | compile rules to a bag, decide what a schema shows and a request may do, narrow rows | gates that fall back on one another; scope leaves that nest | the bag and the filter say what the rules say |
| shared guards | `utilize/src/guards.ts`, `ormize-zod4` | none | guard a filter, an order, an input; project a row | one forgotten gate | nothing hidden leaves, nothing forbidden is written |
| codecs, ids, cursors, connections | `gqlize/src/codecs`, `utils/replace-id-deep.ts`, `graphql/resolvers/connection.ts`, `ormize/src/engine/resolution.ts` | none | mint and read ids and cursors, page through a list | pages over a changing list; counts read apart from the rows; ids at every depth of a filter, next to raw keys | a page is the slice asked for, a walk sees every row once and ends, an id reaches its row |
| schema builder, snapshots | `gqlize/src/graphql`, `gqlize/src/cli` | built types; an artifact on disk | build, snapshot, fingerprint, load, check | an adapter that remembers the last permission; a stale artifact; a torn file | the schema follows its permission; fresh or told |
| nestize, temporalize | `nestize/src`, `temporalize/src` | a workflow history | REST routes; activities, workflows, client | every door asks the gates in its own order; retries of what was already done | every road passes the gates it has, and the caller is told what happened |
| scalars, fixtures | `graphql-types`, `test-fixtures` | none | parsing and formatting | nothing concurrent | not modelled |

How they interact: a top-level mutation runs in `mutationEntry`, which calls
`withTransaction` (it joins the coordinator of the request context and asks it for the
adapter's handle), runs the adapter's write and, whatever happened, tells the read cache
to invalidate the models it may have written. Inside a transaction the cache registers
a second invalidation with `afterCommit`, which the coordinator runs once its commits
are answered. Reads go through the read cache to the adapter unless they run inside a
transaction or their model is excluded. All of it is one JavaScript process: code
between two awaits runs alone, so the models cut every operation at its awaits and at
nothing else; the shared cache store and the database see several processes.

## 2. Modules

| module | models | abstractions |
|---|---|---|
| `UnitOfWork` | what the class comment of `OrmizeTransaction` promises | abstract specification |
| `OrmizeTransaction`, `OrmizeTransactionProofs` | the coordinator and the body that drives it; theorems | a mutation is begin / write / done; adapters are names |
| `ReadCache`, `ReadCacheProofs` | `read()`, `invalidate()`, `clear()` and the generations of the store; theorems | rows are the set of writers they show; a shape is everything a read is fingerprinted by |
| `MemoryCacheStore` | the in-process LRU store | a value is its size |
| `IORedisCacheStore` | the Lua scripts and `clear()` of the shared store | one shape over one tag: an entry key is a generation |
| `CacheStores` | the choice between the two stores and what both promise; theorems in `ReadCacheProofs` | composes the two |
| `ValkeyAdapter`, `ValkeyAdapterProofs` | the rows of one Valkey model, their indexes, TTLs, garbage collection and transactions; theorems | a row is an owner (indexed) and an email (unique); a burst of commands without an await in between is one step |
| `RelationshipMutations`, `RelationshipMutationsProofs` | the eight verbs under an association, over the accessors of `cross-adapter.ts`, next to other mutations that link; theorems | a relationship is a bag of pairs, for a foreign key and for join rows alike; a filter is a set of values of one column |
| `RowScope`, `RowScopeProofs` | the scope of one model in one request; theorems | a scope is about one column, the owner; an answer is the owners it lets through and the owner it forces |
| `Gate` | the permission bag and the questions asked of it | a predicate is absent or the set of what it allows |
| `PermissionRules` | the compiler from rules to a bag; `EXTENDS Gate`; theorem in `SchemaArtifactProofs` | a node is a decision, or the nodes below it |
| `Permissions` | the compiler to scope filters and to bound parameters; `EXTENDS PermissionRules` | two models, two fields; scope leaves two deep |
| `Guards` | the shared guards and the shapes `ormize-zod4` generates | a value is well formed or not; a filter is the fields it names |
| `FrontDoors`, `FrontDoorsProofs` | one request through nestize or temporalize, with Temporal's retries; `EXTENDS Guards`; theorems | an operation makes two writes, so that half of it can be seen |
| `Pages` | a list read page by page while others write | rows are numbers in sort order; a cursor is its codec, its connection and a position |
| `GlobalIds` | ids from where they are minted to where the datastore is asked | a spelling is a sequence of names; padding and the difference of `"1"` and `1` are left out |
| `OpaqueValues` | the two kinds of sealed value a client sends back | composes `Pages` and `GlobalIds`; theorems about `Pages` in `FrontDoorsProofs` |
| `Lifecycle`, `LifecycleProofs` | building an orm and starting it; theorems | a declaration is data (`Apps`); an adapter is a set of abilities |
| `SchemaBuild` | the schema built from definitions under a permission | a type is named by a tuple, a field by its target, arguments and binding |
| `SchemaArtifact`, `SchemaArtifactProofs` | artifacts written, loaded and checked by processes that restart; `EXTENDS SchemaBuild`; theorems | a hash is equality of what is hashed |
| `MC*` | values of the constants for TLC | |

*`OrmizeTransaction`.* The body is a set of `Branches`, and `plan` says what each works on and
which of them the body `awaits`: one branch that is awaited is a body that awaits every mutation,
two are a `Promise.all` (as in `applyUpdate`), and a branch that is not awaited is a mutation the
body lets go of. A branch goes
`run → begin → work → run … → ended | failed`; `HandleFor` is the synchronous part of
`handleFor` and `BeginResolves` the continuation after its await, which sets the map
without looking again, as the code does. `FnResolves`, `CommitResolves`,
`CommitRejects`, `UndoEnds`, `RunCallbacks` and `CallbackSettles` are `commit()` cut at
its awaits, `StartRollback` and `RollbackSettles` are `rollback()`, and `Returns` and
`Throws` the end of `transaction()`. `FnResolves` waits for the awaited branches only
(`engine/transactions.ts:45`); the others run on beside commit and rollback, and `late` is the
history of the transactions they got then. Begins, writes, commits and rollbacks may each fail.

*`ReadCache`.* A read goes `find → (get →) found → fetch → fetched → settled → store →
done`, or `follow`s another's flight, or fetches `direct`ly; each step is the code
between two awaits. A writer goes `idle → written → acked`, or through `open` and
`committed` when it is enrolled in a transaction. `Kind` says how: `unit` is a
coordinator, `native` a caller's transaction with an `afterCommit`, `bare` one without.

*`ValkeyAdapter`.* `db` is the server: `obj`, the ZSETs `z` (a score of 0: not a
member), the unique keys `u`, the membership sets `m` and the id counter. An operation
goes `resolve` (with `collect` and `purge` for lazy garbage collection) → `next` row →
`check` → `pttl` → `write`, or `remove` for a delete and `cascade` for `setExpiry`: one
step per await. `executeQuery`'s reads and the writes that follow them may thus be
separated by anything other clients do. What an operation issues without awaiting goes
out in one burst, which the server is taken to run at once, since the adapter has one
connection. In a transaction a burst is appended to `buffer`; `View` is the overlay, with
its two peculiarities (`pttl` and expiry are the server's, a deleted membership set keeps
the server's members). `serial` is chosen at the start and splits the runs into operations
one at a time, where the indexes must also be exact, and interleaved ones.

*`RelationshipMutations`.* `kind`, `paranoid`, `inPlace` and `input` are chosen at the
start. `rows` are the source rows of the mutation, `turn` walks through `VERBS` for one of
them, and `at` names what is awaited: `related` (the `get` accessor) or `find`
(`findByFilter`), then the verb's own writes over `found`, where `replace`, `drop` and
`link` are the `set` accessor. What `Promise.all` starts is done in any order (`UpdateOne`,
`RestoreOne`, and for `delete` one job per related row, since each calls `processDelete`
with the whole filter). `before` keeps the tables of when the verb began, and `Promised`
says what the verb may make of them in one step. `link` of a `belongsToMany` is two awaited calls:
`LookForEdge` finds no join row, and `CreateEdge` makes one later (`at` is `join`, and what is
asked for is in `jobs`). Other mutations link meanwhile: `rivals` of them, each a `RivalLooks` and a
`RivalCreates`; `pending` are the pairs one of them is about to make a row of, and `raced` is the history of
the pairs two links worked on at once. The mutation does not fail, and there are no scopes, hooks, limits or sub-trees below the first level. `hand` is where the
foreign key of the source row in memory points: an adapter that writes an update to the row
it is given (`inPlace`, Sequelize) keeps it current, Valkey's does not.

*`RowScope`.* A task is a root field of one request: a find, a raw query of the host, or a
mutation (create, update, delete, restore, select). Its steps are the code between awaits:
`Asks` looks the memo up and starts the predicate (or shares its promise, or stands aside
when the predicate itself is asking), `PredicateAnswers` settles it, `BuildQuery` merges the
filter, a hook may rewrite the query, `Query` reads; a write goes `FindRows`, and for each
row `RowInput`, `RowHook` (which may write the owner), `RowWrite`, then `AssertRowsInScope`.
`mutation` numbers the root fields, for a failed mutation undoes the writes of its own task only.
`holder` is the context whose memo a task carries: contexts derived before the memo was made
have one of their own. Others write rows at any time (`OthersWrite`); a transactional adapter
undoes what a refused write did (`saved`). `said`, `page`, `reached` and `last` are history.

*`PermissionRules`, `Permissions`.* `CreateRoleBasedPermissions` merges a role's tree with the defaults and
compiles it to a bag, gate by gate; its step, `CompileRules`, is also the first of `Permissions`, where
`ScopeGate` turns a rule's leaves to a filter for a principal and an operation, `AndScopes` joins it with that of
another source; `BindScopeParameters` turns a filter to parameters of a raw query. A behaviour chooses a deployment, compiles it, and asks; what it does to deployment and bag is
a behaviour of `RulesSpec`. The properties
state the rules again, read top-down over a row or a gate rather than compiled.

*`FrontDoors`.* `NestizeGuards` and `ActivityGuards` are the guards of each operation in
the order the code calls them. The caller's `flow` and the `attempts` of an activity are apart:
an attempt that timed out runs on, a crashed worker's is given up by the server
(`GiveUpTheDead`), and Temporal starts another unless the error says not to. `effects` counts
how often each write of the operation happened, and `changes` collects what the writes set: `OwnChange`,
the columns of the model itself, parsed if the door parses, and a `NestedChange` for every body the
input nests under a path of relations and that the door hands on (`Nested`). `Kept` is what
`processInputs` leaves of a body, and `Rehooked` the nested update whose model has a before-hook.

*`Pages`.* `Requests` name a `road`: the root connection, a relation, one loaded with its
parent (`eager`), one that crosses adapters, the REST list. `RootPlan`, `RelationPlan` and
`SeparatePlan` are the windows each computes, `Load`, `CountBefore`, `CountFirst`, `Find`,
`Window` and `CountAfter` its queries, each of the table as it is then, and `Answer` the
connection's positions, cursors and flags. The client then goes on from the last cursor it got.
`Wanted` says what was asked for without a query: a window of the sorted list. `OneWindow` says of a
request that it names one window by every road.

*`GlobalIds`.* Every request is one step: mint, decode on the road the code takes (`FindAll`,
`Write`, `Verb`, `Node`, `Create`, `Update`, `UpdateUnderAnAssociation`), merge the scope, hand
the result to the datastore. `ReplaceIdDeep` walks a tree's leaves and keeps the one slot
(`tagged`) the code keeps. `OpaqueValues` (`SealedSpec`) lets a behaviour be about cursors or about ids.

*`Lifecycle`.* The host registers adapters, adds definitions directly or queues them, calls
`initialise()` once or again, sets a permission at any time and calls class methods.
`initialise()` goes `defining → wiring → joining → starting → returned | refused | threw`; in `wiring` every
definition wires its relationships, one at a time and interleaved with the others, and both
ends of a pair may name the join model. `WellDeclared` says from the declaration alone
what `initialise()` should refuse.

*`SchemaBuild` and `SchemaArtifact`.* `SchemaBuild` has no state: visible models to a fixed
point, types, roots, extensions, and what of them is reachable. `SchemaArtifact` builds one live
(asking the adapter for each model's filter types under the permission it was last told),
snapshots it, writes it by way of a `.tmp` file and a rename, loads and materialises it, and
compares fingerprints. A worker is cut at each await and file operation and may die at any.

## 3. Runs

| run | question | bounds, and why they are enough |
|---|---|---|
| `Txn` | does a body get what `UnitOfWork` promises, and what holds with two mutations at a time, or one let go of? | three adapters, two with transactions: the smallest number with a committed, a failing and a not yet committed one next to one without; bodies of one branch that awaits three mutations, of two concurrent branches, and of one or two branches of which one or all are not awaited; `MaxTx` 4 |
| `TxnOverwrittenHandle` | what does not hold with two at a time | one mutation per branch suffices |
| `Cache` | can a read be stale or dirty, does it settle, do flights stay alive, when everything may fail? | two reads (a leader and a follower), a writer in a unit of work and one outside, all faults, one `clear()` |
| `CacheStores` | limits, totals, order, expiry and generations of both stores | three keys for two places, sizes below, at and above the budget, one TTL that can end |
| `Valkey` | do rows, ZSETs, unique keys and membership sets agree? | two rows, two owners (one null), two emails, one TTL and one tick; from an empty store three operations, from a row of every lifetime two operations, interleaved by two clients or in sequence, each in or out of transactions |
| `Relationships` | does every verb do what it says, alone and after another? | two source rows and three targets of which two exist; every input of one or two verbs; together with the source rows at most three, so two verbs on one row or one on two; one link of another mutation, of any pair, looked for and created at any moment, which is enough to meet every await of the verb's own link |
| `RowScope` | what is shown, counted and written, and does every task end? | any two tasks of one request over two rows and two owners, two principals, all adapters, one write of others: one check and one write can be separated once, at every place |
| `Permissions` | do bag, filter and bound parameters say what the rules say? | two models and fields; one gate with a decision and its fallback; three default trees; both `defaultDeny`; every scope leaf, pair and some nests; four principals and four operations; rows of an owner or of nobody, and another source that pins the owner to one or to null |
| `FrontDoors` | does every road pass its gates, before anything is done or shown, and is the caller told the truth? | every operation of both doors with every gate closed in turn, every option off in turn, and every malformed request; bodies nested one and two relations deep, for a model with and one without a before-hook; two faults, so that a retry can meet a fault |
| `OpaqueValues` | is a page the slice asked for, does a walk see everything and end, do ids reach their rows? | lists of up to three rows with a default size of one and a largest of two, so that a size can be clamped, a page be full, short or past the end; one write and one change of codec at any moment; filters of one or two leaves (a leaf and its neighbour), trees of three levels |
| `Lifecycle` | does an orm start as declared, or throw for a reason, in any order? | 68 declarations: every kind of relationship within and across adapters, with the keys given or not, both ends or one, wrong in one place each; two calls of `initialise()`, one fault, two changes of permission |
| `SchemaArtifact` | does a schema follow its permission, and a loaded one its definitions? | a CLI and a server, three tasks and one restart between them; five revisions, of which each differs from the first in what one part of the fingerprint sees |

`MaxOps`, `MaxTx`, `MaxClears`, `MaxTime`, `MaxGen`, `MaxClock`, `MaxIds`, `MaxTTL`, `MaxJobs`,
`MaxShared`, `MaxEdges`, `MaxRivals`, `MaxRows`, `MaxResidents`, `MaxOthers`, `MaxFaults`, `MaxWrites`,
`MaxSeen`, `MaxCalls`, `MaxChanges`, `MaxTasks`, `MaxRestarts` and `WrittenRows` are the bounds:
they stop actions, so a run explores everything up to them. `MaxSeen` is larger than what a
walk can rightly see, so a walk that meets it has violated `WalkEnds`. Four of the runs allow
deadlock (`FrontDoors`, `OpaqueValues`, `Lifecycle`, `SchemaArtifact`): a request is answered, a walk over, an orm
started and the host has nothing more to ask.

*Fairness.* Only what the promise scheduling of JavaScript gives, plus adapters and servers
that answer, with success or an error; never anything of clients, writers, timers or faults.
`OrmizeTransaction!FairSpec`: an adapter answers the calls it got, and a body goes on once it is
resumed. `ReadCache!FairSpec`: a resumed read takes its next step. `RowScope`: a task that can
go on does, and a predicate that runs answers. `FrontDoors`: Temporal hands out what waits and gives up
an attempt whose worker is dead, and a process runs on. `OpaqueValues`: the server answers and
the reading client asks for the next page. `Lifecycle`: `initialise()` runs on. `CacheStores`,
`Valkey`, `Relationships`, `Permissions` and `SchemaArtifact` claim safety only and assume none.

## 4. Findings, and what is not claimed

`TxnOverwrittenHandle` quotes, in `PROJECT.json`, the line it contradicts: two concurrent mutations
on one adapter begin two transactions, and the map keeps the second: the first is never
committed although `transaction()` resolves. A begin that answers after the rollback is left
open for the same reason: `handleFor` does not look at the coordinator again after its
await. `NothingLeftOpen` is therefore stated of bodies that await every mutation.

`commit()` does not know of a mutation the body did not await. Such a mutation may write under a
transaction that is being committed: whether that write is part of it is the adapter's affair, and
nothing is claimed of it. One whose transaction it only gets when the body has settled is never committed
(`LateWorkIsNeverCommitted`): a failing commit's `rollback()` may still undo it, otherwise it stays open.
Its callbacks may be dropped, so `CallbacksFollowTheCommits` claims of awaited mutations that theirs run.
Its failure is its caller's to see.

The other places where the code does not do what a comment or document says, or where a
property of the runs needs a premise, by module. Each was met while its module was written;
the premise is in the constants or the property named.

*Cache* (`Fresh` until the first `clear()`, `Kind` without `bare`). `clear()` resets the
generations while a read is in flight, whose entry becomes reachable again after a later write
(`memory-store.ts:90`; `utilize/src/types/cache.ts:17-20` says such an entry is never looked up
again). A caller's transaction without `afterCommit`, such as Valkey's, is never followed by the
second invalidation (`read-cache/index.ts:145`; `docs/specifications.md:336`). An invalidation
that fails, or a process that dies, between a commit and the bump after it leaves stale entries
until their TTL (`read-cache/index.ts:140`). The shared store clears page by page.

*Valkey.* An update reads a row and asks for its PTTL afterwards: a row that expired in between
comes back without a lifetime (`index.ts:774`, `506`, against the comment at `773`; in a transaction
`transaction.ts:193`). With interleaved writers
a reindex from a stale row leaves entries under old values, and two clients may both pass
`enforceUnique`; so `Truthful` and `UniqueHolds` are stated one operation at a time, and
`UniqueHolds` only until the TTL of a row has taken its unique key (the collection of that
row may later delete the key of whoever reserved it meanwhile). `Findable` needs no such
premise.

*Relationship verbs.* `remove` and `delete` on a collection select rows of the whole target
table, so that rows of another source are unlinked and, once one related row matches, rows related
to nobody deleted (`relationship-mutations.ts:169`, `144`, against `150`, `130`); `VerbsDoWhatTheySay` says of the other
verbs that they touch the source's own rows only. After a `belongsTo` `set` on a Valkey source the
later verbs of the same input still follow the old key (`inPlace` is a premise). A `create`
with no writable value makes no row and empties a singular slot. Restoring the former,
soft-deleted holder of a `hasOne` gives it two live ones (`OneAtATime` is stated without
soft deletion). Two links of one pair at once may both find no join row and create one each
(`cross-adapter.ts:332-334`), as nothing makes the pair unique: the run reaches such states, and
`NoSecondEdge` says that nothing else makes a second row: every pair that has one was `raced`. Links of
other mutations would also change what a verb finds, so `VerbsDoWhatTheySay` is stated of a
mutation next to which nobody links (`Alone`).

*Permissions.* `bindScopeParameters` collects an equality with null (`gate.ts:706-718`) and binds null
for it (`766`), which the idiom its comment documents, `(:scopeF IS NULL OR f = :scopeF)` (`733`;
`docs/guide.md:1568-1574`), takes for no condition. A raw query under a scope such as `{ownerId: null}` is
therefore not narrowed by it, and returns the rows the rest of the scope lets through. `ScopesReachTheirRows`
says so of scopes that pin a field to null (`PinsToNull`, `Enforced`), and of all others that the query
returns exactly the scope's rows or is refused.

*Row scopes.* The predicate is asked twice for two transactional root fields, each of which derives
a context before there is a memo (`scope.ts:202` against `218` and `198`), so two fields of one
request may be answered differently; `OnlyVisibleRows` accepts any answer the principal got.

*Pages.* `OneWindow`, which `PagesAssumption` asks of every request of the graph, leaves these out: `first`
and `last`, or `after` and `before`, at once; `before` the first row of a relationship, which is the whole list
(`resolution.ts:238`, against `232-234`); a relationship without a size (an eager page with `after` and none
counts itself, a Valkey one is not bounded by `MAX_PAGE_SIZE`), and the window of a required eager one that
is not within it (`page-size.ts:1-9`); and of eager pages fetched apart from their parents `last` alone where the include
asks for that, and `last: 0` (`build-include-from-selection.ts:290`), both fetched from the start of the list and
positioned from its end (`connection.ts:127-148`). `PageIsTrue` itself claims no total of a page that found no row,
except of a root page past the end: with an inline count it is 0. A page an `after` hook withholds whole ends a walk. Valkey's order has no tie-break, so the sort key is taken to be unique.
Two models that name a relationship of one kind to one target alike share one connection, bound to
the first of them (`create-list-object.ts:25-28`, against `create-related-fields.ts:107`).

*Ids.* `IdRequests` leaves these out. (a) The nested `update` verb hands its input to `processInputs`
undecoded (`relationship-mutations.ts:114`, where `mutations.ts:316` and `361` decode): a writable
foreign key is written as the opaque id (`docs/guide.md:1182`: "A written key takes the target's
global id"). (b) The schema mints ids for `ignoreGlobalKey` fields (`create-basic-fields.ts:33`) that
`global-keys.ts:15` does not decode. (c) `idFetcher` decodes twice: under prefix ids a string key
that begins like another type's id is read as that (`id-fetcher.ts:118`, against `110-112`). And
what is in the model and no property speaks of: a create compares with what a scope forces before it decodes
(`mutations.ts:315`, `316`), so one that names by its id the very owner the scope forces is refused;
on a create the scope's forced values pass the codec (`369-371` says they do not);
`guide.md:905` says an id of another type matches nothing, and the code raises.

*Doors.* nestize does not ask the umbrella `mutation` gate. `project` returns the row of a model
without a schema as it is (`guards.ts:149`), so `NothingPastTheGates` speaks of rows of visible models. A body
under a relation reaches the engine as it came, from nestize's select and `relationMutate`
(`nestize.service.ts:248-263`, `283-299`), temporalize's select (`activities.ts:230-243`), and its create and
update with `validate` off: the gates asked are those of the model the request names, and of the relation
in `relationMutate`. What the bag says of the target model, its columns and its mutations, and for
the others of the relation, is not asked; the engine applies the target's row scopes and drops columns that are not
structurally writable (`mutations.ts:101-111`). Not even that of a nested `update` whose target has a
`before` hook: the hook gets the body as it came, and what it returns replaces what `processInputs` kept
(`relationship-mutations.ts:114-121`; `mutations.ts:97-100` says the guard applies to create and update),
nor of a join row's own values (`cross-adapter.ts:327-336`), which are not modelled. `changes` has these bodies, and
`NothingPastTheGates` claims of them what is asked and no more. `relationGet` filters and orders by any
column (`nestize.service.ts:269-281`); lists, counts and selects only by those the caller may see. Activities
are at least once, as temporalize's README says: `ToldWhatHappened` bounds repetition by faults.

*Lifecycle.* `guide.md` says a raw-SQL method that does not name the scope does not build; on an
adapter that enforces scopes `reportScopeSurfaces` warns. `hooks.ts:128` says `initialise()` may be called twice: the
second call throws once a model has relationships. A failed `initialise()` forgets the queued
definitions it had not reached. Definitions added after it are not audited, fields read
before the wiring are cached, and an `afterX` hook that throws skips the invalidation.

*Artifacts.* Two schemas built at the same time on one orm share the build permission
(`ormize-adapter-sequelize/src/index.ts:352`), and loading an artifact overwrites it
(`materialize.ts:174`): each worker has an orm of its own. `autoPopulated`, `writable`,
`ignoreGlobalKey`, the operators, `writableForeignKeys` and soft deletion are not in the fingerprint
(`fingerprint.ts:10`): no revision differs in them alone. Two builders of one path share its
`.tmp` file: one builder runs, and the theorem says so (section 5).

## 5. Proofs

Eight modules hold theorems, one for each component that has them; `PROJECT.json` lists them under
`theorems`. Each strengthening below also holds in TLC, as an invariant of the run of its component (the
one for `Fresh` without `clear()`). No proof uses a bound as more than a number.

*What is assumed.* `ValkeyAssumption`, `RowScopeAssumption`, `FrontDoorsAssumption`,
`LifecycleAssumption`, `SchemaArtifactAssumption`, `StoreAssumption`, `RulesAssumption` and `PagesAssumption` say what the
constants are: a resident row is a row, a request names a task's kind and principal, an option is one of
its values, a file belongs to a path, a size and a limit are numbers, what is not a map has nothing below
it. They hold of the code because its types, or the check at its entry, say so; the one exception is
`OneWindow` in `PagesAssumption`, whose exclusions section 4 lists. Four theorems
need more, and state it as a hypothesis of their own, since a host may do otherwise: `Reliable`,
`OneBuilder`, `OwnOrms` and `TwoKeys`, below.

`OrmizeTransactionProofs`, for any adapters, branches and interleaving. `NeverFinalisedTwice` rests on
where the coordinator stands in its list `all`, which determines the transactions that can still be
open. `CallbacksFollowTheCommits` adds what the callbacks owe: those run or registered are of
mutations that ended, and they are due when something was committed or nothing was begun.
`LateWorkIsNeverCommitted` is about any body: `LateIsApart` says that a transaction got when the body had settled
is in the map alone, never in the list that `commit()` goes through, and all that is committed is of that list.
`NothingLeftOpen` and the refinement `KeepsThePromise` are about bodies that await every mutation;
`Alone` and `Accounted` say that such a body has at most one transaction of each adapter and that
the map and the list hold all of them, which is what an overwritten handle breaks. The refinement maps
each commit and each undo to the same step of `UnitOfWork`, and every other step to a stutter.

`ReadCacheProofs`: `NoUncommittedRows`, `FlightsAreLive`, and `Fresh`, the last under
`Reliable` (invalidations succeed, `clear()` is not called, every caller's transaction has
an `afterCommit`): section 4 tells what happens without the last two. The argument is
about the history variable `seal`, the generations a writer's last bump left behind.
`Sealed`: generations never go below the seal of a writer that was acknowledged.
`EntriesCover`: an entry whose key is at or above a writer's seal on every tag they share
shows that writer. `InFlight` and `ReaderFresh`: the same for rows a read holds under
the key it looked up, and `Led` for those it takes over from the flight it joined.
`Fresh` follows: a read called after the acknowledgement finds generations at or above the seal.

`ReadCacheProofs` also holds what is proved of `StoresSpec`, for any keys, sizes, limits and lifetimes:
`Accounting` and `NothingOutdated`, of either store. `SharedInv`: until a
`clear()` the index has a row of its size for every entry, their sum is the total and within the limits, and
no entry is newer than its generation. `LocalInv`: each key is there once, in the order of last use, with
what was last set, and the byte total is of what is held. Sums over finite sets are the work here: that taking
one member out takes its size off is proved from a smallest counterexample (`SmallestSet`, `LeastNumber`),
and so is that the eviction loop, which pops until the total fits, ends where the code's loop does
(`EvictionsEnd`).

`ValkeyAdapterProofs`: `TypeOK`, `Findable`, `Truthful`, `UniqueHolds` and `CollectsOnlyTheDead`. For the
first two the invariant says of a store that it is `Sound`,
and the proof is that each of the four bursts keeps it so, on the server and in the overlay, since no
burst carries a score of 0; a transaction's buffer then keeps it by induction over its length
(`ReplaySound`, with the existence of the replayed sequence proved as well). `Findable` is stated
of the rows the server holds, so an expired one that an update brings back is covered. `TypeOK` needs
`Lasting`: an update puts back at a later time what `pttl` answered earlier, and no chain of such
updates makes a lifetime longer than the callers may give.

The other three are about operations and transactions that come one at a time (`serial`), and rest on
`Orderly`, one invariant of server, buffer and the operation under way. `Clean`: scores and members of a row
are within the row's own keys, and its email is reserved for it unless the reservation lapsed. `Fresh`: an id
above the counter is unused. `Full` and `Claims`, of the store that the buffer will leave (`Sent`): a
row's membership set holds all its keys, and what it holds of emails is reserved for the row. `Even`: all
indexes of a row give it one score, except while a lifetime cascades over them. `InHand`: what an operation
has read is still so when it writes; this is where the order of `await`s in the adapter counts. The two
readings of a transaction are tied together by `Shadows`, what `EXEC` will leave against what the overlay
shows, and by `Fades`, what an elapsed lifetime takes from the server and, replayed over the buffer, from
the overlay. Each action has one lemma that it keeps `Orderly`.

`RelationshipMutationsProofs`: `OneAtATime`, `NoSecondEdge`, `StayingIsUninterrupted` and `VerbsDoWhatTheySay`.
`OneAtATime` needs `Slot`: a key has one value and points at a
row that exists, what a `set` has still to link is at most one row, and whatever else holds
the slot is either waiting to be let go (`drop`) or gone (`link`). That `set` on a hasOne
leaves the `drop` phase only when all jobs are done makes it inductive. `NoSecondEdge` needs `Marked`, which says of
a pair that is not `raced` how many of its row, the verb's intent to make one (`Asked`) and another's (`pending`) there are:
at most one, so that what either creates is the first. `VerbsDoWhatTheySay` is about
adapters that keep the row in hand current (`inPlace`), and a mutation next to which nobody links (`Alone`). Its invariant `VInv` says that the tables are sound between
verbs (`Sound`: a key points at a row that exists and holds one value, and no slot of a hasOne holds two live rows
once its restore has run) and were so when the verb began (`WasSound`), and of each phase what the verb has done of
its promise and which of its concurrent calls are left (`Progress`): when none is left, that is the promise.

`RowScopeProofs`: `OnlyVisibleRows` and `WritesStayInScope`. `Remembers` ties a memo entry to the
principal in its key and to an answer the predicate gave; `InTurn` says that a mutation runs alone;
`Allowed`, `Shown` and `Reaches` what a task may hold at each step; `Jobs` and `Landed` which task
wrote a row last, and that its write is in scope or about to be undone. That
invariant failed at first, and rightly so: in the model a mutation that failed undid the writes of
later ones, and a find threw away the work of a mutation beside it. `mutation` and the jobs of its
own repair both.

`FrontDoorsProofs`: `NothingPastTheGates` and `ToldWhatHappened`, for any number of faults. `Works` says
how far an attempt can be, `WhatChanges` and `HowItIsNested` by which road a column comes to be set, `Counted` that every effect has an attempt of its own, and `Excused`
that there are no more attempts than faults excuse. The first guard that fails is found by induction
(`LeastMember`).

`FrontDoorsProofs` also holds what is proved of lists: `PageIsTrue` and `WalkSeesEveryRowOnce` of `SealedSpec`,
for any rows, page sizes, number of writes and requests with one window. Four facts about the
arithmetic come first: a set put in order is known by the ranks of its members (`InOrder`); the plans of a root, a
relation and an eager page and the cut of rows already loaded are one window, `From` to `Upto`;
a slice of the list is that window's rows; and the window is what `Wanted` says. `PagesInv` says what each query of a page leaves
behind (`Tells`): while nobody has written since the page began (`Still`), the rows are the window's and the totals the
list's, and in any case what one query returned belongs together, which is all that `OneMoment` needs.
`PageIsWanted` adds the positions. For a walk `WalkInv` says that the rows seen cover a stretch of
the list (`Covered`) that begins at the end the client began from (`Reached`), and that the page under way
begins where the stretch ends (`Reaching`), `Veiled` rows between two pages included. A page joins its stretch to the one before
it (`JoinCovers`), and a walk that is over covers the list (`CoversAll`).

`LifecycleProofs`: `NothingReadsAroundUnheard`, `StartsAsDeclared` and what `initialise()` throws
and returns. `Sound` says of an orm in any phase that what is wired was declared
and that a join model that was made up has the columns of one of its ends; `ByPhase` and `Refusing` how far
the declarations have been looked at, in whatever order. `AsDeclaredOrRefused` is proved for
orms with `TwoKeys`: a join model whose two keys are one column, or its primary key, is accepted or
refused by the order in which its ends are wired.

`SchemaArtifactProofs`: `NeverHalfWritten` and more, that a path goes from whole artifact to whole
artifact, under `OneBuilder`: builders of one path write through one sibling
(`build-artifact.ts:82-88`), so two of them could rename a file that is half of each. And
that a schema that stands is the one an orm that has built nothing would build, the first half of
`SchemaFollowsItsPermission`, under `OwnOrms`: the adapter keeps one build permission. The same module
proves `GatesFollowTheRules` of `PermissionRules`, for any models, names, role trees and default trees and both `defaultDeny`.
`MergedSays`: a merged node says what the role's node says, and where that says nothing it says nothing that the
defaults do not. `GateSays`: a gate of the bag answers with the first key of its chain that says
anything, or with the default.

*Only model-checked.* Liveness (`EventuallySettles`, `EveryReadSettles`, `EveryTaskEnds`, `IsAnswered`,
`WalkEnds`, `InitialiseSettles`) is out of the proof system's reach. So is induction over data: the scopes of
`Permissions` are compiled by recursive operators over trees (`ScopesReachTheirRows`), `GlobalIds` folds over
them (`IdsReachTheirRows`, `RawKeysStayRaw`), and `SchemaBuild` takes what a schema reaches as a fixed point, on
which `FreshOrTold`, `ThrowsForAReason` and the second half of `SchemaFollowsItsPermission` depend,
that a built schema shows nothing denied.

## 6. Not modelled, and the plan

Not modelled: the bodies of the GraphQL resolvers beyond connections and ids, query trees
(`query-tree`), instance-method transforms (`applyInstanceTransforms`) and `override.input`, what
a verb does with input sub-trees below the first level (`FrontDoors` has which columns they set); `sync` and `reset`; Valkey's `belongsToMany` accessors;
the translation of operators to SQL, and the SQL itself, which is Sequelize's; nestize's document
beyond which routes it lists. Left out for good: the scalars of `graphql-types`, the zod
type table, `test-fixtures` and OpenAPI text, which format and parse without state or order.

Next, the most important first:

1. Proofs: that what a built schema reaches is closed, for the second half of `SchemaFollowsItsPermission`.
2. Verbs that fail, inside and outside a unit of work: `RelationshipMutations` composed with
   `OrmizeTransaction`.
3. Valkey's relationship accessors, whose `belongsToMany` looks for an edge and creates one later.
4. Input trees below the first level, with the transforms.

`PROJECT.json` lists every component with its status.
