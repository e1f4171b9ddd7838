-------------------------------- MODULE Pages --------------------------------
(***************************************************************************)
(* One client reading a list page by page, while others write: the root    *)
(* connection, a nested one, one loaded with its parent, one that crosses  *)
(* adapters, and the REST list.  A page is found in up to three queries (a *)
(* count before it, the page, a count after it), and what the client goes  *)
(* on with is a cursor: a position, sealed by a codec.  Rows are numbers,  *)
(* in the order the list is sorted by.  Bounds: MaxWrites writes, and the  *)
(* codec changes once; MaxSeen makes a walk that never ends a finite one.  *)
(***************************************************************************)
EXTENDS Integers, FiniteSets, SequencesExt

CONSTANTS Rows,         \* the rows there may be
          Veiled,       \* rows the definition's "after" hook withholds from the client
          Backends,     \* [inline, adapter]: COUNT(*) OVER() or a second query, and which adapter
          Requests,     \* what the client may ask for first
          DefaultPageSize, MaxPageSize, MaxWrites,
          MaxSeen       \* a client that has seen so many rows, some again and again, gives up

VARIABLES backend,    \* fixed
          codecs,     \* cursor codecs, the one that mints first
          table,      \* the rows there are
          writes,     \* how many writes there have been
          task,       \* the page being resolved
          answer,     \* the last page answered, with what it was asked for
          walk        \* the rows the client has seen, and how it goes on

vars == <<backend, codecs, table, writes, task, answer, walk>>

None == -1          \* an argument that was not given
Name == "connection"

Least(x, y) == IF x < y THEN x ELSE y
Greatest(x, y) == IF x > y THEN x ELSE y
\* A set of numbers, the i-th of which has i - 1 below it.
InOrder(S) == [i \in 1 .. Cardinality(S) |-> CHOOSE x \in S : Cardinality({y \in S : y < x}) = i - 1]
ListOf(t) == InOrder(t)
\* LIMIT and OFFSET
Slice(list, offset, limit) == SubSeq(list, offset + 1, Least(offset + limit, Len(list)))
ClampPageSize(n) == IF n <= 0 THEN DefaultPageSize ELSE Least(n, MaxPageSize)
SizeGiven(a) == IF a.first # None THEN a.first ELSE a.last
SizeOf(a) == ClampPageSize(SizeGiven(a))

-----------------------------------------------------------------------------
(* Arguments: a connection's cursors are decoded, and a REST offset becomes one. *)

Cursor(codec, connection, index) == [codec |-> codec, connection |-> connection, index |-> index]
NoCursor == Cursor("none", "none", None)
\* What a client may send: a list by a road of the graph, or by a route.
Sizes == Nat \cup {None}
SentCursors == {NoCursor} \cup [codec : {"old", "new", "unknown"}, connection : {Name, "another"}, index : Nat]
GraphQueries == [road : {"root", "cross", "relation", "eager"}, relation : STRING, separate : BOOLEAN,
                 countOnly : BOOLEAN, first : Sizes, last : Sizes, after : SentCursors, before : SentCursors]
RestQueries == [road : {"rest"}, relation : STRING, separate : BOOLEAN, countOnly : BOOLEAN, first : Sizes,
                last : Sizes, after : SentCursors, before : SentCursors, limit : Int, offset : Int]
\* decode, the codec in use and then the ones it replaced.
Decoded(cursor) ==
  IF cursor = NoCursor THEN [ok |-> TRUE, index |-> None]
  ELSE IF \E i \in DOMAIN codecs : codecs[i] = cursor.codec THEN
         [ok |-> cursor.connection = Name, index |-> cursor.index]
  ELSE [ok |-> FALSE, index |-> None]

\* limit and offset: first, and the cursor of the row before.
ListArgs(limit, offset) == [first |-> limit, last |-> None, before |-> None,
                            after |-> IF offset > 0 THEN offset - 1 ELSE None]
ArgsOf(q) ==
  IF q.road = "rest" THEN ListArgs(q.limit, q.offset)
  ELSE [first |-> q.first, last |-> q.last,
        after |-> Decoded(q.after).index, before |-> Decoded(q.before).index]
Refused(q) ==
  IF q.road = "rest" THEN q.limit = 0 \/ q.offset < 0 \/ q.limit < None
  ELSE ~ Decoded(q.after).ok \/ ~ Decoded(q.before).ok

CursorOffset(a) ==
  IF a.after # None THEN a.after + 1 ELSE IF a.before # None THEN Greatest(0, a.before - SizeOf(a)) ELSE 0
LastOnly(a) == a.last # None /\ a.after = None /\ a.before = None
\* The relationship's own rule asks for no "first" as well.
Root(q) == q.road \in {"root", "cross", "rest"}
CountsBefore(q, a) == LastOnly(a) /\ (Root(q) \/ a.first = None)

\* A request means one window by every road: it counts from one end, has one cursor, and what a
\* road would not bound as the others do has a bound of its own.
AskedOf(q) == [first |-> q.first, last |-> q.last, after |-> q.after.index, before |-> q.before.index]
OneWindow(a, q) ==
  /\ a.first = None \/ a.last = None
  /\ a.after = None \/ a.before = None
  /\ ~ Root(q) => a.before # 0 /\ (q.countOnly \/ SizeGiven(a) # None)
  /\ q.road = "eager" /\ ~ q.countOnly =>
       /\ q.separate \/ a.last <= 0 => ~ LastOnly(a)
       /\ q.relation = "required" => SizeGiven(a) \in 1 .. MaxPageSize

-----------------------------------------------------------------------------
(* Which queries a page takes, and with what window. *)

\* buildIncludeMapFromSelection: the parent's query brings the children along, those a
\* window applies to by a query of their own ("separate"), which only a hasMany can have.
Paginated(a) == a.first # None \/ a.last # None \/ a.after # None \/ a.before # None
Separate(q, a) ==
  q.relation = "hasMany" /\ ((Paginated(a) /\ ~ (LastOnly(a) /\ a.last > 0 /\ a.first = None)) \/ q.separate)
Preloaded(q, a) == q.road = "eager" /\ ~ q.countOnly /\ (Separate(q, a) \/ q.relation = "required" \/ ~ Paginated(a))

RootPlan(a) == [limit |-> IF a.before = None THEN SizeOf(a) ELSE Least(SizeOf(a), a.before),
                offset |-> CursorOffset(a)]
\* As if "before" moved the offset only.
RelationArgsAsAsked(a) == a
\* resolveManyRelationship writes the clamped size back, and the adapter clamps it again.
RelationArgs(a) ==
  IF a.before = None THEN a
  ELSE LET clamped == Least(SizeOf(a), a.before)
       IN IF a.first # None THEN [a EXCEPT !.first = clamped] ELSE [a EXCEPT !.last = clamped]
RelationPlan(a) ==
  [limit |-> IF backend.adapter = "valkey" /\ SizeGiven(a) = None THEN Cardinality(Rows) ELSE SizeOf(RelationArgs(a)),
   offset |-> CursorOffset(a)]
SeparatePlan(a) ==
  LET limit == IF a.before = None THEN SizeOf(a) ELSE Least(SizeOf(a), a.before)
  IN [limit |-> limit,
      offset |-> IF a.before # None THEN Greatest(0, a.before - limit) ELSE a.after + 1]

Idle == [at |-> "idle"]
NoAnswer == [given |-> FALSE]
NewTask(q, a, at, plan) ==
  [at |-> at, q |-> q, args |-> a, limit |-> plan.limit, offset |-> plan.offset,
   loaded |-> <<>>, rows |-> <<>>, total |-> 0, began |-> writes]
Answered(q, a, error, total, edges, next, previous, began, found) ==
  [given |-> TRUE, q |-> q, args |-> a, error |-> error, total |-> total, edges |-> edges, hasNextPage |-> next,
   hasPreviousPage |-> previous, began |-> began, written |-> writes, found |-> found]

Init == /\ backend \in Backends
        /\ codecs = <<"old">>
        /\ table \in SUBSET Rows
        /\ writes = 0
        /\ task = Idle
        /\ answer = NoAnswer
        /\ walk = [on |-> FALSE, seen |-> <<>>, began |-> 0]

\* The Valkey adapter counts children by a foreign key before it fetches them, and the
\* targets of edges when it has them.
CountsFirst(q) == ~ Root(q) /\ backend.adapter = "valkey" /\ q.relation # "belongsToMany"
First(q, a) == IF Preloaded(q, a) THEN "load"
               ELSE IF CountsBefore(q, a) THEN "countBefore"
               ELSE IF q.countOnly THEN "count"
               ELSE IF CountsFirst(q) THEN "countFirst"
               ELSE "find"

Start(q) ==
  /\ task = Idle
  /\ IF Refused(q)
     THEN /\ answer' = Answered(q, [first |-> None], TRUE, 0, <<>>, FALSE, FALSE, writes, FALSE)
          /\ UNCHANGED task
     ELSE LET a == ArgsOf(q)
          IN /\ task' = NewTask(q, a, First(q, a), IF Preloaded(q, a) THEN SeparatePlan(a)
                                                   ELSE IF Root(q) THEN RootPlan(a) ELSE RelationPlan(a))
             /\ UNCHANGED answer
  /\ UNCHANGED <<backend, codecs, table, writes>>

\* The client asks, and means to go on until there is nothing more.
Ask(q) == /\ Start(q)
          /\ walk' = [on |-> q.road # "rest" /\ ~ q.countOnly /\ q.after = NoCursor /\ q.before = NoCursor,
                      seen |-> <<>>, began |-> writes]
\* endCursor and startCursor of the last page.
Continue ==
  /\ walk.on /\ Len(walk.seen) < MaxSeen /\ answer.given /\ ~ answer.error /\ answer.edges # <<>>
  /\ LET forward == answer.q.last = None
         edge == IF forward THEN Last(answer.edges) ELSE Head(answer.edges)
     IN /\ IF forward THEN answer.hasNextPage ELSE answer.hasPreviousPage
        /\ Start([answer.q EXCEPT !.after = IF forward THEN edge.cursor ELSE NoCursor,
                                  !.before = IF forward THEN NoCursor ELSE edge.cursor])
  /\ UNCHANGED walk

-----------------------------------------------------------------------------
(* The queries, each of the table as it is at that moment. *)

Step(at) == task.at = at /\ UNCHANGED <<backend, codecs, table, writes, answer, walk>>
Count == Len(ListOf(table))

\* The children that came with the parents: their window, or all of them.
Load ==
  /\ Step("load")
  /\ task' = [task EXCEPT !.loaded = IF Separate(task.q, task.args)
                                     THEN Slice(ListOf(table), task.offset, task.limit) ELSE ListOf(table),
                          !.at = IF CountsBefore(task.q, task.args) THEN "countBefore" ELSE "window"]

\* "last" without a cursor: the end is where the count says.
CountBefore ==
  /\ Step("countBefore")
  /\ LET size == IF Root(task.q) THEN task.limit ELSE ClampPageSize(task.args.last)
     IN task' = [task EXCEPT !.offset = Greatest(0, Count - size),
                             !.at = IF Preloaded(task.q, task.args) THEN "window"
                                    ELSE IF task.q.countOnly THEN "count"
                                    ELSE IF CountsFirst(task.q) THEN "countFirst"
                                    ELSE "find"]
CountFirst == /\ Step("countFirst")
              /\ task' = [task EXCEPT !.total = Count, !.at = "find"]

\* The count of the page's own query; an empty page has no row to read it from.
InlineCount(rows) == IF rows = <<>> THEN 0 ELSE Count
CountOf(rows) == IF backend.inline THEN InlineCount(rows) ELSE None
Find ==
  /\ Step("find")
  /\ LET rows == Slice(ListOf(table), task.offset, task.limit)
         total == IF CountsFirst(task.q) THEN task.total
                  ELSE IF ~ Root(task.q) /\ backend.adapter = "valkey" THEN Count
                  ELSE CountOf(rows)
     IN task' = [task EXCEPT !.rows = rows, !.total = total,
                             !.at = IF total = None \/ (Root(task.q) /\ total = 0 /\ rows = <<>> /\ task.offset > 0)
                                    THEN "count" ELSE "answer"]

\* Of the preloaded rows: a window that went into the query is not applied again.
Window ==
  /\ Step("window")
  /\ LET size == SizeGiven(RelationArgs(task.args))
         rows == IF size = None \/ Separate(task.q, task.args) THEN task.loaded
                 ELSE Slice(task.loaded, IF LastOnly(task.args) THEN task.offset ELSE CursorOffset(task.args), size)
     IN task' = [task EXCEPT !.rows = rows, !.total = Len(rows), !.at = IF size = None THEN "answer" ELSE "count"]

CountAfter == /\ Step("count")
              /\ task' = [task EXCEPT !.total = Count, !.at = "answer"]

-----------------------------------------------------------------------------
(* buildConnectionResolver: positions, edges and page flags. *)

\* As if the cursor's own row came again.
PageOffsetAtTheRow(a, total) == IF a.after # None THEN a.after ELSE 0
PageOffset(a, total) ==
  IF a.after # None THEN a.after + 1
  ELSE IF a.before # None THEN Greatest(0, a.before - Least(SizeOf(a), a.before))
  ELSE IF a.last # None THEN Greatest(0, total - ClampPageSize(a.last))
  ELSE 0
Positioned(rows, offset) ==
  LET shown == InOrder({i \in DOMAIN rows : rows[i] \notin Veiled})
  IN [k \in DOMAIN shown |-> [row |-> rows[shown[k]], index |-> offset + shown[k] - 1,
                              cursor |-> Cursor(Head(codecs), Name, offset + shown[k] - 1)]]
\* As if positions counted from one.
HasNextPageFromOne(edges, total) == edges # <<>> /\ Last(edges).index + 1 < total - 1
HasNextPage(edges, total) == edges # <<>> /\ Last(edges).index < total - 1
HasPreviousPage(edges) == edges # <<>> /\ Head(edges).index > 0

Answer ==
  /\ task.at = "answer"
  /\ LET edges == Positioned(task.rows, PageOffset(task.args, task.total))
     IN /\ answer' = Answered(task.q, task.args, FALSE, task.total, edges, HasNextPage(edges, task.total),
                              HasPreviousPage(edges), task.began, task.rows # <<>>)
        /\ LET new == [i \in DOMAIN edges |-> edges[i].row]
           IN walk' = [walk EXCEPT !.seen = IF task.q.road # "rest" /\ task.q.last # None THEN new \o @ ELSE @ \o new]
  /\ task' = Idle
  /\ UNCHANGED <<backend, codecs, table, writes>>

\* Somebody else, while the client reads.
OthersWrite(row) ==
  /\ task # Idle \/ walk.on
  /\ writes < MaxWrites
  /\ table' = IF row \in table THEN table \ {row} ELSE table \cup {row}
  /\ writes' = writes + 1
  /\ UNCHANGED <<backend, codecs, task, answer, walk>>
\* The deployment changes its codec, and still reads what the old one minted.
Rotate == /\ task = Idle /\ walk.on /\ Len(codecs) = 1
          /\ codecs' = <<"new", "old">>
          /\ UNCHANGED <<backend, table, writes, task, answer, walk>>

Resolve == Load \/ CountBefore \/ CountFirst \/ Find \/ Window \/ CountAfter \/ Answer
Next == \/ answer = NoAnswer /\ task = Idle /\ \E q \in Requests : Ask(q)
        \/ Continue \/ Resolve \/ Rotate
        \/ \E row \in Rows : OthersWrite(row)
Spec == Init /\ [][Next]_vars /\ WF_vars(Continue \/ Resolve)

-----------------------------------------------------------------------------
IsAnswered == answer.given /\ task = Idle
\* Nobody has written since the page was asked for.
Quiet == IsAnswered /\ answer.began = writes

\* The page asked for, said of the list: the rows after a cursor, the ones before it
\* that are nearest, the last ones, or the first ones.
Wanted(list, a) ==
  LET n == Len(list)
      from == IF a.after # None THEN a.after + 1
              ELSE IF a.before # None THEN Greatest(0, a.before - SizeOf(a))
              ELSE IF a.last # None THEN Greatest(0, n - SizeOf(a))
              ELSE 0
      to == IF a.before # None THEN Least(a.before, n) ELSE Least(from + SizeOf(a), n)
  IN {i \in 0 .. n - 1 : from <= i /\ i < to}

(* By every road, with every backend, a page that nobody wrote into is the *)
(* one asked for: its rows at their true positions, flags that say whether *)
(* rows lie before and after it, and the count of all rows.  The count of  *)
(* an empty page is claimed of root connections past the end only.         *)
PageIsTheWindow ==
  Quiet /\ ~ answer.error =>
    LET list == ListOf(table)
        wanted == IF answer.q.countOnly THEN {} ELSE Wanted(list, answer.args)
    IN /\ {<<e.index, e.row>> : e \in Range(answer.edges)} =
             {<<i, list[i + 1]>> : i \in {j \in wanted : list[j + 1] \notin Veiled}}
       /\ answer.edges # <<>> =>
            /\ answer.hasPreviousPage = (Head(answer.edges).index > 0)
            /\ answer.hasNextPage = \E i \in 0 .. Len(list) - 1 : i > Last(answer.edges).index
       /\ answer.found \/ answer.q.countOnly \/ (Root(answer.q) /\ CursorOffset(answer.args) > 0) =>
            answer.total = Len(list)

(* A client that goes on from cursor to cursor, in either direction and    *)
(* across a change of codec, sees every row once and in order, if nobody   *)
(* writes meanwhile and no page of it is withheld whole.                   *)
WalkIsOver == /\ walk.on /\ IsAnswered /\ ~ answer.error
              /\ ~ (IF answer.q.last = None THEN answer.hasNextPage ELSE answer.hasPreviousPage)
WalkSeesEveryRowOnce ==
  WalkIsOver /\ walk.began = writes =>
    \/ answer.found /\ answer.edges = <<>>
    \/ walk.seen = ListOf(table \ Veiled)

(* Where the count comes with the page, what a forward page says is true   *)
(* of the list as it was at one moment, whoever writes: the total and the  *)
(* rows never belong to different lists.                                   *)
OneMoment ==
  IsAnswered /\ ~ answer.error /\ backend.inline /\ answer.edges # <<>> /\ Root(answer.q) /\ answer.args.last = None =>
    Last(answer.edges).index < answer.total

(* A page says the truth: all of it of a list that stood still, and of one *)
(* that moved what one query can say of one moment.                        *)
PageIsTrue == PageIsTheWindow /\ OneMoment

(* A walk ends, however the others write.                                  *)
WalkEnds == walk.on ~> WalkIsOver \/ (IsAnswered /\ answer.error)
=============================================================================
