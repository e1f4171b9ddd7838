----------------------------- MODULE OpaqueValues -----------------------------
(***************************************************************************)
(* The two kinds of value that a GraphQL client is handed sealed and sends *)
(* back: the cursors of a connection (Pages.tla) and the ids of rows       *)
(* (GlobalIds.tla), each through codecs the host chooses                   *)
(* (gqlize/src/codecs).  No value is ever read by the other's codec, so a  *)
(* behaviour is about one kind.                                            *)
(***************************************************************************)
EXTENDS Integers, FiniteSets

CONSTANTS
  Rows, Veiled, Backends, PageRequests, DefaultPageSize, MaxPageSize, MaxWrites, MaxSeen,  \* of cursors
  Fields, Associations, Keys, Codecs, Prefixed, ScopedBy, Scopes, IdRequests, WrittenRows, \* of ids
  Nothing

VARIABLES
  sealed,                                               \* "cursors" or "ids"
  backend, codecs, table, writes, task, answer, walk,
  codec, scope, held, last

cursorVars == <<backend, codecs, table, writes, task, answer, walk>>
idVars == <<codec, scope, held, last>>
sealedVars == <<sealed, cursorVars, idVars>>

Cursors == INSTANCE Pages WITH Requests <- PageRequests
Ids == INSTANCE GlobalIds WITH Requests <- IdRequests, Rows <- WrittenRows

ASSUME PagesAssumption ==
  /\ Rows \subseteq Nat /\ IsFiniteSet(Rows)
  /\ DefaultPageSize \in Nat \ {0} /\ MaxPageSize \in Nat /\ DefaultPageSize <= MaxPageSize
  /\ PageRequests \subseteq Cursors!GraphQueries \cup Cursors!RestQueries
  /\ \A q \in PageRequests : q.road # "rest" => Cursors!OneWindow(Cursors!AskedOf(q), q)

SealedInit ==
  \/ sealed = "cursors" /\ Cursors!Init
     /\ codec = Nothing /\ scope = Nothing /\ held = Nothing /\ last = Nothing
  \/ sealed = "ids" /\ Ids!Init
     /\ backend = Nothing /\ codecs = Nothing /\ table = Nothing /\ writes = Nothing
     /\ task = Nothing /\ answer = Nothing /\ walk = Nothing

UseCursors == sealed = "cursors" /\ Cursors!Next /\ UNCHANGED <<sealed, idVars>>
UseIds == sealed = "ids" /\ Ids!Next /\ UNCHANGED <<sealed, cursorVars>>
SealedNext == UseCursors \/ UseIds

\* The server answers, and the client goes on: nothing is assumed of those who write.
GoesOn == sealed = "cursors" /\ (Cursors!Continue \/ Cursors!Resolve) /\ UNCHANGED <<sealed, idVars>>
SealedSpec == SealedInit /\ [][SealedNext]_sealedVars /\ WF_sealedVars(GoesOn)

-------------------------------------------------------------------------------
(* Of a list that stood still a page says all the truth, and of one that   *)
(* moved what one query can say of one moment: rows, positions, flags and  *)
(* total, by every road to it (connection.ts, engine/resolution.ts).       *)
PageIsTrue == sealed = "cursors" => Cursors!PageIsTrue

(* A client that goes on from cursor to cursor, in either direction and    *)
(* across a change of codec, sees every row once and in order, if nobody   *)
(* writes meanwhile.                                                       *)
WalkSeesEveryRowOnce == sealed = "cursors" => Cursors!WalkSeesEveryRowOnce

Walking == sealed = "cursors" /\ walk.on
(* A walk from cursor to cursor ends, however the others write.            *)
WalkEnds == Walking ~> (Walking /\ (Cursors!WalkIsOver \/ (Cursors!IsAnswered /\ answer.error)))

(* An id that a field showed reaches the datastore as the key it was shown *)
(* for, by every road and at every level of a tree, and what is not an id  *)
(* as it was sent; one minted for another type is an error, and nothing    *)
(* else is called one (replace-id-deep.ts, decode-id.ts).                  *)
IdsReachTheirRows == sealed = "ids" => Ids!IdsReachTheirRows /\ Ids!ForeignIdsAreRefused

(* Raw keys stay raw: what a scope says reaches the datastore as it was    *)
(* resolved, even when the principal's key is spelled like an id, and what *)
(* is written to a foreign key is a key of the model it points at.         *)
RawKeysStayRaw == sealed = "ids" => Ids!ScopeStaysRaw /\ Ids!KeysStayRaw
===============================================================================
