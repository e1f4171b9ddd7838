----------------------------- MODULE ValkeyAdapter -----------------------------
(***************************************************************************)
(* The rows of one model in Valkey (packages/ormize-adapter-valkey/src):   *)
(* the object, the ids and equality ZSETs, the unique keys and the         *)
(* membership set of each row, under concurrent operations that read, wait *)
(* and write, TTLs, lazy garbage collection and buffered transactions.     *)
(*                                                                         *)
(* A row has one indexed field, owner (a foreign key), and one unique      *)
(* field, email, which is indexed as well.  Its id comes from the INCR     *)
(* counter.  Operations are cut at every await.  What one issues without   *)
(* awaiting in between goes out on one connection as a burst, and the      *)
(* server runs it as a whole.                                              *)
(***************************************************************************)
EXTENDS Naturals, Sequences

CONSTANTS
  Clients,    \* concurrent chains of calls in the process
  MaxIds,     \* bound: rows created
  Owners, Nobody, Emails,  \* field values; Nobody is the owner null
  MaxTTL, MaxTime,         \* bounds: lifetimes and the clock
  Wheres,     \* filters that are called with, each a set of conditions
  Residents,  \* rows the store may hold from before, of which at most one
  Patches,    \* what updates set
  MaxJobs, MaxShared  \* bounds: operations, and how many when they interleave

Rows == [owner : Owners, email : Emails]
Patched(row, patch) ==
  [f \in DOMAIN row |-> IF f \in DOMAIN patch THEN patch[f] ELSE row[f]]

ASSUME ValkeyAssumption ==
  /\ MaxIds \in Nat \ {0} /\ MaxTTL \in Nat /\ MaxTime \in Nat
  /\ MaxJobs \in Nat /\ MaxShared \in Nat
  /\ Nobody \in Owners /\ Emails # {} /\ Residents \subseteq Rows
  /\ \A p \in Patches, row \in Rows : Patched(row, p) \in Rows

Ids == 1..MaxIds
Never == MaxTime + MaxTTL + 1   \* the score +inf
TTLs == 0..MaxTTL               \* 0 for none

(* keys.ts, by field and value *)
IdsKey == <<"ids", "all">>
EqualityKeys == ({"owner"} \X Owners) \cup ({"email"} \X Emails)
UniqueKeys == {"u"} \X Emails
ZKeys == EqualityKeys \cup {IdsKey}

Equality(row) == {<<"owner", row.owner>>, <<"email", row.email>>}
Unique(row) == {<<"u", row.email>>}
Plan(row) == Equality(row) \cup Unique(row)

VARIABLES
  db,       \* the server: objects, ZSETs, unique keys, membership sets, counter
  now,      \* the clock of client and server
  serial,   \* whether operations and transactions come one at a time
  pc, job,  \* per client: where its operation stands, and its local variables
  inTx, buffer,  \* per client: whether it is in a transaction, and its commands
  jobs,     \* operations started
  lapsed    \* history: emails whose unique key a TTL took

vars == <<db, now, serial, pc, job, inTx, buffer, jobs, lapsed>>

Gone == [row |-> [owner |-> Nobody, email |-> CHOOSE e \in Emails : TRUE], expires |-> 0]
Free == [id |-> 0, expires |-> 0]
NoJob == [op |-> "none", conds |-> {}, ids |-> {}, expired |-> {}, rows |-> {},
          drop |-> {}, link |-> {}, owner |-> Nobody, patch |-> <<>>,
          id |-> 0, before |-> {}, new |-> Gone.row, ttl |-> 0, keep |-> 0, start |-> 0]

-------------------------------------------------------------------------------
(* Bursts of commands.  A score of 0 means that the ZSET has no such member. *)

ExpiresAt(ttl) == IF ttl > 0 THEN now + ttl ELSE Never
Score(ttl, start) == IF ttl > 0 THEN start + ttl ELSE Never

(* Mutants of Put: old keys are removed after the new ones are added; or   *)
(* not removed; or a reindex does not reserve the new unique key.          *)
PutRemovesLast(d, b) ==
  LET after == Plan(b.row) IN
  [d EXCEPT
    !.obj[b.id] = [row |-> b.row, expires |-> ExpiresAt(b.ttl)],
    !.z = [k \in ZKeys |->
            [d.z[k] EXCEPT ![b.id] =
              IF k \in b.before THEN 0 ELSE IF k \in after \cup {IdsKey} THEN b.score ELSE @]],
    !.m[b.id] = (@ \cup after) \ b.before]
PutRemovesNothing(d, b) ==
  [d EXCEPT
    !.obj[b.id] = [row |-> b.row, expires |-> ExpiresAt(b.ttl)],
    !.z = [k \in ZKeys |->
            [d.z[k] EXCEPT ![b.id] = IF k \in Plan(b.row) \cup {IdsKey} THEN b.score ELSE @]],
    !.m[b.id] = @ \cup Plan(b.row)]
PutReservesOnce(d, b) ==
  [PutRemovesNothing(d, b) EXCEPT
    !.u = [e \in Emails |->
            IF <<"u", e>> \in Plan(b.row) /\ b.before = {}
            THEN [id |-> b.id, expires |-> ExpiresAt(b.ttl)] ELSE d.u[e]]]

(* putObj with addToIndexes (nothing before) or reindex. *)
Put(d, b) ==
  LET after == Plan(b.row) IN
  [d EXCEPT
    !.obj[b.id] = [row |-> b.row, expires |-> ExpiresAt(b.ttl)],
    !.z = [k \in ZKeys |->
            [d.z[k] EXCEPT ![b.id] =
              IF k \in after \cup {IdsKey} THEN b.score ELSE IF k \in b.before THEN 0 ELSE @]],
    !.u = [e \in Emails |->
            IF <<"u", e>> \in after \ b.before THEN [id |-> b.id, expires |-> ExpiresAt(b.ttl)]
            ELSE IF <<"u", e>> \in b.before \ after THEN Free ELSE d.u[e]],
    !.m[b.id] = (@ \cup after) \ (b.before \ after)]

(* removeFromIndexes and delObj *)
Unput(d, b) ==
  [d EXCEPT
    !.obj[b.id] = Gone,
    !.z = [k \in ZKeys |-> [d.z[k] EXCEPT ![b.id] = IF k \in b.before \cup {IdsKey} THEN 0 ELSE @]],
    !.u = [e \in Emails |-> IF <<"u", e>> \in b.before THEN Free ELSE d.u[e]],
    !.m[b.id] = {}]

(* PEXPIRE or PERSIST of the object, and of what it is a member of. *)
Alive(d, i) == d.obj[i].expires > now
Lifetime(d, b) ==
  [d EXCEPT !.obj[b.id].expires = IF @ > now THEN ExpiresAt(b.ttl) ELSE @,
            !.z[IdsKey][b.id] = b.score]
(* Mutant: the equality ZSETs keep their scores. *)
CascadeToUniqueKeys(d, b) ==
  [d EXCEPT !.u = [e \in Emails |->
     IF <<"u", e>> \in b.before /\ d.u[e] # Free
     THEN [d.u[e] EXCEPT !.expires = ExpiresAt(b.ttl)] ELSE d.u[e]]]
Cascade(d, b) ==
  [d EXCEPT
    !.z = [k \in ZKeys |-> [d.z[k] EXCEPT ![b.id] = IF k \in b.before THEN b.score ELSE @]],
    !.u = [e \in Emails |->
            IF <<"u", e>> \in b.before /\ d.u[e] # Free
            THEN [d.u[e] EXCEPT !.expires = ExpiresAt(b.ttl)] ELSE d.u[e]]]

Run(d, b) ==
  CASE b.cmd = "put" -> Put(d, b) [] b.cmd = "remove" -> Unput(d, b)
    [] b.cmd = "lifetime" -> Lifetime(d, b) [] b.cmd = "cascade" -> Cascade(d, b)

(* The overlay over the server.  It keeps the members of a membership set  *)
(* that the transaction has deleted.                                       *)
Overlaid(d, b) == [Run(d, b) EXCEPT !.m[b.id] = IF b.cmd = "remove" THEN d.m[b.id] ELSE @]
(* What a store becomes when buffered commands run over it, or overlay it. *)
Replay(overlay, d, commands) ==
  LET after[n \in 0..Len(commands)] ==
        IF n = 0 THEN d
        ELSE IF overlay THEN Overlaid(after[n - 1], commands[n]) ELSE Run(after[n - 1], commands[n])
  IN  after[Len(commands)]
View(c) == IF inTx[c] THEN Replay(TRUE, db, buffer[c]) ELSE db

(* A burst goes to the server, or into the buffer of the transaction. *)
Emit(c, b) ==
  IF inTx[c] THEN buffer' = [buffer EXCEPT ![c] = Append(@, b)] /\ UNCHANGED db
             ELSE db' = Run(db, b) /\ UNCHANGED buffer

Quiet == UNCHANGED <<db, buffer>>
Steady == UNCHANGED <<now, serial, inTx, jobs, lapsed>>
Goto(c, position) == pc' = [pc EXCEPT ![c] = position]
End(c) == Goto(c, "idle") /\ job' = [job EXCEPT ![c] = NoJob]

(* The store is empty, or holds a row that an operation before created. *)
Empty == [obj |-> [i \in Ids |-> Gone], z |-> [k \in ZKeys |-> [i \in Ids |-> 0]],
          u |-> [e \in Emails |-> Free], m |-> [i \in Ids |-> {}], seq |-> 0]

Init ==
  /\ now = 0 /\ serial \in BOOLEAN
  /\ \/ serial /\ jobs = 0 /\ db = Empty
     \/ \E row \in Residents, ttl \in TTLs :
          /\ jobs = 1 /\ db = Put([Empty EXCEPT !.seq = 1],
                     [cmd |-> "put", id |-> 1, row |-> row, before |-> {}, ttl |-> ttl, score |-> Score(ttl, now)])
  /\ pc = [c \in Clients |-> "idle"] /\ job = [c \in Clients |-> NoJob]
  /\ inTx = [c \in Clients |-> FALSE] /\ buffer = [c \in Clients |-> <<>>]
  /\ lapsed = {}

-------------------------------------------------------------------------------
(* Calls *)

MayCall(c) ==
  /\ pc[c] = "idle"
  /\ IF serial THEN jobs < MaxJobs /\ \A d \in Clients \ {c} : pc[d] = "idle" /\ ~inTx[d]
               ELSE jobs < MaxShared

Begin(c, position, j) ==
  /\ MayCall(c)
  /\ jobs' = jobs + 1 /\ Goto(c, position)
  /\ job' = [job EXCEPT ![c] = [j EXCEPT !.start = now]]
  /\ UNCHANGED <<now, serial, inTx, lapsed>>

(* The INCR runs at once, in a transaction too. *)
Create(c) ==
  /\ db.seq < MaxIds
  /\ db' = [db EXCEPT !.seq = @ + 1] /\ UNCHANGED buffer
  /\ \E row \in Rows, ttl \in TTLs :
       /\ Begin(c, "check", [NoJob EXCEPT !.op = "create", !.id = db.seq + 1, !.new = row, !.keep = ttl])

Find(c) ==
  /\ \E w \in Wheres : Begin(c, "resolve", [NoJob EXCEPT !.op = "find", !.conds = w, !.ids = Ids])
  /\ Quiet
Update(c) ==
  /\ \E w \in Wheres, p \in Patches, ttl \in TTLs :
       Begin(c, "resolve", [NoJob EXCEPT !.op = "update", !.conds = w, !.ids = Ids, !.patch = p, !.ttl = ttl])
  /\ Quiet
Delete(c) ==
  /\ \E w \in Wheres : Begin(c, "resolve", [NoJob EXCEPT !.op = "delete", !.conds = w, !.ids = Ids])
  /\ Quiet

(* The hasMany accessors of a record: remove drops targets, add links      *)
(* them, set drops all that there are and links the new ones.              *)
Accessor(c) ==
  /\ \E o \in Owners \ {Nobody}, ts \in SUBSET Ids, way \in {"add", "remove", "set"} :
       Begin(c, IF way = "set" THEN "resolve" ELSE "next",
         [NoJob EXCEPT !.op = "relink", !.owner = o, !.ids = Ids,
           !.conds = IF way = "set" THEN {<<"owner", o>>} ELSE {},
           !.drop = IF way = "remove" THEN ts ELSE {}, !.link = IF way = "remove" THEN {} ELSE ts])
  /\ Quiet

(* setExpiry: the PEXPIRE, the ZADD and the SMEMBERS go out together. *)
SetExpiry(c) ==
  \E i \in Ids, ttl \in TTLs :
    /\ Begin(c, "cascade", [NoJob EXCEPT !.op = "expiry", !.id = i, !.ttl = ttl, !.before = View(c).m[i]])
    /\ Emit(c, [cmd |-> "lifetime", id |-> i, ttl |-> ttl, score |-> Score(ttl, now)])

Cascades(c) ==
  /\ pc[c] = "cascade"
  /\ Emit(c, [cmd |-> "cascade", id |-> job[c].id, before |-> job[c].before, ttl |-> job[c].ttl,
             score |-> Score(job[c].ttl, job[c].start)])
  /\ End(c) /\ Steady

-------------------------------------------------------------------------------
(* resolveWhere and executeQuery *)

ScoreOf(c, k, i) == View(c).z[k][i]
EqualitySet(c, k) ==
  CASE k[1] = "id" -> {k[2]}
    [] k[1] = "email" -> {View(c).u[k[2]].id}
    [] OTHER -> {i \in Ids : ScoreOf(c, k, i) > job[c].start}
Expired(c, k) ==
  {i \in Ids : /\ ~inTx[c] /\ k \in ZKeys /\ k[1] # "email"
               /\ ScoreOf(c, k, i) \in 1..job[c].start}

(* One condition is looked up; what has expired in its ZSET is collected.  *)
Resolve(c) ==
  /\ pc[c] = "resolve"
  /\ \E k \in job[c].conds :
       /\ job' = [job EXCEPT ![c].conds = @ \ {k}, ![c].ids = @ \cap EqualitySet(c, k),
                             ![c].expired = Expired(c, k)]
       /\ Goto(c, IF Expired(c, k) = {} THEN "resolve" ELSE "collect")
  /\ Quiet /\ Steady

Collect(c) ==
  /\ pc[c] = "collect"
  /\ \E i \in job[c].expired :
       job' = [job EXCEPT ![c].id = i, ![c].expired = @ \ {i}, ![c].before = View(c).m[i]]
  /\ Goto(c, "purge") /\ Quiet /\ Steady

Purge(c) ==
  /\ pc[c] = "purge"
  /\ Emit(c, [cmd |-> "remove", id |-> job[c].id, before |-> job[c].before])
  /\ Goto(c, IF job[c].expired = {} THEN "resolve" ELSE "collect")
  /\ Steady /\ UNCHANGED job

(* The rows that are there; the filter is not looked at again. *)
Fetch(c) ==
  /\ pc[c] = "resolve" /\ job[c].conds = {}
  /\ LET found == {i \in job[c].ids : Alive(View(c), i)} IN
     CASE job[c].op = "find" -> End(c)
       [] job[c].op = "relink" -> Goto(c, "next") /\ job' = [job EXCEPT ![c].drop = found]
       [] OTHER -> /\ Goto(c, "next")
                   /\ job' = [job EXCEPT ![c].rows = {[id |-> i, row |-> View(c).obj[i].row] : i \in found}]
  /\ Quiet /\ Steady

-------------------------------------------------------------------------------
(* Row by row *)

(* An update works on the row as the query returned it. *)
NextUpdate(c) ==
  /\ pc[c] = "next" /\ job[c].op = "update"
  /\ \E r \in job[c].rows :
       job' = [job EXCEPT ![c].rows = @ \ {r}, ![c].id = r.id, ![c].before = Plan(r.row),
                         ![c].new = Patched(r.row, job[c].patch)]
  /\ Goto(c, "check") /\ Quiet /\ Steady

NextDelete(c) ==
  /\ pc[c] = "next" /\ job[c].op = "delete"
  /\ \E r \in job[c].rows :
       job' = [job EXCEPT ![c].rows = @ \ {r}, ![c].id = r.id, ![c].before = View(c).m[r.id]]
  /\ Goto(c, "remove") /\ Quiet /\ Steady

RemoveRow(c) ==
  /\ pc[c] = "remove"
  /\ Emit(c, [cmd |-> "remove", id |-> job[c].id, before |-> job[c].before])
  /\ Goto(c, "next") /\ Steady /\ UNCHANGED job

(* persistPatch reads the row itself and passes over one that is gone. *)
NextPatch(c) ==
  /\ pc[c] = "next" /\ job[c].op = "relink"
  /\ \E i \in IF job[c].drop # {} THEN job[c].drop ELSE job[c].link :
       LET o == IF job[c].drop # {} THEN Nobody ELSE job[c].owner
           row == View(c).obj[i].row
           rest == [job[c] EXCEPT !.drop = @ \ {i}, !.link = IF job[c].drop # {} THEN @ ELSE @ \ {i}]
       IN IF Alive(View(c), i)
          THEN /\ job' = [job EXCEPT ![c] = [rest EXCEPT !.id = i, !.before = Plan(row),
                                              !.new = [row EXCEPT !.owner = o]]]
               /\ Goto(c, "check")
          ELSE job' = [job EXCEPT ![c] = rest] /\ UNCHANGED pc
  /\ Quiet /\ Steady

NothingLeft(c) ==
  /\ pc[c] = "next" /\ job[c].rows = {} /\ job[c].drop = {} /\ job[c].link = {}
  /\ End(c) /\ Quiet /\ Steady

(* enforceUnique; the operation throws when the key is somebody else's. *)
EnforceUnique(c) ==
  /\ pc[c] = "check"
  /\ IF View(c).u[job[c].new.email].id \in {0, job[c].id}
     THEN Goto(c, IF job[c].op = "create" THEN "write" ELSE "pttl") /\ UNCHANGED job
     ELSE End(c)
  /\ Quiet /\ Steady

(* The remaining lifetime, from the server also in a transaction. *)
Pttl(i) == IF Alive(db, i) /\ db.obj[i].expires # Never THEN db.obj[i].expires - now ELSE 0
ReadTtl(c) ==
  /\ pc[c] = "pttl"
  /\ job' = [job EXCEPT ![c].keep = IF job[c].ttl > 0 THEN job[c].ttl ELSE Pttl(job[c].id)]
  /\ Goto(c, "write") /\ Quiet /\ Steady

WriteRow(c) ==
  /\ pc[c] = "write"
  /\ Emit(c, [cmd |-> "put", id |-> job[c].id, row |-> job[c].new, before |-> job[c].before,
             ttl |-> job[c].keep, score |-> Score(job[c].keep, job[c].start)])
  /\ IF job[c].op = "create" THEN End(c) ELSE Goto(c, "next") /\ UNCHANGED job
  /\ Steady

-------------------------------------------------------------------------------
(* transaction() *)

BeginTransaction(c) ==
  /\ MayCall(c) /\ ~inTx[c]
  /\ inTx' = [inTx EXCEPT ![c] = TRUE]
  /\ UNCHANGED <<db, now, serial, pc, job, buffer, jobs, lapsed>>

(* MULTI, the commands, EXEC. *)
Commit(c) ==
  /\ pc[c] = "idle" /\ inTx[c]
  /\ db' = Replay(FALSE, db, buffer[c])
  /\ inTx' = [inTx EXCEPT ![c] = FALSE] /\ buffer' = [buffer EXCEPT ![c] = <<>>]
  /\ UNCHANGED <<now, serial, pc, job, jobs, lapsed>>

Rollback(c) ==
  /\ pc[c] = "idle" /\ inTx[c]
  /\ inTx' = [inTx EXCEPT ![c] = FALSE] /\ buffer' = [buffer EXCEPT ![c] = <<>>]
  /\ UNCHANGED <<db, now, serial, pc, job, jobs, lapsed>>

(* The server drops what has expired. *)
Tick ==
  LET over(x) == x.expires <= now + 1 IN
  /\ now < MaxTime /\ now' = now + 1
  /\ db' = [db EXCEPT !.obj = [i \in Ids |-> IF over(@[i]) THEN Gone ELSE @[i]],
                      !.u = [e \in Emails |-> IF over(@[e]) THEN Free ELSE @[e]]]
  /\ lapsed' = lapsed \cup {e \in Emails : db.u[e] # Free /\ over(db.u[e])}
  /\ UNCHANGED <<serial, pc, job, inTx, buffer, jobs>>

Call(c) == Create(c) \/ Find(c) \/ Update(c) \/ Delete(c) \/ Accessor(c) \/ SetExpiry(c)
Step(c) ==
  \/ Cascades(c) \/ Resolve(c) \/ Collect(c) \/ Purge(c) \/ Fetch(c)
  \/ NextUpdate(c) \/ NextDelete(c) \/ RemoveRow(c) \/ NextPatch(c) \/ NothingLeft(c)
  \/ EnforceUnique(c) \/ ReadTtl(c) \/ WriteRow(c)
Over == (\A c \in Clients : pc[c] = "idle") /\ UNCHANGED vars

Next ==
  \/ Tick \/ Over
  \/ \E c \in Clients : Call(c) \/ Step(c) \/ BeginTransaction(c) \/ Commit(c) \/ Rollback(c)

Spec == Init /\ [][Next]_vars

-------------------------------------------------------------------------------
(* Properties *)

Positions == {"idle", "check", "pttl", "write", "resolve", "collect", "purge", "next", "remove", "cascade"}
(* The structures hold what they are for, and commands are buffered in a  *)
(* transaction only: commit and rollback leave nothing behind.             *)
TypeOK ==
  /\ db.obj \in [Ids -> [row : Rows, expires : 0..Never]]
  /\ db.z \in [ZKeys -> [Ids -> 0..Never]]
  /\ db.u \in [Emails -> [id : {0} \cup Ids, expires : 0..Never]]
  /\ db.m \in [Ids -> SUBSET (EqualityKeys \cup UniqueKeys)] /\ db.seq \in 0..MaxIds
  /\ now \in 0..MaxTime /\ serial \in BOOLEAN /\ jobs \in Nat
  /\ pc \in [Clients -> Positions] /\ inTx \in [Clients -> BOOLEAN]
  /\ \A c \in Clients : ~inTx[c] => buffer[c] = <<>>
  /\ lapsed \subseteq Emails

(* Every row that exists is listed among the ids and in the ZSET of each   *)
(* of its current values, whatever operations, transactions and lifetimes  *)
(* interleave: no query by an index misses it.                             *)
Findable ==
  \A i \in Ids : Alive(db, i) => \A k \in Equality(db.obj[i].row) \cup {IdsKey} : db.z[k][i] > 0

(* One operation at a time, an index names a row only under the values it  *)
(* has: executeQuery does not look at the filter again.                    *)
Truthful ==
  serial => \A i \in Ids, k \in EqualityKeys :
    Alive(db, i) /\ db.z[k][i] > now => k \in Equality(db.obj[i].row)

(* One operation at a time, no two rows have the same email, until a       *)
(* lifetime has taken the key that reserves it.                            *)
UniqueHolds ==
  serial => \A i, j \in Ids :
    Alive(db, i) /\ Alive(db, j) /\ i # j /\ db.obj[i].row.email = db.obj[j].row.email
      => db.obj[i].row.email \in lapsed

(* One operation at a time, garbage collection takes no row before its     *)
(* lifetime is over.                                                       *)
CollectsOnlyTheDead ==
  [][serial => \A c \in Clients : pc[c] = "purge" /\ pc'[c] # "purge" =>
       (Alive(db, job[c].id) => db.z[IdsKey][job[c].id] <= now)]_vars
===============================================================================
