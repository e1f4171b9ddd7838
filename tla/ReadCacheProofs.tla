---------------------------- MODULE ReadCacheProofs ----------------------------
(***************************************************************************)
(* Proofs about ReadCache, for every number of readers, writers, models    *)
(* and shapes, and about CacheStores beneath it, for every set of keys and *)
(* sizes and every limit.                                                  *)
(***************************************************************************)
EXTENDS ReadCache, CacheStores, FiniteSetTheorems, SequenceTheorems, NaturalsInduction,
        WellFoundedInduction, TLAPS

-------------------------------------------------------------------------------
(* Type correctness *)

(* What a store lookup returns is the rows of an entry, or nothing. *)
LEMMA GetType ==
  ASSUME TypeOK, NEW k
  PROVE  /\ Get(k) \in (SUBSET Writers) \cup {NoRows}
         /\ Get(k) # NoRows => \E e \in entries : e.key = k /\ e.rows = Get(k)
<1>1. CASE \E e \in entries : e.key = k
  <2>1. /\ (CHOOSE e \in entries : e.key = k) \in entries
        /\ (CHOOSE e \in entries : e.key = k).key = k
    BY <1>1
  <2>2. Get(k) = (CHOOSE e \in entries : e.key = k).rows
    BY <1>1 DEF Get
  <2> QED BY <2>1, <2>2 DEF TypeOK, Entries
<1>2. CASE ~ \E e \in entries : e.key = k
  BY <1>2 DEF Get
<1> QED BY <1>1, <1>2

LEMMA KeyType ==
  ASSUME TypeOK, NEW s \in Shapes
  PROVE  KeyOf(s) \in Keys
BY DEF TypeOK, KeyOf, Keys

(* A read that has fetched holds rows, so an entry is never `undefined`. *)
Fetched == {"fetched", "settled", "store"}
TypeInv ==
  /\ TypeOK
  /\ \A r \in Readers : pc[r] \in Fetched => rows[r] \in SUBSET Writers

LEMMA InitType == Init => TypeInv
<1> SUFFICES ASSUME Init PROVE TypeInv
  OBVIOUS
<1>1. (CHOOSE s \in Shapes : TRUE) \in Shapes
  BY CacheAssumption
<1>2. req \in [Readers -> Requests]
  BY <1>1 DEF Init, Requests
<1>3. key \in [Readers -> Keys]
  BY <1>2 DEF Init, KeyOf, Keys, Requests
<1> QED BY <1>2, <1>3 DEF Init, TypeInv, TypeOK, Flying, Fetched

LEMMA StoreStepType ==
  ASSUME TypeInv, Evict \/ Clear \/ OversizedForgotten
  PROVE  TypeInv'
<1> USE DEF TypeInv, Fetched
<1>1. CASE Evict BY <1>1 DEF TypeOK, Evict, writer, reader
<1>2. CASE Clear BY <1>2 DEF TypeOK, Clear, writer, reader
<1>3. CASE OversizedForgotten
  BY <1>3 DEF TypeOK, OversizedForgotten, store, writer
<1> QED BY <1>1, <1>2, <1>3

LEMMA WriterStepType ==
  ASSUME TypeInv, NEW w \in Writers, WriterStep(w)
  PROVE  TypeInv'
<1> USE DEF TypeInv, Fetched
<1>1. Bump(w) => gen' \in [Tags -> Nat]
  BY DEF TypeOK, Bump, Bumped
<1>2. CASE Write(w) BY <1>2 DEF TypeOK, Write, Goto, store, reader
<1>3. CASE FirstBump(w) BY <1>1, <1>3 DEF TypeOK, FirstBump, Goto, reader
<1>4. CASE Commit(w) BY <1>4 DEF TypeOK, Commit, Goto, store, reader
<1>5. CASE Rollback(w) BY <1>5 DEF TypeOK, Rollback, Goto, store, reader
<1>6. CASE SecondBump(w) BY <1>1, <1>6 DEF TypeOK, SecondBump, Goto, reader
<1> QED BY <1>2, <1>3, <1>4, <1>5, <1>6 DEF WriterStep

LEMMA ReaderStepType ==
  ASSUME TypeInv, NEW r \in Readers, Begin(r) \/ Resumes(r)
  PROVE  TypeInv'
<1> USE DEF TypeInv, Fetched, TypeOK, Enter, Flying, store, writer
<1>1. CASE Begin(r)
  BY <1>1 DEF Begin, Requests, Acked
<1>2. req[r].shape \in Shapes
  BY DEF Requests
<1>3. KeyOf(req[r].shape) \in Keys
  BY <1>2, KeyType
<1>4. CASE Lookup(r)
  <2>1. Get(KeyOf(req[r].shape)) \in (SUBSET Writers) \cup {NoRows}
    BY GetType
  <2> QED BY <1>3, <1>4, <2>1 DEF Lookup
<1>5. CASE Versions(r) BY <1>3, <1>5 DEF Versions
<1>6. CASE FindFails(r) BY <1>6 DEF FindFails
<1>7. CASE GetEntry(r)
  <2>1. Get(key[r]) \in (SUBSET Writers) \cup {NoRows}
    BY GetType
  <2> QED BY <1>7, <2>1 DEF GetEntry
<1>8. CASE Hit(r) BY <1>8 DEF Hit
<1>9. CASE Join(r)
  <2>1. Joinable(r) \subseteq Readers
    BY DEF Joinable, Flights
  <2> QED BY <1>9, <2>1 DEF Join
<1>10. CASE Lead(r) BY <1>10 DEF Lead
<1>11. Visible(r) \subseteq Writers
  BY DEF Visible, Requests
<1>12. CASE FetchReads(r) BY <1>11, <1>12 DEF FetchReads
<1>13. CASE FetchRejects(r) BY <1>13 DEF FetchRejects, Finish
<1>14. CASE FetchSettles(r) BY <1>14 DEF FetchSettles
<1>15. CASE NothingToStore(r) BY <1>2, <1>15 DEF NothingToStore, Finish
<1>16. CASE Fits(r) BY <1>16 DEF Fits
<1>17. CASE StoreSets(r)
  <2>1. rows[r] \in (SUBSET Writers) \cup {NoRows}
    OBVIOUS
  <2> QED BY <1>17, <2>1 DEF StoreSets, Finish, Set, Entries
<1>18. CASE FollowerResumes(r)
  <2>1. pc' \in [Readers -> {"idle", "find", "get", "found", "follow", "direct", "done", "failed"} \cup Flying]
    BY <1>18 DEF FollowerResumes
  <2>2. rows' \in [Readers -> (SUBSET Writers) \cup {NoRows}]
    BY <1>18 DEF FollowerResumes
  <2>3. \A q \in Readers : pc'[q] \in Fetched => pc[q] \in Fetched /\ rows'[q] = rows[q]
    BY <1>18 DEF FollowerResumes
  <2> QED BY <1>18, <2>1, <2>2, <2>3 DEF FollowerResumes
<1>19. CASE DirectFetch(r)
  <2>1. pc' \in [Readers -> {"idle", "find", "get", "found", "follow", "direct", "done", "failed"} \cup Flying]
    BY <1>19 DEF DirectFetch
  <2>2. rows' \in [Readers -> (SUBSET Writers) \cup {NoRows}]
    BY <1>11, <1>19 DEF DirectFetch
  <2>3. \A q \in Readers : pc'[q] \in Fetched => pc[q] \in Fetched /\ rows'[q] = rows[q]
    BY <1>19 DEF DirectFetch
  <2> QED BY <1>19, <2>1, <2>2, <2>3 DEF DirectFetch
<1> QED BY <1>1, <1>4, <1>5, <1>6, <1>7, <1>8, <1>9, <1>10, <1>12, <1>13, <1>14,
           <1>15, <1>16, <1>17, <1>18, <1>19 DEF Resumes

(* Every state of every run is well typed. *)
LEMMA TypeCorrect == Spec => []TypeInv
<1>1. TypeInv /\ [Next]_vars => TypeInv'
  <2> SUFFICES ASSUME TypeInv, [Next]_vars PROVE TypeInv'
    OBVIOUS
  <2>1. CASE Evict \/ Clear \/ OversizedForgotten
    BY <2>1, StoreStepType
  <2>2. CASE \E w \in Writers : WriterStep(w)
    BY <2>2, WriterStepType
  <2>3. CASE \E r \in Readers : Begin(r) \/ Resumes(r)
    BY <2>3, ReaderStepType
  <2>4. CASE UNCHANGED vars
    BY <2>4 DEF TypeInv, TypeOK, vars, store, writer, reader
  <2> QED BY <2>1, <2>2, <2>3, <2>4 DEF Next, Over
<1> QED BY <1>1, InitType, PTL DEF Spec

(* The variables keep their types. *)
THEOREM TypesHold == Spec => []TypeOK
<1>1. TypeInv => TypeOK BY DEF TypeInv
<1> QED BY <1>1, TypeCorrect, PTL
-------------------------------------------------------------------------------
(* Isolation: rows of a transaction stay inside it until it commits.       *)
(* What makes it inductive: only a read outside every transaction has a    *)
(* flight or a key, so what is stored or shared was fetched outside.       *)

Cacheable == {"find", "get", "found", "follow"} \cup Flying

Isolated ==
  /\ \A e \in entries : e.rows \subseteq committed
  /\ \A r \in Readers : pc[r] = "found" => rows[r] = NoRows \/ rows[r] \subseteq committed
  /\ \A r \in Readers : pc[r] \in Cacheable \/ encoded[r] => req[r].own = NoTx
  /\ \A r \in Readers : encoded[r] => pc[r] \in {"settled", "store", "done"}
  /\ \A r \in Readers : pc[r] \in {"idle", "find", "get"} => rows[r] = NoRows
  /\ \A r \in Readers : pc[r] \in Fetched \cup {"done"} \/ encoded[r] =>
       rows[r] \in SUBSET Writers /\ rows[r] \subseteq committed \cup {req[r].own}

LEMMA IsolatedInit == Init => Isolated
BY DEF Init, Isolated, Cacheable, Flying, Fetched

LEMMA IsolatedWriterStep ==
  ASSUME TypeInv, Isolated, NEW w \in Writers, WriterStep(w)
  PROVE  Isolated'
<1>1. committed \subseteq committed'
  BY DEF WriterStep, Write, FirstBump, Commit, Rollback, SecondBump
<1>2. UNCHANGED <<entries, reader>>
  BY DEF WriterStep, Write, FirstBump, Commit, Rollback, SecondBump, store
<1> QED BY <1>1, <1>2 DEF Isolated, reader, Cacheable, Fetched

LEMMA IsolatedReaderStep ==
  ASSUME TypeInv, Isolated, NEW r \in Readers, Begin(r) \/ Resumes(r)
  PROVE  Isolated'
<1> USE DEF Enter, Flying, Cacheable, store, writer, Isolated, TypeInv, TypeOK, Fetched
<1>1. CASE Begin(r)
  BY <1>1 DEF Begin, Bypasses
<1>2. Get(key[r]) = NoRows \/ Get(key[r]) \subseteq committed
  BY GetType
<1>3. CASE Lookup(r)
  <2>1. \/ Get(KeyOf(req[r].shape)) = NoRows
        \/ Get(KeyOf(req[r].shape)) \subseteq committed
    BY GetType
  <2> QED BY <1>3, <2>1 DEF Lookup
<1>4. CASE Versions(r) BY <1>4 DEF Versions
<1>5. CASE FindFails(r) BY <1>5 DEF FindFails
<1>6. CASE GetEntry(r) BY <1>2, <1>6 DEF GetEntry
<1>7. CASE Hit(r) BY <1>7 DEF Hit
<1>8. CASE Join(r) BY <1>8 DEF Join, Miss
<1>9. CASE Lead(r) BY <1>9 DEF Lead, Miss
<1>10. Visible(r) \subseteq Writers /\ Visible(r) \subseteq committed \cup {req[r].own}
  BY DEF Visible, Requests
<1>11. CASE FetchReads(r) BY <1>10, <1>11 DEF FetchReads
<1>12. CASE FetchRejects(r) BY <1>12 DEF FetchRejects, Finish
<1>13. CASE FetchSettles(r) BY <1>13 DEF FetchSettles
<1>14. CASE NothingToStore(r) BY <1>14 DEF NothingToStore, Finish
<1>15. CASE Fits(r) BY <1>15 DEF Fits
<1>16. CASE StoreSets(r)
  <2>1. rows[r] \subseteq committed
    BY <1>16, CacheAssumption DEF StoreSets
  <2>2. \A e \in entries' : e.rows \subseteq committed
    BY <1>16, <2>1 DEF StoreSets, Set
  <2> QED BY <1>16, <2>2 DEF StoreSets, Finish
<1>17. CASE FollowerResumes(r)
  <2> DEFINE l == leader[r]
  <2>1. l \in Readers OBVIOUS
  <2>2. CASE encoded[l] /\ rows' = [rows EXCEPT ![r] = rows[l]] /\ Enter(r, "done")
    <3>1. rows[l] \in SUBSET Writers /\ rows[l] \subseteq committed
      BY <2>1, <2>2, CacheAssumption
    <3> QED BY <1>17, <2>2, <3>1 DEF FollowerResumes
  <2>3. CASE Enter(r, "direct") /\ UNCHANGED rows
    BY <1>17, <2>3 DEF FollowerResumes
  <2>4. CASE Enter(r, "failed") /\ UNCHANGED rows
    BY <1>17, <2>4 DEF FollowerResumes
  <2> QED BY <1>17, <2>2, <2>3, <2>4 DEF FollowerResumes
<1>18. CASE DirectFetch(r)
  <2>1. CASE rows' = [rows EXCEPT ![r] = Visible(r)] /\ Enter(r, "done")
    BY <1>10, <1>18, <2>1 DEF DirectFetch
  <2>2. CASE Enter(r, "failed") /\ UNCHANGED rows
    BY <1>18, <2>2 DEF DirectFetch
  <2> QED BY <1>18, <2>1, <2>2 DEF DirectFetch
<1> QED BY <1>1, <1>3, <1>4, <1>5, <1>6, <1>7, <1>8, <1>9, <1>11, <1>12, <1>13,
           <1>14, <1>15, <1>16, <1>17, <1>18 DEF Resumes

LEMMA AlwaysIsolated == Spec => []Isolated
<1>1. TypeInv /\ Isolated /\ [Next]_vars => Isolated'
  <2> SUFFICES ASSUME TypeInv, Isolated, [Next]_vars PROVE Isolated'
    OBVIOUS
  <2>1. CASE Evict \/ Clear \/ OversizedForgotten
    BY <2>1 DEF Evict, Clear, OversizedForgotten, Isolated, Cacheable, Fetched, store, writer, reader
  <2>2. CASE \E w \in Writers : WriterStep(w)
    BY <2>2, IsolatedWriterStep
  <2>3. CASE \E r \in Readers : Begin(r) \/ Resumes(r)
    BY <2>3, IsolatedReaderStep
  <2>4. CASE UNCHANGED vars
    BY <2>4 DEF Isolated, Cacheable, Fetched, vars, store, writer, reader
  <2> QED BY <2>1, <2>2, <2>3, <2>4 DEF Next, Over
<1> QED BY <1>1, IsolatedInit, TypeCorrect, PTL DEF Spec

(* Uncommitted rows reach nobody outside their transaction, whatever fails *)
(* and however often the store is cleared.                                 *)
THEOREM Isolation == Spec => []NoUncommittedRows
<1>1. Isolated => NoUncommittedRows
  <2> SUFFICES ASSUME Isolated, NEW r \in Readers, pc[r] = "done"
               PROVE  rows[r] \subseteq committed \cup {req[r].own}
    BY DEF Isolated, NoUncommittedRows
  <2> QED BY DEF Isolated
<1> QED BY <1>1, AlwaysIsolated, PTL
-------------------------------------------------------------------------------
(* Freshness, when invalidations succeed, nobody calls clear() and every   *)
(* transaction runs its afterCommit.  `seal` is the generation a writer's  *)
(* last bump left: a key at or past it, in any of the models it wrote, can *)
(* only hold rows that were fetched after the writer committed.            *)

Reliable ==
  /\ MaxClears = 0 /\ "invalidate" \notin Faults
  /\ \A w \in Writers : Kind[w] # "bare"

Effective == Acked \cap committed
Behind(k) == \A t \in Tags : k.gens[t] <= gen[t]
Covers(k, v) ==
  \A w \in Effective : \A t \in Footprint[w] \cap TagsOf[k.shape] :
    seal[w][t] <= k.gens[t] => w \in v
KeyedAfter(r) ==
  /\ key[r].shape = req[r].shape
  /\ \A w \in req[r].since : \A t \in Footprint[w] \cap TagsOf[req[r].shape] :
       seal[w][t] <= key[r].gens[t]
SeesAll(r) == {w \in req[r].since : Touches(w, req[r].shape)} \subseteq rows[r]

Sealed ==
  /\ \A w \in Writers : \A t \in Tags : seal[w][t] <= gen[t]
  /\ \A w \in Writers : wpc[w] = "committed" => w \in committed
EntriesCover == \A e \in entries : Behind(e.key) /\ Covers(e.key, e.rows)
ReaderFresh(r) ==
  /\ Behind(key[r])
  /\ req[r].since \subseteq Effective \cup {req[r].own}
  /\ pc[r] = "found" /\ rows[r] # NoRows => Covers(key[r], rows[r])
  /\ pc[r] \in Fetched \/ encoded[r] => Covers(key[r], rows[r])
  /\ pc[r] \in {"get", "found", "follow"} \cup Flying => KeyedAfter(r)
  /\ pc[r] = "done" => SeesAll(r)
Led(r) ==
  pc[r] = "follow" =>
    key[leader[r]] = key[r] /\ pc[leader[r]] \in Flying \cup {"done", "failed"}
InFlight == \A r \in inflight : pc[r] \in Flying

FreshInv ==
  /\ Sealed /\ EntriesCover /\ InFlight
  /\ \A r \in Readers : ReaderFresh(r) /\ Led(r)
Inv == TypeInv /\ Isolated /\ FreshInv

LEMMA FreshInit == Init => FreshInv
BY DEF Init, FreshInv, Sealed, EntriesCover, InFlight, ReaderFresh, Led,
       Behind, Effective, Acked, Flying, Fetched, KeyOf

(* The rows of a key that are fetched from what is committed now cover it. *)
LEMMA VisibleCovers ==
  ASSUME Inv, NEW r \in Readers, key[r].shape = req[r].shape
  PROVE  Covers(key[r], Visible(r))
<1> SUFFICES ASSUME NEW w \in Effective, NEW t \in Footprint[w] \cap TagsOf[req[r].shape]
             PROVE  w \in Visible(r)
  BY DEF Covers
<1> QED BY DEF Visible, Effective, Touches

(* Rows that cover a key built after everything the read must see show it. *)
LEMMA CoversShows ==
  ASSUME Inv, NEW r \in Readers, NEW v, pc[r] \in Cacheable, KeyedAfter(r), Covers(key[r], v)
  PROVE  {w \in req[r].since : Touches(w, req[r].shape)} \subseteq v
<1> SUFFICES ASSUME NEW w \in req[r].since, Touches(w, req[r].shape)
             PROVE  w \in v
  OBVIOUS
<1>1. w \in Effective
  BY CacheAssumption DEF Inv, FreshInv, ReaderFresh, Isolated, TypeInv, TypeOK, Requests
<1>2. PICK t \in Footprint[w] \cap TagsOf[req[r].shape] : TRUE
  BY DEF Touches
<1> QED BY <1>1, <1>2 DEF KeyedAfter, Covers

(* What a mutation's step does to the writers that are acknowledged: the   *)
(* one it may add was sealed by this very step, past every key there is.   *)
LEMMA WriterEffect ==
  ASSUME Reliable, Inv, NEW w \in Writers, WriterStep(w)
  PROVE  /\ Effective \subseteq Effective'
         /\ \A v \in Effective : seal'[v] = seal[v]
         /\ \A v \in Effective' \ Effective : v = w /\ \A t \in Footprint[v] : seal'[v][t] = gen[t] + 1
         /\ \A t \in Tags : gen[t] <= gen'[t]
         /\ Sealed'
         /\ committed \subseteq committed'
         /\ UNCHANGED <<entries, reader>>
<1> USE DEF Inv, FreshInv, Sealed, TypeInv, TypeOK, Effective, Acked, Goto
<1>1. CASE Write(w) BY <1>1 DEF Write, store
<1>0. Footprint[w] \subseteq Tags BY CacheAssumption
<1>2. Bump(w) =>
        /\ gen' \in [Tags -> Nat]
        /\ \A t \in Tags : gen[t] <= gen'[t]
        /\ \A t \in Footprint[w] : gen'[t] = gen[t] + 1
  BY <1>0 DEF Reliable, Bump, Bumped
<1>3. CASE FirstBump(w) BY <1>2, <1>3 DEF FirstBump
<1>4. CASE Commit(w) BY <1>4 DEF Commit, Reliable, store
<1>5. CASE Rollback(w) BY <1>5 DEF Rollback, store
<1>6. CASE SecondBump(w) BY <1>2, <1>6 DEF SecondBump
<1> QED BY <1>1, <1>3, <1>4, <1>5, <1>6 DEF WriterStep

LEMMA FreshWriterStep ==
  ASSUME Reliable, Inv, NEW w \in Writers, WriterStep(w)
  PROVE  FreshInv'
<1>1. /\ Effective \subseteq Effective'
      /\ \A v \in Effective : seal'[v] = seal[v]
      /\ \A v \in Effective' \ Effective : v = w /\ \A t \in Footprint[v] : seal'[v][t] = gen[t] + 1
      /\ \A t \in Tags : gen[t] <= gen'[t]
      /\ Sealed'
      /\ UNCHANGED <<entries, reader>>
  BY WriterEffect
<1> USE DEF Inv, FreshInv, TypeInv, TypeOK, reader
<1>2. ASSUME NEW k \in Keys, Behind(k) PROVE Behind(k)'
  <2>1. gen \in [Tags -> Nat] /\ gen' \in [Tags -> Nat]
    BY WriterStepType
  <2> QED BY <1>1, <1>2, <2>1 DEF Behind, Keys
<1>3. ASSUME NEW k \in Keys, NEW v, Behind(k), Covers(k, v)
      PROVE  Covers(k, v)'
  <2> SUFFICES ASSUME NEW u \in Effective', NEW t \in Footprint[u] \cap TagsOf[k.shape],
                      seal'[u][t] <= k.gens[t]
               PROVE  u \in v
    BY DEF Covers
  <2>1. CASE u \in Effective BY <1>1, <1>3, <2>1 DEF Covers
  <2>2. CASE u \notin Effective
    <3>1. t \in Tags BY CacheAssumption DEF Keys
    <3>2. k.gens[t] <= gen[t] /\ k.gens[t] \in Nat /\ gen[t] \in Nat
      BY <1>3, <3>1 DEF Behind, Keys
    <3> QED BY <1>1, <2>2, <3>2
  <2> QED BY <2>1, <2>2
<1>4. EntriesCover'
  BY <1>1, <1>2, <1>3 DEF EntriesCover, Entries
<1>5. ASSUME NEW r \in Readers PROVE ReaderFresh(r)'
  <2>1. KeyedAfter(r) /\ pc[r] \in Cacheable => KeyedAfter(r)'
    <3>1. pc[r] \in Cacheable => req[r].since \subseteq Effective
      BY CacheAssumption DEF ReaderFresh, Isolated, Requests
    <3> QED BY <1>1, <3>1 DEF KeyedAfter
  <2>2. Behind(key[r])' /\ (Covers(key[r], rows[r]) => Covers(key[r], rows[r])')
    BY <1>1, <1>2, <1>3 DEF ReaderFresh
  <2>3. SeesAll(r) => SeesAll(r)'
    BY <1>1 DEF SeesAll, Touches
  <2> QED BY <1>1, <2>1, <2>2, <2>3 DEF ReaderFresh, Cacheable, Fetched, Flying
<1>6. InFlight' /\ \A r \in Readers : Led(r)'
  BY <1>1 DEF InFlight, Led, Flying
<1> QED BY <1>1, <1>4, <1>5, <1>6

LEMMA KeyOfFresh ==
  ASSUME Inv, NEW s \in Shapes
  PROVE  /\ KeyOf(s) \in Keys /\ Behind(KeyOf(s)) /\ KeyOf(s).shape = s
         /\ \A w \in Effective : \A t \in Footprint[w] \cap TagsOf[s] : seal[w][t] <= KeyOf(s).gens[t]
<1> USE DEF Inv, TypeInv, TypeOK
<1>1. KeyOf(s) \in Keys BY KeyType
<1>2. Behind(KeyOf(s)) BY DEF KeyOf, Behind
<1>3. ASSUME NEW w \in Effective, NEW t \in Footprint[w] \cap TagsOf[s]
      PROVE  seal[w][t] <= KeyOf(s).gens[t]
  BY CacheAssumption DEF KeyOf, FreshInv, Sealed, Effective
<1> QED BY <1>1, <1>2, <1>3 DEF KeyOf

(* What the store returns for a key covers it. *)
LEMMA GetCovers ==
  ASSUME Inv, NEW k
  PROVE  Get(k) # NoRows => Covers(k, Get(k))
BY GetType DEF Inv, TypeInv, FreshInv, EntriesCover

(* A read's step leaves the other reads as they are: only its own part of  *)
(* the invariant is left to show.                                          *)
LEMMA OthersStay ==
  ASSUME Inv, NEW r \in Readers, UNCHANGED <<gen, writer>>,
         \A q \in Readers \ {r} :
           /\ pc'[q] = pc[q] /\ req'[q] = req[q] /\ key'[q] = key[q] /\ rows'[q] = rows[q]
           /\ leader'[q] = leader[q] /\ encoded'[q] = encoded[q],
         pc[r] \in Flying \cup {"done", "failed"} =>
           key'[r] = key[r] /\ pc'[r] \in Flying \cup {"done", "failed"},
         inflight' \subseteq inflight \cup {r},
         r \in inflight' => pc'[r] \in Flying,
         EntriesCover', ReaderFresh(r)', Led(r)'
  PROVE  FreshInv'
<1> USE DEF Inv, FreshInv
<1>1. Sealed' /\ UNCHANGED Effective
  BY DEF Sealed, Effective, Acked, writer
<1>2. \A k, v : (Behind(k) <=> Behind(k)') /\ (Covers(k, v) <=> Covers(k, v)')
  BY <1>1 DEF Behind, Covers, writer
<1>3. ASSUME NEW q \in Readers \ {r} PROVE ReaderFresh(q)'
  BY <1>1, <1>2 DEF ReaderFresh, KeyedAfter, SeesAll, Touches, writer, Flying, Fetched
<1>4. ASSUME NEW q \in Readers \ {r} PROVE Led(q)'
  BY DEF Led, TypeInv, TypeOK, Flying
<1>5. InFlight'
  BY DEF InFlight, TypeInv, TypeOK, Flying
<1> QED BY <1>1, <1>3, <1>4, <1>5

LEMMA FreshReaderStep ==
  ASSUME Reliable, Inv, NEW r \in Readers, Begin(r) \/ Resumes(r)
  PROVE  FreshInv'
<1>1. UNCHANGED <<gen, writer>>
  BY DEF Resumes, Begin, Lookup, Versions, FindFails, GetEntry, Hit, Join, Lead, FetchReads,
     FetchRejects, FetchSettles, NothingToStore, Fits, StoreSets, FollowerResumes, DirectFetch, store
<1>2. UNCHANGED Effective
  BY <1>1 DEF Effective, Acked, writer
<1>3. \A k, v : (Behind(k) <=> Behind(k)') /\ (Covers(k, v) <=> Covers(k, v)')
  BY <1>1, <1>2 DEF Behind, Covers, writer
<1>4. req[r].shape \in Shapes /\ req[r].since \subseteq Writers /\ ReaderFresh(r) /\ Led(r)
  BY DEF Inv, FreshInv, TypeInv, TypeOK, Requests
<1>5. \A q \in Readers \ {r} :
        /\ pc'[q] = pc[q] /\ req'[q] = req[q] /\ key'[q] = key[q] /\ rows'[q] = rows[q]
        /\ leader'[q] = leader[q] /\ encoded'[q] = encoded[q]
  BY DEF Resumes, Begin, Lookup, Versions, FindFails, GetEntry, Hit, Join, Lead, FetchReads,
     FetchRejects, FetchSettles, NothingToStore, Fits, StoreSets, FollowerResumes, DirectFetch,
     Finish, Enter, Inv, TypeInv, TypeOK
<1>6. UNCHANGED entries => EntriesCover'
  BY <1>3 DEF Inv, FreshInv, EntriesCover
<1>7. inflight' \subseteq inflight \cup {r} /\ (r \in inflight' => pc'[r] \in Flying)
  <2> DEFINE Leaves == inflight' = inflight \ Flights(key[r])
  <2>0. FetchRejects(r) \/ NothingToStore(r) \/ StoreSets(r) => Leaves
    BY DEF FetchRejects, NothingToStore, StoreSets, Finish
  <2>1. Begin(r) \/ Lookup(r) \/ Versions(r) \/ FindFails(r) \/ GetEntry(r) \/ Hit(r)
        \/ Join(r) \/ FollowerResumes(r) \/ DirectFetch(r)
        => UNCHANGED inflight /\ pc[r] \notin Flying
    BY DEF Begin, Lookup, Versions, FindFails, GetEntry, Hit, Join,
       FollowerResumes, DirectFetch, Miss, Flying
  <2>2. CASE Leaves BY <2>2 DEF Flights
  <2>3. CASE Lead(r) \/ FetchReads(r) \/ FetchSettles(r) \/ Fits(r)
    BY <2>3 DEF Lead, FetchReads, FetchSettles, Fits, Enter, Inv, TypeInv, TypeOK, Flying
  <2>4. CASE UNCHANGED inflight /\ pc[r] \notin Flying
    BY <2>4 DEF Inv, FreshInv, InFlight
  <2> QED BY <2>0, <2>1, <2>2, <2>3, <2>4 DEF Resumes
<1>8. pc[r] \in Flying \cup {"done", "failed"} =>
        key'[r] = key[r] /\ pc'[r] \in Flying \cup {"done", "failed"}
  BY DEF Resumes, Begin, Lookup, Versions, FindFails, GetEntry, Hit, Join, Lead, FetchReads,
     FetchRejects, FetchSettles, NothingToStore, Fits, StoreSets, FollowerResumes, DirectFetch,
     Finish, Enter, Miss, Inv, TypeInv, TypeOK, Flying
<1>9. pc'[r] # "follow" => Led(r)'
  BY DEF Led
<1>10. UNCHANGED <<req, key>> => (KeyedAfter(r) <=> KeyedAfter(r)')
  BY <1>1 DEF KeyedAfter, writer
<1>11. SUFFICES EntriesCover' /\ ReaderFresh(r)' /\ Led(r)'
  BY <1>1, <1>5, <1>7, <1>8, OthersStay
<1> USE <1>2, <1>3, <1>4 DEF ReaderFresh, Enter, Flying, Fetched, Cacheable
<1> DEFINE Typed == /\ pc \in [Readers -> {"idle", "find", "get", "found", "follow", "direct", "done", "failed"} \cup Flying]
                    /\ req \in [Readers -> Requests] /\ key \in [Readers -> Keys]
                    /\ rows \in [Readers -> (SUBSET Writers) \cup {NoRows}]
                    /\ leader \in [Readers -> Readers] /\ encoded \in [Readers -> BOOLEAN]
<1>12. Typed BY DEF Inv, TypeInv, TypeOK
<1>13. encoded[r] => pc[r] \in {"settled", "store", "done"}
  BY DEF Inv, Isolated
<1>14. pc[r] \in {"idle", "find", "get"} => rows[r] = NoRows
  BY DEF Inv, Isolated
<1> USE <1>12
<1>20. CASE Begin(r)
  <2>1. Led(r)' /\ EntriesCover' BY <1>6, <1>9, <1>20 DEF Begin, store
  <2>2. req'[r].since \subseteq Effective \cup {req'[r].own} BY <1>20 DEF Begin, Effective
  <2>3. pc'[r] \in {"find", "direct"} /\ ~encoded'[r] /\ key'[r] = key[r]
    BY <1>13, <1>20 DEF Begin
  <2> QED BY <2>1, <2>2, <2>3
<1>21. ASSUME key' = [key EXCEPT ![r] = KeyOf(req[r].shape)], req' = req, pc[r] = "find"
       PROVE  KeyedAfter(r)' /\ Behind(key[r])'
  <2>1. req[r].since \subseteq Effective
    BY <1>21, CacheAssumption DEF Inv, Isolated
  <2> QED BY <1>1, <1>21, <2>1, KeyOfFresh DEF KeyedAfter, writer
<1>22. CASE Lookup(r)
  <2>1. Led(r)' /\ EntriesCover' BY <1>6, <1>9, <1>22 DEF Lookup, store
  <2>2. KeyedAfter(r)' /\ Behind(key[r])' BY <1>21, <1>22 DEF Lookup
  <2>3. rows'[r] # NoRows => Covers(key'[r], rows'[r]) BY <1>22, GetCovers DEF Lookup
  <2>4. pc'[r] = "found" /\ ~encoded'[r] BY <1>13, <1>22 DEF Lookup
  <2> QED BY <1>22, <2>1, <2>2, <2>3, <2>4 DEF Lookup
<1>23. CASE Versions(r)
  <2>1. Led(r)' /\ EntriesCover' BY <1>6, <1>9, <1>23 DEF Versions, store
  <2>2. KeyedAfter(r)' /\ Behind(key[r])' BY <1>21, <1>23 DEF Versions
  <2>3. pc'[r] = "get" /\ ~encoded'[r] BY <1>13, <1>23 DEF Versions
  <2> QED BY <1>23, <2>1, <2>2, <2>3 DEF Versions
<1>24. CASE FindFails(r)
  <2>1. Led(r)' /\ EntriesCover' BY <1>6, <1>9, <1>24 DEF FindFails, store
  <2>2. pc'[r] = "direct" /\ ~encoded'[r] BY <1>13, <1>24 DEF FindFails
  <2> QED BY <1>24, <2>1, <2>2 DEF FindFails
<1>25. CASE GetEntry(r)
  <2>1. Led(r)' /\ EntriesCover' BY <1>6, <1>9, <1>25 DEF GetEntry, store
  <2>2. rows'[r] # NoRows => Covers(key[r], rows'[r]) BY <1>14, <1>25, GetCovers DEF GetEntry
  <2>3. pc'[r] = "found" /\ ~encoded'[r] BY <1>13, <1>25 DEF GetEntry
  <2> QED BY <1>10, <1>25, <2>1, <2>2, <2>3 DEF GetEntry
<1>26. CASE Hit(r)
  <2>1. Led(r)' /\ EntriesCover' BY <1>6, <1>9, <1>26 DEF Hit, store
  <2>2. SeesAll(r) BY <1>26, CoversShows DEF Hit, SeesAll
  <2>3. SeesAll(r)' BY <1>26, <2>2 DEF Hit, SeesAll
  <2>4. pc'[r] = "done" /\ ~encoded'[r] BY <1>13, <1>26 DEF Hit
  <2> QED BY <1>26, <2>1, <2>3, <2>4 DEF Hit
<1>27. CASE Join(r)
  <2>1. EntriesCover' BY <1>6, <1>27 DEF Join, store
  <2>2. Led(r)'
    <3>1. PICK l \in Joinable(r) : leader' = [leader EXCEPT ![r] = l] BY <1>27 DEF Join
    <3>2. l \in inflight /\ key[l] = key[r] BY <3>1 DEF Joinable, Flights
    <3>3. l \in Readers /\ pc[l] \in Flying BY <3>2 DEF Inv, TypeInv, TypeOK, FreshInv, InFlight
    <3>4. l # r BY <1>27, <3>3 DEF Join, Miss
    <3> QED BY <1>27, <3>1, <3>2, <3>3, <3>4 DEF Join, Led
  <2>3. pc'[r] = "follow" /\ ~encoded'[r] BY <1>13, <1>27 DEF Join, Miss
  <2> QED BY <1>10, <1>27, <2>1, <2>2, <2>3 DEF Join, Miss
<1>28. CASE Lead(r)
  <2>1. Led(r)' /\ EntriesCover' BY <1>6, <1>9, <1>28 DEF Lead, store
  <2>2. pc'[r] = "fetch" /\ ~encoded'[r] BY <1>13, <1>28 DEF Lead, Miss
  <2> QED BY <1>10, <1>28, <2>1, <2>2 DEF Lead, Miss
<1>29. CASE FetchReads(r)
  <2>1. Led(r)' /\ EntriesCover' BY <1>6, <1>9, <1>29 DEF FetchReads, store
  <2>2. Covers(key[r], Visible(r)) BY <1>29, VisibleCovers DEF FetchReads, KeyedAfter
  <2>3. pc'[r] = "fetched" /\ ~encoded'[r] BY <1>13, <1>29 DEF FetchReads
  <2> QED BY <1>10, <1>29, <2>1, <2>2, <2>3 DEF FetchReads
<1>30. CASE FetchRejects(r)
  <2>1. Led(r)' /\ EntriesCover' BY <1>6, <1>9, <1>30 DEF FetchRejects, Finish, store
  <2>2. pc'[r] = "failed" /\ ~encoded'[r] BY <1>13, <1>30 DEF FetchRejects, Finish
  <2> QED BY <1>30, <2>1, <2>2 DEF FetchRejects
<1>31. CASE FetchSettles(r)
  <2>1. Led(r)' /\ EntriesCover' BY <1>6, <1>9, <1>31 DEF FetchSettles, store
  <2>2. pc'[r] = "settled" BY <1>31 DEF FetchSettles
  <2> QED BY <1>10, <1>31, <2>1, <2>2 DEF FetchSettles
<1>32. pc[r] \in {"settled", "store"} => SeesAll(r)
  BY CoversShows DEF SeesAll
<1>33. CASE NothingToStore(r)
  <2>1. Led(r)' /\ EntriesCover' BY <1>6, <1>9, <1>33 DEF NothingToStore, Finish, store
  <2>2. SeesAll(r)' BY <1>32, <1>33 DEF NothingToStore, SeesAll
  <2>3. pc'[r] = "done" BY <1>33 DEF NothingToStore, Finish
  <2> QED BY <1>33, <2>1, <2>2, <2>3 DEF NothingToStore
<1>34. CASE Fits(r)
  <2>1. Led(r)' /\ EntriesCover' BY <1>6, <1>9, <1>34 DEF Fits, store
  <2>2. pc'[r] = "store" BY <1>34 DEF Fits
  <2> QED BY <1>10, <1>34, <2>1, <2>2 DEF Fits
<1>35. CASE StoreSets(r)
  <2>1. Led(r)' BY <1>9, <1>35 DEF StoreSets, Finish
  <2>2. EntriesCover'
    <3>1. \A e \in entries' : Behind(e.key) /\ Covers(e.key, e.rows)
      BY <1>35 DEF StoreSets, Set, Inv, FreshInv, EntriesCover
    <3> QED BY <3>1 DEF EntriesCover
  <2>3. SeesAll(r)' BY <1>32, <1>35 DEF StoreSets, SeesAll
  <2>4. pc'[r] = "done" BY <1>35 DEF StoreSets, Finish
  <2> QED BY <1>35, <2>1, <2>2, <2>3, <2>4 DEF StoreSets
<1>36. CASE FollowerResumes(r)
  <2> DEFINE l == leader[r]
  <2>1. Led(r)' /\ EntriesCover' BY <1>6, <1>9, <1>36 DEF FollowerResumes, store
  <2>2. ~encoded[r] BY <1>13, <1>36 DEF FollowerResumes
  <2>3. CASE encoded[l] /\ rows' = [rows EXCEPT ![r] = rows[l]] /\ Enter(r, "done")
    <3>1. l \in Readers /\ key[l] = key[r] BY <1>36 DEF FollowerResumes, Led
    <3>2. ReaderFresh(l) BY <3>1 DEF Inv, FreshInv
    <3>3. Covers(key[r], rows[l]) BY <2>3, <3>1, <3>2
    <3>4. {w \in req[r].since : Touches(w, req[r].shape)} \subseteq rows[l]
      BY <1>36, <3>3, CoversShows DEF FollowerResumes
    <3>5. SeesAll(r)' BY <1>36, <2>3, <3>4 DEF FollowerResumes, SeesAll
    <3>6. pc'[r] = "done" BY <2>3
    <3> QED BY <1>36, <2>1, <2>2, <3>5, <3>6 DEF FollowerResumes
  <2>4. CASE pc' = [pc EXCEPT ![r] = "direct"] \/ pc' = [pc EXCEPT ![r] = "failed"]
    <3>1. pc'[r] \in {"direct", "failed"} BY <2>4
    <3> QED BY <1>36, <2>1, <2>2, <3>1 DEF FollowerResumes
  <2> QED BY <1>36, <2>3, <2>4 DEF FollowerResumes
<1>37. CASE DirectFetch(r)
  <2>1. Led(r)' /\ EntriesCover' BY <1>6, <1>9, <1>37 DEF DirectFetch, store
  <2>2. ~encoded[r] BY <1>13, <1>37 DEF DirectFetch
  <2>3. CASE rows' = [rows EXCEPT ![r] = Visible(r)] /\ Enter(r, "done")
    <3>1. {w \in req[r].since : Touches(w, req[r].shape)} \subseteq Visible(r)
      BY CacheAssumption DEF Visible, Effective
    <3>2. SeesAll(r)' BY <1>37, <2>3, <3>1 DEF DirectFetch, SeesAll
    <3>3. pc'[r] = "done" BY <2>3
    <3> QED BY <1>37, <2>1, <2>2, <3>2, <3>3 DEF DirectFetch
  <2>4. CASE pc' = [pc EXCEPT ![r] = "failed"]
    <3>1. pc'[r] = "failed" BY <2>4
    <3> QED BY <1>37, <2>1, <2>2, <3>1 DEF DirectFetch
  <2> QED BY <1>37, <2>3, <2>4 DEF DirectFetch
<1> QED BY <1>20, <1>22, <1>23, <1>24, <1>25, <1>26, <1>27, <1>28, <1>29, <1>30, <1>31,
           <1>33, <1>34, <1>35, <1>36, <1>37 DEF Resumes

LEMMA AlwaysFresh ==
  ASSUME Reliable
  PROVE  Spec => []FreshInv
<1>1. Inv /\ [Next]_vars => FreshInv'
  <2> SUFFICES ASSUME Inv, [Next]_vars PROVE FreshInv'
    OBVIOUS
  <2> USE DEF Inv, FreshInv
  <2>1. CASE UNCHANGED <<gen, writer, reader>> /\ entries' \subseteq entries
    BY <2>1 DEF Sealed, EntriesCover, InFlight, ReaderFresh, Led,
       Behind, Covers, KeyedAfter, SeesAll, Effective, Acked, writer, reader
  <2>2. CASE Evict BY <2>1, <2>2 DEF Evict
  <2>3. ~Clear BY DEF Clear, Reliable, TypeInv, TypeOK
  <2>4. CASE OversizedForgotten
    BY <2>4 DEF OversizedForgotten, Sealed, EntriesCover, InFlight, ReaderFresh, Led,
       Behind, Covers, KeyedAfter, SeesAll, Effective, Acked, store, writer
  <2>5. CASE \E w \in Writers : WriterStep(w)
    BY <2>5, FreshWriterStep
  <2>6. CASE \E r \in Readers : Begin(r) \/ Resumes(r)
    BY <2>6, FreshReaderStep
  <2>7. CASE UNCHANGED vars BY <2>1, <2>7 DEF vars, store
  <2> QED BY <2>2, <2>3, <2>4, <2>5, <2>6, <2>7 DEF Next, Over
<1>2. Inv <=> TypeInv /\ Isolated /\ FreshInv BY DEF Inv
<1> QED BY <1>1, <1>2, FreshInit, TypeCorrect, AlwaysIsolated, PTL DEF Spec

(* No read is stale: whatever it hits, joins or fetches, it shows every    *)
(* mutation that was acknowledged before it was called.                    *)
THEOREM Freshness ==
  ASSUME Reliable
  PROVE  Spec => []Fresh
<1>1. FreshInv => Fresh
  BY DEF FreshInv, ReaderFresh, SeesAll, Fresh
<1> QED BY <1>1, AlwaysFresh, PTL

-------------------------------------------------------------------------------
(* One flight per key *)

(* With deduplication the map holds exactly the reads under way, and no    *)
(* two of them under one key.                                              *)
LiveInv ==
  /\ InFlight
  /\ Dedupe => /\ \A r \in Readers : pc[r] \in Flying => r \in inflight
               /\ \A q, r \in inflight : key[q] = key[r] => q = r

(* A step that leaves the map alone, and moves no read into or out of a    *)
(* flight nor a flying read to another key, keeps the flights as they are. *)
LEMMA FlightsStay ==
  ASSUME TypeInv, LiveInv, inflight' = inflight,
         \A q \in Readers : /\ pc'[q] \in Flying <=> pc[q] \in Flying
                            /\ pc[q] \in Flying => key'[q] = key[q]
  PROVE  LiveInv'
<1>1. inflight \subseteq Readers BY DEF TypeInv, TypeOK
<1>2. \A q \in inflight : pc[q] \in Flying /\ key'[q] = key[q] BY <1>1 DEF LiveInv, InFlight
<1>3. InFlight' BY <1>1, <1>2 DEF InFlight
<1>4. Dedupe => \A q \in Readers : pc'[q] \in Flying => q \in inflight' BY DEF LiveInv
<1>5. Dedupe => \A q, r \in inflight' : key'[q] = key'[r] => q = r BY <1>2 DEF LiveInv
<1> QED BY <1>3, <1>4, <1>5 DEF LiveInv

(* A read that ends takes its own flight off the map, and only that one.   *)
LEMMA FlightEnds ==
  ASSUME TypeInv, LiveInv, NEW r \in Readers, pc[r] \in Flying,
         NEW position \in {"done", "failed"}, Finish(r, position), key' = key
  PROVE  LiveInv'
<1>1. /\ inflight' = inflight \ Flights(key[r]) /\ inflight \subseteq Readers
      /\ pc' = [pc EXCEPT ![r] = position] /\ position \notin Flying
      /\ \A q \in Readers : q # r => pc'[q] = pc[q]
      /\ pc'[r] = position
  BY DEF Finish, Enter, TypeInv, TypeOK, Flying
<1>2. r \notin inflight' BY <1>1 DEF Flights
<1>3. \A q \in inflight' : q \in inflight /\ q # r BY <1>1, <1>2
<1>4. InFlight' BY <1>1, <1>3 DEF LiveInv, InFlight
<1>5. ASSUME Dedupe, NEW q \in Readers, pc'[q] \in Flying PROVE q \in inflight'
  <2>1. q # r /\ pc[q] \in Flying BY <1>1, <1>5
  <2>2. q \in inflight /\ r \in inflight BY <1>5, <2>1 DEF LiveInv
  <2>3. key[q] # key[r] BY <1>5, <2>1, <2>2 DEF LiveInv
  <2> QED BY <1>1, <2>2, <2>3 DEF Flights
<1>6. Dedupe => \A p, q \in inflight' : key'[p] = key'[q] => p = q BY <1>3 DEF LiveInv
<1> QED BY <1>4, <1>5, <1>6 DEF LiveInv

LEMMA LiveReaderStep ==
  ASSUME TypeInv, LiveInv, NEW r \in Readers, Begin(r) \/ Resumes(r)
  PROVE  LiveInv'
<1> DEFINE Moves(from, to) == /\ inflight' = inflight
                              /\ pc[r] = from /\ pc' = [pc EXCEPT ![r] = to]
<1>0. pc \in [Readers -> {"idle", "find", "get", "found", "follow", "direct", "done", "failed"} \cup Flying]
      /\ key \in [Readers -> Keys] /\ inflight \subseteq Readers
  BY DEF TypeInv, TypeOK
<1>a. ASSUME NEW from, NEW to, Moves(from, to), from \in Flying <=> to \in Flying,
             key' = key \/ (from \notin Flying /\ \A q \in Readers : q # r => key'[q] = key[q])
      PROVE  LiveInv'
  <2>1. \A q \in Readers : pc'[q] = IF q = r THEN to ELSE pc[q] BY <1>0, <1>a
  <2>2. inflight' = inflight /\ pc[r] = from BY <1>a
  <2>3. \A q \in Readers : pc[q] \in Flying => key'[q] = key[q] BY <1>a, <2>2
  <2>4. \A q \in Readers : pc'[q] \in Flying <=> pc[q] \in Flying BY <1>a, <2>1, <2>2
  <2> QED BY <2>2, <2>3, <2>4, FlightsStay
<1>b. /\ {"fetch", "fetched", "settled", "store"} \subseteq Flying
      /\ \A p \in {"idle", "find", "get", "found", "follow", "direct", "done", "failed"} : p \notin Flying
  BY DEF Flying
<1>1. CASE Begin(r)
  <2>1. Moves("idle", "direct") \/ Moves("idle", "find") BY <1>1 DEF Begin, Enter
  <2>2. key' = key BY <1>1 DEF Begin
  <2> QED BY <1>a, <1>b, <2>1, <2>2
<1>2. CASE Lookup(r)
  <2>1. Moves("find", "found") BY <1>2 DEF Lookup, Enter
  <2>2. \A q \in Readers : q # r => key'[q] = key[q] BY <1>0, <1>2 DEF Lookup
  <2> QED BY <1>a, <1>b, <2>1, <2>2
<1>3. CASE Versions(r)
  <2>1. Moves("find", "get") BY <1>3 DEF Versions, Enter
  <2>2. \A q \in Readers : q # r => key'[q] = key[q] BY <1>0, <1>3 DEF Versions
  <2> QED BY <1>a, <1>b, <2>1, <2>2
<1>4. CASE FindFails(r)
  <2>1. Moves("find", "direct") /\ key' = key BY <1>4 DEF FindFails, Enter
  <2> QED BY <1>a, <1>b, <2>1
<1>5. CASE GetEntry(r)
  <2>1. Moves("get", "found") /\ key' = key BY <1>5 DEF GetEntry, Enter
  <2> QED BY <1>a, <1>b, <2>1
<1>6. CASE Hit(r)
  <2>1. Moves("found", "done") /\ key' = key BY <1>6 DEF Hit, Enter
  <2> QED BY <1>a, <1>b, <2>1
<1>7. CASE Join(r)
  <2>1. Moves("found", "follow") /\ key' = key BY <1>7 DEF Join, Miss, Enter
  <2> QED BY <1>a, <1>b, <2>1
<1>8. CASE Lead(r)
  <2>1. /\ pc[r] = "found" /\ Joinable(r) = {} /\ key' = key
        /\ inflight' = IF Dedupe THEN inflight \cup {r} ELSE inflight
        /\ pc' = [pc EXCEPT ![r] = "fetch"]
    BY <1>8 DEF Lead, Miss, Enter
  <2>2. \A q \in Readers : pc'[q] = IF q = r THEN "fetch" ELSE pc[q] BY <1>0, <2>1
  <2>3. r \notin inflight BY <1>b, <2>1 DEF LiveInv, InFlight
  <2>4. InFlight' BY <1>0, <1>b, <2>1, <2>2 DEF LiveInv, InFlight
  <2>5. Dedupe => \A q \in Readers : pc'[q] \in Flying => q \in inflight'
    BY <2>1, <2>2 DEF LiveInv
  <2>6. Dedupe => \A q \in inflight : key[q] # key[r] BY <2>1 DEF Joinable, Flights
  <2>7. Dedupe => \A p, q \in inflight' : key'[p] = key'[q] => p = q
    BY <2>1, <2>6 DEF LiveInv
  <2> QED BY <2>4, <2>5, <2>7 DEF LiveInv
<1>9. CASE FetchReads(r)
  <2>1. Moves("fetch", "fetched") /\ key' = key BY <1>9 DEF FetchReads, Enter
  <2> QED BY <1>a, <1>b, <2>1
<1>10. CASE FetchRejects(r)
  <2>1. pc[r] \in Flying /\ Finish(r, "failed") /\ key' = key BY <1>b, <1>10 DEF FetchRejects
  <2> QED BY <2>1, FlightEnds
<1>11. CASE FetchSettles(r)
  <2>1. Moves("fetched", "settled") /\ key' = key BY <1>11 DEF FetchSettles, Enter
  <2> QED BY <1>a, <1>b, <2>1
<1>12. CASE NothingToStore(r)
  <2>1. pc[r] \in Flying /\ Finish(r, "done") /\ key' = key BY <1>b, <1>12 DEF NothingToStore
  <2> QED BY <2>1, FlightEnds
<1>13. CASE Fits(r)
  <2>1. Moves("settled", "store") /\ key' = key BY <1>13 DEF Fits, Enter
  <2> QED BY <1>a, <1>b, <2>1
<1>14. CASE StoreSets(r)
  <2>1. pc[r] \in Flying /\ Finish(r, "done") /\ key' = key BY <1>b, <1>14 DEF StoreSets
  <2> QED BY <2>1, FlightEnds
<1>15. CASE FollowerResumes(r)
  <2>1. Moves("follow", "done") \/ Moves("follow", "direct") \/ Moves("follow", "failed")
    BY <1>15 DEF FollowerResumes, Enter
  <2>2. key' = key BY <1>15 DEF FollowerResumes
  <2> QED BY <1>a, <1>b, <2>1, <2>2
<1>16. CASE DirectFetch(r)
  <2>1. Moves("direct", "done") \/ Moves("direct", "failed") BY <1>16 DEF DirectFetch, Enter
  <2>2. key' = key BY <1>16 DEF DirectFetch
  <2> QED BY <1>a, <1>b, <2>1, <2>2
<1> QED BY <1>1, <1>2, <1>3, <1>4, <1>5, <1>6, <1>7, <1>8, <1>9, <1>10, <1>11, <1>12, <1>13,
           <1>14, <1>15, <1>16 DEF Resumes

LEMMA AlwaysLive == Spec => []LiveInv
<1>1. Init => LiveInv BY DEF Init, LiveInv, InFlight, Flying
<1>2. TypeInv /\ LiveInv /\ [Next]_vars => LiveInv'
  <2> SUFFICES ASSUME TypeInv, LiveInv, [Next]_vars PROVE LiveInv' OBVIOUS
  <2>1. ASSUME UNCHANGED <<pc, key, inflight>> PROVE LiveInv' BY <2>1, FlightsStay
  <2>2. CASE Evict \/ Clear \/ OversizedForgotten
    BY <2>1, <2>2 DEF Evict, Clear, OversizedForgotten, reader
  <2>3. CASE \E w \in Writers : WriterStep(w)
    BY <2>1, <2>3 DEF WriterStep, Write, FirstBump, Commit, Rollback, SecondBump, reader
  <2>4. CASE \E r \in Readers : Begin(r) \/ Resumes(r) BY <2>4, LiveReaderStep
  <2>5. CASE UNCHANGED vars BY <2>1, <2>5 DEF vars, reader
  <2> QED BY <2>2, <2>3, <2>4, <2>5 DEF Next, Over
<1> QED BY <1>1, <1>2, TypeCorrect, PTL DEF Spec

(* Reads of one key at one time make one adapter call, and nobody can join *)
(* a read that is over: the map forgets a flight in the step that ends it, *)
(* and takes no other read's flight with it.                               *)
THEOREM OneFlight == Spec => []FlightsAreLive
<1>1. LiveInv => FlightsAreLive
  <2>1. ASSUME LiveInv, Dedupe, NEW q \in Readers, NEW r \in Readers,
               pc[q] \in Flying, pc[r] \in Flying, key[q] = key[r]
        PROVE  q = r
    BY <2>1 DEF LiveInv
  <2> QED BY <2>1 DEF FlightsAreLive, OneFlightPerKey, LiveInv, InFlight
<1> QED BY <1>1, AlwaysLive, PTL

-------------------------------------------------------------------------------
(* The stores.  Totals of finite functions: one element at a time, by the *)
(* smallest set for which a claim fails.                                   *)

(* What is not so of every finite set is not so of a smallest one. *)
LEMMA SmallestSet ==
  ASSUME NEW S, IsFiniteSet(S), NEW F \in SUBSET (SUBSET S), F # {}
  PROVE  \E T \in F : \A U \in F : U \subseteq T => U = T
<1>1. IsWellFoundedOn(StrictSubsetOrdering(S), SUBSET S)
  BY FS_StrictSubsetOrderingWellFounded, FS_FiniteSubsetsOfFinite
<1>2. PICK T \in F : \A U \in F : <<U, T>> \notin StrictSubsetOrdering(S)
  BY <1>1, WFMin, Zenon
<1>3. ASSUME NEW U \in F, U \subseteq T PROVE U # T => <<U, T>> \in StrictSubsetOrdering(S)
  <2>1. <<U, T>> \in (SUBSET S) \X (SUBSET S) OBVIOUS
  <2>2. <<U, T>>[1] = U /\ <<U, T>>[2] = T OBVIOUS
  <2> QED BY <1>3, <2>1, <2>2, SMT DEF StrictSubsetOrdering
<1>4. ASSUME NEW U \in F, U \subseteq T PROVE U = T BY <1>2, <1>3, <1>4
<1> QED BY <1>4

(* The fold that Total is: it adds the value of an element that it chooses *)
(* to the total of the rest.                                               *)
OneOf(s) == CHOOSE x \in s : TRUE
Adds(f, S, it) ==
  it = [s \in SUBSET S |-> IF s = {} THEN 0 ELSE f[OneOf(s)] + it[s \ {OneOf(s)}]]

LEMMA OneOfIsIn == \A s : s # {} => OneOf(s) \in s
BY DEF OneOf

LEMMA TotalAdds == ASSUME NEW f PROVE Memory!Total(f) = (CHOOSE it : Adds(f, DOMAIN f, it))[DOMAIN f]
BY Zenon DEF Memory!Total, Memory!MapThenSumSet, Memory!MapThenFoldSet, Adds, OneOf

LEMMA RedisTotal == ASSUME NEW f PROVE Redis!Total(f) = Memory!Total(f)
BY Zenon DEF Memory!Total, Memory!MapThenSumSet, Memory!MapThenFoldSet,
  Redis!Total, Redis!MapThenSumSet, Redis!MapThenFoldSet

LEMMA RedisCardinality == ASSUME NEW S PROVE Redis!Cardinality(S) = Cardinality(S)
BY Zenon DEF Redis!Cardinality, Cardinality, Redis!IsFiniteSet, IsFiniteSet

LEMMA AddsAt ==
  ASSUME NEW f, NEW S, NEW it, Adds(f, S, it), NEW s \in SUBSET S
  PROVE  it[s] = IF s = {} THEN 0 ELSE f[OneOf(s)] + it[s \ {OneOf(s)}]
BY DEF Adds

LEMMA AddsAgree ==
  ASSUME NEW f, NEW g, NEW S, NEW T, NEW it, NEW jt, Adds(f, S, it), Adds(g, T, jt),
         NEW U \in SUBSET (S \cap T), IsFiniteSet(U), \A x \in U : f[x] = g[x]
  PROVE  it[U] = jt[U]
<1> DEFINE F == {V \in SUBSET U : it[V] # jt[V]}
<1> SUFFICES ASSUME F # {} PROVE FALSE OBVIOUS
<1>0. F \in SUBSET (SUBSET U) OBVIOUS
<1>1. PICK V \in F : \A W \in F : W \subseteq V => W = V
  <2> HIDE DEF F
  <2> QED BY <1>0, SmallestSet
<1>2. V \in SUBSET S /\ V \in SUBSET T /\ V \in SUBSET U /\ it[V] # jt[V] OBVIOUS
<1>3. V # {} BY <1>2, AddsAt
<1>4. OneOf(V) \in V BY <1>3, OneOfIsIn
<1>5. V \ {OneOf(V)} \notin F BY <1>1, <1>4
<1>6. it[V \ {OneOf(V)}] = jt[V \ {OneOf(V)}] BY <1>5, <1>2
<1>7. f[OneOf(V)] = g[OneOf(V)] BY <1>2, <1>4
<1>8. it[V] = f[OneOf(V)] + it[V \ {OneOf(V)}] BY <1>2, <1>3, AddsAt
<1>9. jt[V] = g[OneOf(V)] + jt[V \ {OneOf(V)}] BY <1>2, <1>3, AddsAt
<1> QED BY <1>2, <1>6, <1>7, <1>8, <1>9

LEMMA AddsExists ==
  ASSUME NEW f, NEW S, IsFiniteSet(S)
  PROVE  \E it : Adds(f, S, it)
<1> DEFINE F == {T \in SUBSET S : ~ \E it : Adds(f, T, it)}
<1> SUFFICES ASSUME F # {} PROVE FALSE OBVIOUS
<1>0. F \in SUBSET (SUBSET S) OBVIOUS
<1>1. PICK T \in F : \A U \in F : U \subseteq T => U = T
  <2> HIDE DEF F
  <2> QED BY <1>0, SmallestSet
<1>2. T \in SUBSET S /\ ~ \E it : Adds(f, T, it) OBVIOUS
<1> DEFINE Rest(s) == s \ {OneOf(s)}
           W(s) == CHOOSE it : Adds(f, Rest(s), it)
           it == [s \in SUBSET T |-> IF s = {} THEN 0 ELSE f[OneOf(s)] + W(s)[Rest(s)]]
<1>3. ASSUME NEW s \in SUBSET T, s # {} PROVE Adds(f, Rest(s), W(s))
  <2>1. OneOf(s) \in s BY <1>3, OneOfIsIn
  <2>2. Rest(s) \in SUBSET S /\ Rest(s) \subseteq T /\ Rest(s) # T BY <2>1, <1>2
  <2>3. Rest(s) \notin F BY <1>1, <2>2
  <2>4. \E jt : Adds(f, Rest(s), jt) BY <2>2, <2>3
  <2> QED BY <2>4, Zenon
<1> HIDE DEF W
<1>4. ASSUME NEW s \in SUBSET T, s # {} PROVE it[Rest(s)] = W(s)[Rest(s)]
  <2> DEFINE u == Rest(s)
  <2>1. u \in SUBSET T OBVIOUS
  <2>2. W(s)[u] = IF u = {} THEN 0 ELSE f[OneOf(u)] + W(s)[Rest(u)]
    <3>1. Adds(f, u, W(s)) /\ u \in SUBSET u BY <1>3, <1>4
    <3> HIDE DEF u
    <3> QED BY <3>1, AddsAt
  <2>3. it[u] = IF u = {} THEN 0 ELSE f[OneOf(u)] + W(u)[Rest(u)] BY <2>1
  <2>4. CASE u # {}
    <3>1. Adds(f, Rest(u), W(u)) /\ Adds(f, u, W(s)) BY <1>3, <1>4, <2>1, <2>4
    <3>2. Rest(u) \in SUBSET (Rest(u) \cap u) OBVIOUS
    <3>3. IsFiniteSet(Rest(u)) BY <1>2, FS_Subset
    <3> HIDE DEF u, Rest
    <3>4. W(u)[Rest(u)] = W(s)[Rest(u)] BY <3>1, <3>2, <3>3, AddsAgree
    <3>5. it[u] = W(s)[u]
      <4> HIDE DEF it
      <4> QED BY <2>4, <2>2, <2>3, <3>4
    <3> QED BY <3>5, Zenon DEF u
  <2>5. CASE u = {}
    <3> HIDE DEF it
    <3> QED BY <2>5, <2>2, <2>3
  <2> QED BY <2>4, <2>5
<1>5. Adds(f, T, it)
  <2>1. ASSUME NEW s \in SUBSET T
        PROVE  (IF s = {} THEN 0 ELSE f[OneOf(s)] + W(s)[Rest(s)])
               = (IF s = {} THEN 0 ELSE f[OneOf(s)] + it[Rest(s)])
    <3> HIDE DEF it, Rest
    <3>1. CASE s = {} BY <3>1
    <3>2. CASE s # {}
      <4>1. it[Rest(s)] = W(s)[Rest(s)] BY <1>4, <3>2
      <4> QED BY <4>1
    <3> QED BY <3>1, <3>2
  <2>2. it = [s \in SUBSET T |-> IF s = {} THEN 0 ELSE f[OneOf(s)] + it[Rest(s)]]
    <3> DEFINE a(s) == IF s = {} THEN 0 ELSE f[OneOf(s)] + W(s)[Rest(s)]
               b(s) == IF s = {} THEN 0 ELSE f[OneOf(s)] + it[Rest(s)]
    <3>1. \A s \in SUBSET T : a(s) = b(s) BY <2>1, Zenon
    <3>2. it = [s \in SUBSET T |-> a(s)] BY Zenon
    <3> HIDE DEF a, b, it
    <3>3. [s \in SUBSET T |-> a(s)] = [s \in SUBSET T |-> b(s)] BY <3>1
    <3>4. it = [s \in SUBSET T |-> b(s)] BY <3>2, <3>3, Zenon
    <3> QED BY <3>4, Zenon DEF b
  <2> HIDE DEF it
  <2> QED BY <2>2, Zenon DEF Adds
<1> HIDE DEF it
<1> QED BY <1>2, <1>5

(* So a total is the value of any one element and the total of the rest. *)
Part(f, T) == Memory!Total([x \in T |-> f[x]])

LEMMA PartStep ==
  ASSUME NEW f, NEW T, IsFiniteSet(T)
  PROVE  /\ T = {} => Part(f, T) = 0
         /\ T # {} => Part(f, T) = f[OneOf(T)] + Part(f, T \ {OneOf(T)})
<1> DEFINE It(U) == CHOOSE it : Adds([x \in U |-> f[x]], U, it)
           R == T \ {OneOf(T)}
<1>1. ASSUME NEW U \in SUBSET T PROVE Adds([x \in U |-> f[x]], U, It(U)) /\ Part(f, U) = It(U)[U]
  <2>1. IsFiniteSet(U) BY FS_Subset
  <2>2. \E it : Adds([x \in U |-> f[x]], U, it) BY <2>1, AddsExists
  <2>3. Adds([x \in U |-> f[x]], U, It(U)) BY <2>2, Zenon
  <2>4. DOMAIN [x \in U |-> f[x]] = U OBVIOUS
  <2>5. Part(f, U) = It(U)[U] BY <2>4, TotalAdds, Zenon DEF Part
  <2> QED BY <2>3, <2>5
<1> HIDE DEF It
<1>2. T = {} => It(T)[T] = 0 BY <1>1, AddsAt
<1>3. CASE T # {}
  <2>1. OneOf(T) \in T BY <1>3, OneOfIsIn
  <2>2. It(T)[T] = [x \in T |-> f[x]][OneOf(T)] + It(T)[R] BY <1>1, <1>3, AddsAt
  <2>3. IsFiniteSet(R) /\ R \in SUBSET (T \cap R) BY FS_Subset
  <2>4. \A x \in R : [y \in T |-> f[y]][x] = [y \in R |-> f[y]][x] OBVIOUS
  <2>5. It(T)[R] = It(R)[R]
    <3>1. Adds([x \in T |-> f[x]], T, It(T)) /\ Adds([x \in R |-> f[x]], R, It(R)) BY <1>1
    <3> HIDE DEF R
    <3> QED BY <3>1, <2>3, <2>4, AddsAgree
  <2> QED BY <1>1, <1>3, <2>1, <2>2, <2>5
<1> QED BY <1>1, <1>2, <1>3

LEMMA PartPulls ==
  ASSUME NEW f, NEW D, IsFiniteSet(D), \A x \in D : f[x] \in Nat
  PROVE  \A T \in SUBSET D :
           Part(f, T) \in Nat /\ \A x \in T : Part(f, T) = f[x] + Part(f, T \ {x})
<1> DEFINE Good(T) == Part(f, T) \in Nat /\ \A x \in T : Part(f, T) = f[x] + Part(f, T \ {x})
           F == {T \in SUBSET D : ~ Good(T)}
<1> SUFFICES ASSUME F # {} PROVE FALSE OBVIOUS
<1>0. F \in SUBSET (SUBSET D) OBVIOUS
<1>1. PICK T \in F : \A U \in F : U \subseteq T => U = T
  <2> HIDE DEF F
  <2> QED BY <1>0, SmallestSet
<1>2. T \in SUBSET D /\ ~ Good(T) OBVIOUS
<1>3. ASSUME NEW U \in SUBSET T, U # T PROVE Good(U)
  <2>1. U \in SUBSET D /\ U \notin F BY <1>1, <1>2, <1>3
  <2> QED BY <2>1, Zenon
<1> DEFINE p == OneOf(T)
<1>4. IsFiniteSet(T) BY <1>2, FS_Subset
<1>5. ASSUME T = {} PROVE FALSE
  <2>1. Part(f, T) = 0 BY <1>4, <1>5, PartStep
  <2> QED BY <1>2, <1>5, <2>1
<1>6. p \in T /\ f[p] \in Nat BY <1>2, <1>5, OneOfIsIn
<1>7. Part(f, T) = f[p] + Part(f, T \ {p}) BY <1>4, <1>5, PartStep
<1> HIDE DEF p
<1>8. Good(T \ {p}) BY <1>3, <1>6
<1>9. Part(f, T) \in Nat BY <1>6, <1>7, <1>8
<1>10. ASSUME NEW x \in T, x # p PROVE Part(f, T) = f[x] + Part(f, T \ {x})
  <2>1. Good(T \ {x}) BY <1>3
  <2>2. (T \ {p}) \ {x} = (T \ {x}) \ {p} /\ x \in T \ {p} /\ p \in T \ {x} BY <1>6, <1>10
  <2>3. Part(f, T \ {p}) = f[x] + Part(f, (T \ {p}) \ {x}) BY <1>8, <2>2
  <2>4. Part(f, T \ {x}) = f[p] + Part(f, (T \ {p}) \ {x}) BY <2>1, <2>2
  <2>5. (T \ {p}) \ {x} \in SUBSET T /\ (T \ {p}) \ {x} # T BY <1>6
  <2>6. Part(f, (T \ {p}) \ {x}) \in Nat BY <1>3, <2>5
  <2>7. f[x] \in Nat BY <1>2
  <2> HIDE DEF Good
  <2> QED BY <1>6, <1>7, <2>3, <2>4, <2>6, <2>7
<1> QED BY <1>2, <1>7, <1>9, <1>10

(* Two disjoint parts. *)
LEMMA PartSplits ==
  ASSUME NEW f, NEW D, IsFiniteSet(D), \A x \in D : f[x] \in Nat, NEW S \in SUBSET D
  PROVE  Part(f, D) = Part(f, S) + Part(f, D \ S)
<1> DEFINE Good(T) == Part(f, T \cup (D \ S)) = Part(f, T) + Part(f, D \ S)
           F == {T \in SUBSET S : ~ Good(T)}
<1>0. IsFiniteSet(S) BY FS_Subset
<1>1. ASSUME F # {} PROVE FALSE
  <2>0. F \in SUBSET (SUBSET S) OBVIOUS
  <2>1. PICK T \in F : \A U \in F : U \subseteq T => U = T
    <3> HIDE DEF F
    <3> QED BY <1>0, <1>1, <2>0, SmallestSet
  <2>2. T \in SUBSET S /\ ~ Good(T) OBVIOUS
  <2>3. CASE T = {}
    <3>1. T \cup (D \ S) = D \ S BY <2>3
    <3>2. Part(f, T) = 0 BY <2>3, FS_EmptySet, PartStep
    <3>3. Part(f, D \ S) \in Nat BY PartPulls
    <3> QED BY <2>2, <3>1, <3>2, <3>3
  <2>4. ASSUME NEW p \in T PROVE FALSE
    <3>1. T \ {p} \in SUBSET S /\ T \ {p} \notin F BY <2>1, <2>2, <2>4
    <3>2. Good(T \ {p}) BY <3>1
    <3>3. (T \ {p}) \cup (D \ S) = (T \cup (D \ S)) \ {p} BY <2>2
    <3>4. T \in SUBSET D /\ T \cup (D \ S) \in SUBSET D /\ T \ {p} \in SUBSET D BY <2>2
    <3>5. Part(f, T) = f[p] + Part(f, T \ {p}) BY <3>4, PartPulls
    <3>6. Part(f, T \cup (D \ S)) = f[p] + Part(f, (T \ {p}) \cup (D \ S)) BY <3>3, <3>4, PartPulls
    <3>7. f[p] \in Nat /\ Part(f, T \ {p}) \in Nat /\ Part(f, D \ S) \in Nat BY <3>4, PartPulls
    <3> QED BY <2>2, <3>2, <3>5, <3>6, <3>7
  <2> QED BY <2>3, <2>4
<1>2. Good(S) BY <1>1
<1>3. S \cup (D \ S) = D OBVIOUS
<1> QED BY <1>2, <1>3

(* The same values under other names. *)
LEMMA PartMoves ==
  ASSUME NEW f, NEW D, IsFiniteSet(D), \A x \in D : f[x] \in Nat,
         NEW g, NEW E, IsFiniteSet(E), \A x \in E : g[x] \in Nat,
         NEW b \in [D -> E], \A x, y \in D : b[x] = b[y] => x = y,
         \A y \in E : \E x \in D : y = b[x],
         \A x \in D : g[b[x]] = f[x]
  PROVE  Part(f, D) = Part(g, E)
<1> DEFINE Image(T) == {b[x] : x \in T}
           Good(T) == Part(f, T) = Part(g, Image(T))
           F == {T \in SUBSET D : ~ Good(T)}
<1>1. ASSUME F # {} PROVE FALSE
  <2>0. F \in SUBSET (SUBSET D) OBVIOUS
  <2>1. PICK T \in F : \A U \in F : U \subseteq T => U = T
    <3> HIDE DEF F
    <3> QED BY <1>1, <2>0, SmallestSet
  <2>2. T \in SUBSET D /\ ~ Good(T) OBVIOUS
  <2>3. CASE T = {}
    <3>1. Image(T) = {} BY <2>3
    <3> QED BY <2>2, <2>3, <3>1, FS_EmptySet, PartStep
  <2>4. ASSUME NEW p \in T PROVE FALSE
    <3>1. T \ {p} \in SUBSET D /\ T \ {p} \notin F BY <2>1, <2>2, <2>4
    <3>2. Good(T \ {p}) BY <3>1
    <3>3. Image(T \ {p}) = Image(T) \ {b[p]} /\ b[p] \in Image(T) /\ Image(T) \in SUBSET E BY <2>2
    <3>4. Part(f, T) = f[p] + Part(f, T \ {p}) BY <2>2, PartPulls
    <3> HIDE DEF Image
    <3>5. Part(g, Image(T)) = g[b[p]] + Part(g, Image(T) \ {b[p]}) BY <3>3, PartPulls
    <3>6. g[b[p]] = f[p] BY <2>2
    <3> QED BY <2>2, <3>2, <3>3, <3>4, <3>5, <3>6
  <2> QED BY <2>3, <2>4
<1>2. Good(D) BY <1>1
<1>3. Image(D) = E OBVIOUS
<1> QED BY <1>2, <1>3

(* Totals of functions. *)
Sized(f, D) == IsFiniteSet(D) /\ D = DOMAIN f /\ f \in [D -> Nat]

LEMMA TotalIsPart ==
  ASSUME NEW f, NEW D, f = [x \in D |-> f[x]]
  PROVE  Memory!Total(f) = Part(f, D)
BY Zenon DEF Part

LEMMA PartsAlike ==
  ASSUME NEW f, NEW g, NEW T, \A x \in T : f[x] = g[x]
  PROVE  Part(f, T) = Part(g, T)
<1>1. [x \in T |-> f[x]] = [x \in T |-> g[x]] OBVIOUS
<1> QED BY <1>1, Zenon DEF Part

LEMMA PartShrinks ==
  ASSUME NEW f, NEW D, IsFiniteSet(D), \A x \in D : f[x] \in Nat, NEW S \in SUBSET D
  PROVE  /\ Part(f, S) \in Nat /\ Part(f, D) \in Nat
         /\ Part(f, S) <= Part(f, D)
<1>1. Part(f, D) = Part(f, S) + Part(f, D \ S) BY PartSplits
<1>2. Part(f, S) \in Nat /\ Part(f, D) \in Nat /\ Part(f, D \ S) \in Nat BY PartPulls
<1> QED BY <1>1, <1>2

-------------------------------------------------------------------------------
(* The shared store *)

(* An index: the sizes of its rows and what they add up to. *)
Index(f, total) ==
  /\ IsFiniteSet(DOMAIN f) /\ f \in [DOMAIN f -> Nat] /\ DOMAIN f \in SUBSET Nat
  /\ total = Part(f, DOMAIN f)

(* Until clear() is called, the index has a row of its size for every     *)
(* entry, its total is their sum and within the limits, and an entry is as *)
(* new as its generation.                                                  *)
SharedInv ==
  /\ cleared \in Nat
  /\ cleared = 0 =>
       /\ scan = {} /\ generation \in Nat /\ incs = generation /\ clock \in Nat
       /\ hit \in Int /\ hit <= 0
       /\ Index(sizes, bytes) /\ ~ Redis!Over(Cardinality(DOMAIN sizes), bytes)
       /\ DOMAIN lru = DOMAIN sizes /\ DOMAIN held \in SUBSET DOMAIN sizes
       /\ \A k \in DOMAIN held : held[k].size = sizes[k] /\ held[k].made \in Nat /\ held[k].made >= k

LEMMA OverGrows ==
  ASSUME NEW c \in Nat, NEW d \in Nat, NEW t \in Int, NEW u \in Int, c <= d, t <= u, ~ Redis!Over(d, u)
  PROVE  ~ Redis!Over(c, t)
BY StoreAssumption DEF Redis!Over

LEMMA SharedAccounts == SharedInv => Redis!WithinLimits /\ Redis!Accounting /\ Redis!NeverLookedUpAgain
<1> SUFFICES ASSUME SharedInv, cleared = 0 PROVE Redis!WithinLimits /\ Redis!Accounting /\ Redis!NeverLookedUpAgain
  BY DEF Redis!WithinLimits, Redis!Accounting, Redis!NeverLookedUpAgain
<1> DEFINE D == DOMAIN sizes  E == DOMAIN held  g == [k \in E |-> held[k].size]
<1>1. IsFiniteSet(D) /\ (\A x \in D : sizes[x] \in Nat) /\ E \in SUBSET D /\ bytes = Part(sizes, D)
  BY DEF SharedInv, Index
<1>2. sizes = [x \in D |-> sizes[x]] BY DEF SharedInv, Index
<1>3. Redis!Total(sizes) = Part(sizes, D) BY <1>2, RedisTotal, TotalIsPart
<1>4. \A x \in E : g[x] = sizes[x] BY DEF SharedInv
<1>5. Redis!Total(g) = Part(sizes, E)
  <2>1. Redis!Total(g) = Memory!Total(g) BY RedisTotal
  <2>2. Memory!Total(g) = Part(g, E) BY TotalIsPart
  <2>3. Part(g, E) = Part(sizes, E) BY <1>4, PartsAlike
  <2> QED BY <2>1, <2>2, <2>3
<1>6. Part(sizes, E) \in Nat /\ Part(sizes, D) \in Nat /\ Part(sizes, E) <= Part(sizes, D)
  BY <1>1, PartShrinks
<1>7. Cardinality(E) \in Nat /\ Cardinality(D) \in Nat /\ Cardinality(E) <= Cardinality(D)
  BY <1>1, FS_Subset, FS_CardinalityType
<1>8. ~ Redis!Over(Cardinality(D), bytes) BY DEF SharedInv
<1>9. ~ Redis!Over(Cardinality(E), Part(sizes, E)) BY <1>1, <1>6, <1>7, <1>8, OverGrows
<1>10. Redis!WithinLimits
  <2>1. Redis!Cardinality(E) = Cardinality(E) BY RedisCardinality
  <2> QED BY <1>5, <1>9, <2>1, Zenon DEF Redis!WithinLimits
<1>11. Redis!Accounting BY <1>3 DEF Redis!Accounting, SharedInv, Index
<1>12. Redis!NeverLookedUpAgain BY DEF Redis!NeverLookedUpAgain, SharedInv
<1> QED BY <1>10, <1>11, <1>12

LEMMA SharedStarts == Redis!Init => SharedInv
<1> SUFFICES ASSUME Redis!Init PROVE SharedInv OBVIOUS
<1>1. held = <<>> /\ lru = <<>> /\ sizes = <<>> /\ bytes = 0 /\ clock = 0 /\ generation = 0
      /\ incs = 0 /\ hit = -1 /\ scan = {} /\ cleared = 0
  BY DEF Redis!Init, Redis!None, Redis!Missed
<1>2. DOMAIN sizes = {} BY <1>1
<1>3. IsFiniteSet({}) /\ Cardinality({}) = 0 BY FS_EmptySet
<1>4. Part(sizes, {}) = 0 BY <1>3, PartStep
<1>5. ~ Redis!Over(0, 0) BY StoreAssumption DEF Redis!Over
<1>6. sizes \in [DOMAIN sizes -> Nat] BY <1>1
<1>7. DOMAIN lru = {} /\ DOMAIN held = {} BY <1>1
<1> QED BY <1>1, <1>2, <1>3, <1>4, <1>5, <1>6, <1>7 DEF SharedInv, Index

(* What an eviction leaves is within the limits: the smallest set of the   *)
(* lowest scores that does exists.                                         *)
LEMMA EvictedLeaves ==
  ASSUME NEW z, NEW szs, NEW total, IsFiniteSet(DOMAIN z)
  PROVE  /\ Redis!Evicted(z, szs, total) \in SUBSET DOMAIN z
         /\ Redis!StopsAt(z, szs, total, Redis!Evicted(z, szs, total))
<1> DEFINE Z == DOMAIN z
           F == {gone \in SUBSET Z : Redis!Lowest(z, gone) /\ Redis!StopsAt(z, szs, total, gone)}
           Right(gone) == /\ Redis!Lowest(z, gone) /\ Redis!StopsAt(z, szs, total, gone)
                          /\ \A less \in SUBSET gone :
                               less # gone /\ Redis!Lowest(z, less) => ~ Redis!StopsAt(z, szs, total, less)
<1>1. Redis!Lowest(z, Z) /\ Redis!StopsAt(z, szs, total, Z)
  BY DEF Redis!Lowest, Redis!StopsAt
<1>2. F # {} /\ F \in SUBSET (SUBSET Z) BY <1>1
<1>3. PICK gone \in F : \A U \in F : U \subseteq gone => U = gone
  <2> HIDE DEF F
  <2> QED BY <1>2, SmallestSet
<1>4. gone \in SUBSET Z /\ Right(gone) BY <1>3
<1>5. Redis!Evicted(z, szs, total) = CHOOSE gs \in SUBSET Z : Right(gs) BY Zenon DEF Redis!Evicted
<1> HIDE DEF Right
<1>6. (CHOOSE gs \in SUBSET Z : Right(gs)) \in SUBSET Z /\ Right(CHOOSE gs \in SUBSET Z : Right(gs))
  BY <1>4, Zenon
<1>7. Redis!Evicted(z, szs, total) \in SUBSET Z /\ Right(Redis!Evicted(z, szs, total)) BY <1>5, <1>6, Zenon
<1> QED BY <1>7, Zenon DEF Right

LEMMA IndexDrops ==
  ASSUME NEW f, NEW total, Index(f, total), ~ Redis!Over(Cardinality(DOMAIN f), total), NEW k
  PROVE  /\ Index(Redis!Drop(f, k), total - Redis!SizeIn(f, k))
         /\ DOMAIN Redis!Drop(f, k) = DOMAIN f \ {k}
         /\ \A x \in DOMAIN f \ {k} : Redis!Drop(f, k)[x] = f[x]
         /\ ~ Redis!Over(Cardinality(DOMAIN f \ {k}), total - Redis!SizeIn(f, k))
         /\ k \notin DOMAIN f => Redis!Drop(f, k) = f /\ total - Redis!SizeIn(f, k) = total
<1> DEFINE D == DOMAIN f  E == D \ {k}  g == Redis!Drop(f, k)
<1>1. g = [x \in E |-> f[x]] BY Zenon DEF Redis!Drop, Redis!Restrict
<1>2. IsFiniteSet(D) /\ (\A x \in D : f[x] \in Nat) /\ E \in SUBSET D /\ total = Part(f, D) /\ D \in SUBSET Nat
  BY DEF Index
<1> HIDE DEF g
<1>3. DOMAIN g = E /\ (\A x \in E : g[x] = f[x]) /\ g \in [E -> Nat] BY <1>1, <1>2
<1>4. IsFiniteSet(E) /\ Part(f, E) \in Nat /\ Part(f, D) \in Nat /\ Part(f, E) <= Part(f, D)
  BY <1>2, FS_Subset, PartShrinks
<1>5. Part(f, E) = total - Redis!SizeIn(f, k)
  <2>1. CASE k \in D
    <3>1. Part(f, D) = f[k] + Part(f, E) BY <1>2, <2>1, PartPulls
    <3>2. Redis!SizeIn(f, k) = f[k] /\ f[k] \in Nat BY <1>2, <2>1 DEF Redis!SizeIn
    <3> QED BY <1>2, <1>4, <3>1, <3>2
  <2>2. CASE k \notin D
    <3>1. E = D /\ Redis!SizeIn(f, k) = 0 BY <2>2 DEF Redis!SizeIn
    <3> QED BY <1>2, <1>4, <3>1
  <2> QED BY <2>1, <2>2
<1>6. Part(g, E) = Part(f, E) BY <1>3, PartsAlike
<1>7. Cardinality(E) \in Nat /\ Cardinality(D) \in Nat /\ Cardinality(E) <= Cardinality(D)
  BY <1>2, <1>4, FS_Subset, FS_CardinalityType
<1>8. ~ Redis!Over(Cardinality(E), Part(f, E)) BY <1>2, <1>4, <1>7, OverGrows
<1>9. Index(g, total - Redis!SizeIn(f, k))
  <2>1. E \in SUBSET Nat BY <1>2
  <2> QED BY <1>3, <1>4, <1>5, <1>6, <2>1 DEF Index
<1>10. ASSUME k \notin D PROVE g = f /\ total - Redis!SizeIn(f, k) = total
  <2>1. E = D /\ f = [x \in D |-> f[x]] BY <1>10 DEF Index
  <2>2. Redis!SizeIn(f, k) = 0 BY <1>10 DEF Redis!SizeIn
  <2> QED BY <1>1, <1>2, <1>4, <2>1, <2>2
<1> QED BY <1>3, <1>5, <1>8, <1>9, <1>10 DEF g

LEMMA IndexTakes ==
  ASSUME NEW f, NEW total, Index(f, total), ~ Redis!Over(Cardinality(DOMAIN f), total),
         NEW k \in Nat, NEW v \in Nat
  PROVE  /\ total - Redis!SizeIn(f, k) \in Nat
         /\ Index(Redis!With(f, k, v), total - Redis!SizeIn(f, k) + v)
         /\ DOMAIN Redis!With(f, k, v) = DOMAIN f \cup {k}
         /\ Redis!With(f, k, v)[k] = v
         /\ \A x \in DOMAIN f \ {k} : Redis!With(f, k, v)[x] = f[x]
<1> DEFINE D == DOMAIN f  E == D \ {k}  W == D \cup {k}  g == Redis!With(f, k, v)  old == total - Redis!SizeIn(f, k)
<1>0. g = [x \in W |-> IF x = k THEN v ELSE f[x]] BY Zenon DEF Redis!With
<1>1. IsFiniteSet(D) /\ (\A x \in D : f[x] \in Nat) /\ D \in SUBSET Nat BY DEF Index
<1> HIDE DEF g
<1>2. DOMAIN g = W /\ g[k] = v /\ (\A x \in E : g[x] = f[x]) /\ g \in [W -> Nat] BY <1>0, <1>1
<1>3. IsFiniteSet(W) /\ W \in SUBSET Nat BY <1>1, FS_AddElement
<1>4. Part(f, E) = old
  <2>1. /\ Index(Redis!Drop(f, k), old) /\ DOMAIN Redis!Drop(f, k) = E
        /\ \A x \in E : Redis!Drop(f, k)[x] = f[x]
    BY IndexDrops
  <2>2. old = Part(Redis!Drop(f, k), E) BY <2>1 DEF Index
  <2> QED BY <2>1, <2>2, PartsAlike
<1>5. Part(g, E) = Part(f, E) BY <1>2, PartsAlike
<1>6. W \ {k} = E /\ k \in W /\ (\A x \in W : g[x] \in Nat) BY <1>2
<1>7. Part(g, W) = v + Part(g, W \ {k})
  <2>1. g[k] = v /\ W \in SUBSET W BY <1>2
  <2> HIDE DEF W, E
  <2>2. \A T \in SUBSET W : Part(g, T) \in Nat /\ \A x \in T : Part(g, T) = g[x] + Part(g, T \ {x})
    <3>1. IsFiniteSet(W) /\ \A x \in W : g[x] \in Nat BY <1>3, <1>6
    <3> QED BY <3>1, PartPulls, Zenon
  <2>3. Part(g, W) = g[k] + Part(g, W \ {k}) BY <1>6, <2>1, <2>2
  <2> QED BY <2>1, <2>3
<1>8. Part(f, E) \in Nat BY <1>1, PartShrinks
<1>9. Part(g, W) = old + v
  <2> HIDE DEF W, E, old
  <2>1. Part(g, W) = v + old BY <1>4, <1>5, <1>6, <1>7
  <2> QED BY <1>4, <1>8, <2>1
<1>10. Index(g, old + v) BY <1>2, <1>3, <1>9 DEF Index
<1>11. old \in Nat BY <1>4, <1>8
<1> QED BY <1>2, <1>10, <1>11 DEF g

LEMMA IndexLoses ==
  ASSUME NEW f, NEW total, Index(f, total), NEW gone \in SUBSET DOMAIN f
  PROVE  /\ Redis!SizesOf(f, gone) \in Nat
         /\ Index(Redis!Restrict(f, DOMAIN f \ gone), total - Redis!SizesOf(f, gone))
         /\ DOMAIN Redis!Restrict(f, DOMAIN f \ gone) = DOMAIN f \ gone
         /\ \A x \in DOMAIN f \ gone : Redis!Restrict(f, DOMAIN f \ gone)[x] = f[x]
<1> DEFINE D == DOMAIN f  E == D \ gone  g == Redis!Restrict(f, E)  h == [k \in gone |-> Redis!SizeIn(f, k)]
<1>0. g = [x \in E |-> f[x]] BY Zenon DEF Redis!Restrict
<1>1. IsFiniteSet(D) /\ (\A x \in D : f[x] \in Nat) /\ E \in SUBSET D /\ total = Part(f, D) /\ D \in SUBSET Nat
  BY DEF Index
<1> HIDE DEF g
<1>2. DOMAIN g = E /\ (\A x \in E : g[x] = f[x]) /\ g \in [E -> Nat] BY <1>0, <1>1
<1>3. Part(g, E) = Part(f, E) BY <1>2, PartsAlike
<1>4. Redis!SizesOf(f, gone) = Part(f, gone)
  <2>1. \A x \in gone : h[x] = f[x] BY DEF Redis!SizeIn
  <2>2. Redis!SizesOf(f, gone) = Memory!Total(h) BY RedisTotal DEF Redis!SizesOf
  <2>3. Memory!Total(h) = Part(h, gone) BY TotalIsPart
  <2> QED BY <2>1, <2>2, <2>3, PartsAlike
<1>5. Part(f, D) = Part(f, gone) + Part(f, E) BY <1>1, PartSplits
<1>6. Part(f, gone) \in Nat /\ Part(f, E) \in Nat /\ IsFiniteSet(E) BY <1>1, PartShrinks, FS_Subset
<1>7. Part(g, E) = total - Redis!SizesOf(f, gone) BY <1>1, <1>3, <1>4, <1>5, <1>6
<1>8. Index(g, total - Redis!SizesOf(f, gone))
  <2>1. E \in SUBSET Nat BY <1>1
  <2> QED BY <1>2, <1>6, <1>7, <2>1 DEF Index
<1> QED BY <1>2, <1>4, <1>6, <1>8 DEF g

LEMMA SharedSet ==
  ASSUME SharedInv, NEW k \in 0 .. generation, NEW v \in SharedValues, Redis!Set(k, v), cleared = 0
  PROVE  SharedInv'
<1>0. /\ scan = {} /\ generation \in Nat /\ incs = generation /\ clock \in Nat /\ cleared \in Nat
      /\ hit \in Int /\ hit <= 0
      /\ DOMAIN lru = DOMAIN sizes /\ DOMAIN held \in SUBSET DOMAIN sizes
      /\ \A x \in DOMAIN held : held[x].size = sizes[x] /\ held[x].made \in Nat /\ held[x].made >= x
  BY DEF SharedInv
<1>i. Index(sizes, bytes) /\ ~ Redis!Over(Cardinality(DOMAIN sizes), bytes) BY DEF SharedInv
<1>1. k \in Nat /\ v \in Nat /\ incs \in Nat /\ incs >= k BY <1>0, StoreAssumption
<1>2. /\ generation' = generation /\ incs' = incs /\ hit' = hit /\ scan' = scan /\ cleared' = cleared
  BY DEF Redis!Set, Redis!history
<1>t. /\ bytes - Redis!SizeIn(sizes, k) \in Nat
      /\ Index(Redis!With(sizes, k, v), bytes - Redis!SizeIn(sizes, k) + v)
      /\ DOMAIN Redis!With(sizes, k, v) = DOMAIN sizes \cup {k}
      /\ Redis!With(sizes, k, v)[k] = v
      /\ \A x \in DOMAIN sizes \ {k} : Redis!With(sizes, k, v)[x] = sizes[x]
  <2>1. k \in Nat /\ v \in Nat BY <1>1
  <2>2. Index(Redis!With(sizes, k, v), bytes - Redis!SizeIn(sizes, k) + v)
    BY <1>i, <2>1, IndexTakes, Zenon
  <2>3. bytes - Redis!SizeIn(sizes, k) \in Nat BY <1>i, <2>1, IndexTakes, Zenon
  <2> QED BY <2>2, <2>3 DEF Redis!With
<1> DEFINE old == bytes - Redis!SizeIn(sizes, k)
<1>o. old \in Nat BY <1>t
<1>3. CASE MaxSize > 0 /\ v > MaxSize
  <2>1. held' = Redis!Drop(held, k) /\ bytes' = old /\ clock' = clock
    BY <1>3 DEF Redis!Set
  <2>2. IF k \in DOMAIN sizes THEN lru' = Redis!Drop(lru, k) /\ sizes' = Redis!Drop(sizes, k)
                              ELSE lru' = lru /\ sizes' = sizes
    BY <1>3 DEF Redis!Set
  <2>3. /\ Index(Redis!Drop(sizes, k), old)
        /\ DOMAIN Redis!Drop(sizes, k) = DOMAIN sizes \ {k}
        /\ \A x \in DOMAIN sizes \ {k} : Redis!Drop(sizes, k)[x] = sizes[x]
        /\ ~ Redis!Over(Cardinality(DOMAIN sizes \ {k}), old)
        /\ k \notin DOMAIN sizes => Redis!Drop(sizes, k) = sizes /\ old = bytes
    BY <1>i, IndexDrops, Zenon
  <2> HIDE DEF old
  <2>4. sizes' = Redis!Drop(sizes, k) BY <2>2, <2>3
  <2>5. DOMAIN Redis!Drop(lru, k) = DOMAIN lru \ {k} BY DEF Redis!Drop, Redis!Restrict
  <2>6. DOMAIN lru' = DOMAIN sizes' BY <1>0, <2>2, <2>3, <2>4, <2>5
  <2>7. DOMAIN held' = DOMAIN held \ {k} /\ \A x \in DOMAIN held \ {k} : held'[x] = held[x]
    BY <2>1 DEF Redis!Drop, Redis!Restrict
  <2> QED BY <1>0, <1>2, <2>1, <2>3, <2>4, <2>6, <2>7 DEF SharedInv
<1>4. CASE ~ (MaxSize > 0 /\ v > MaxSize)
  <2> DEFINE z == Redis!With(lru, k, clock + 1)
             szs == Redis!With(sizes, k, v)
             gone == Redis!Evicted(z, szs, old + v)
             all == Redis!With(held, k, [size |-> v, made |-> incs])
             kept == DOMAIN szs \ gone
  <2>1. /\ clock' = clock + 1
        /\ lru' = Redis!Restrict(z, DOMAIN z \ gone)
        /\ sizes' = Redis!Restrict(szs, DOMAIN szs \ gone)
        /\ bytes' = old + v - Redis!SizesOf(szs, gone)
        /\ held' = Redis!Restrict(all, DOMAIN all \ gone)
    BY <1>4, Zenon DEF Redis!Set
  <2> DEFINE sum == old + v
  <2>s. gone = Redis!Evicted(z, szs, sum) OBVIOUS
  <2>b. sum = old + v OBVIOUS
  <2>2. /\ Index(szs, sum) /\ DOMAIN szs = DOMAIN sizes \cup {k}
        /\ szs[k] = v /\ \A x \in DOMAIN sizes \ {k} : szs[x] = sizes[x]
    BY <1>t
  <2>3. DOMAIN z = DOMAIN sizes \cup {k} BY <1>0 DEF Redis!With
  <2>4. /\ DOMAIN all = DOMAIN held \cup {k} /\ all[k] = [size |-> v, made |-> incs]
        /\ \A x \in DOMAIN held \ {k} : all[x] = held[x]
    BY DEF Redis!With
  <2> HIDE DEF z, szs, all, old, sum
  <2>5. IsFiniteSet(DOMAIN z) BY <2>2, <2>3 DEF Index
  <2>6. gone \in SUBSET DOMAIN z /\ Redis!StopsAt(z, szs, sum, gone)
    <3> HIDE DEF gone
    <3> QED BY <2>5, <2>s, EvictedLeaves
  <2>7. gone \in SUBSET DOMAIN szs BY <2>2, <2>3, <2>6
  <2> HIDE DEF gone
  <2>t. bytes' = sum - Redis!SizesOf(szs, gone)
    <3>1. bytes' = old + v - Redis!SizesOf(szs, gone) BY <2>1, Zenon
    <3>2. Redis!SizesOf(szs, gone) \in Nat BY <2>2, <2>7, IndexLoses, Zenon
    <3> QED BY <1>1, <1>o, <2>b, <3>1, <3>2
  <2>8. /\ Index(sizes', bytes') /\ DOMAIN sizes' = kept
        /\ \A x \in kept : sizes'[x] = szs[x]
    <3>1. /\ Index(Redis!Restrict(szs, kept), sum - Redis!SizesOf(szs, gone))
          /\ DOMAIN Redis!Restrict(szs, kept) = kept
          /\ \A x \in kept : Redis!Restrict(szs, kept)[x] = szs[x]
      <4>1. Index(szs, sum) BY <2>2
      <4>2. Index(Redis!Restrict(szs, DOMAIN szs \ gone), sum - Redis!SizesOf(szs, gone))
        BY <4>1, <2>7, IndexLoses, Zenon
      <4> QED BY <4>2 DEF Redis!Restrict
    <3> QED BY <2>1, <2>t, <3>1, Zenon
  <2>9. DOMAIN lru' = kept BY <2>1, <2>2, <2>3 DEF Redis!Restrict
  <2>10. /\ DOMAIN held' = DOMAIN all \ gone
         /\ \A x \in DOMAIN all \ gone : held'[x] = all[x]
    BY <2>1 DEF Redis!Restrict
  <2>11. ~ Redis!Over(Cardinality(kept), bytes')
    <3>1. CASE kept = {}
      <4>1. bytes' = 0 BY <2>8, <3>1, PartStep DEF Index
      <4>2. Cardinality(kept) = 0 BY <3>1, FS_EmptySet
      <4> QED BY <4>1, <4>2, StoreAssumption DEF Redis!Over
    <3>2. CASE kept # {}
      <4>1. DOMAIN z \ gone = kept BY <2>2, <2>3
      <4>2. ~ Redis!Over(Redis!Cardinality(kept), sum - Redis!SizesOf(szs, gone))
        <5>1. \/ DOMAIN z \ gone = {}
              \/ ~ Redis!Over(Redis!Cardinality(DOMAIN z \ gone), sum - Redis!SizesOf(szs, gone))
          BY <2>6 DEF Redis!StopsAt
        <5> QED BY <3>2, <4>1, <5>1
      <4> QED BY <2>t, <4>2, RedisCardinality, Zenon
    <3> QED BY <3>1, <3>2
  <2>12. \A x \in DOMAIN held' : held'[x].size = sizes'[x] /\ held'[x].made \in Nat /\ held'[x].made >= x
    <3> TAKE x \in DOMAIN held'
    <3>1. x \in DOMAIN all /\ x \notin gone /\ held'[x] = all[x] BY <2>10
    <3>2. x \in kept /\ sizes'[x] = szs[x] BY <1>0, <2>2, <2>4, <2>8, <3>1
    <3>3. CASE x = k BY <1>1, <2>2, <2>4, <3>1, <3>2, <3>3
    <3>4. CASE x # k
      <4>1. x \in DOMAIN held /\ all[x] = held[x] /\ szs[x] = sizes[x] BY <1>0, <2>2, <2>4, <3>1, <3>4
      <4> QED BY <1>0, <3>1, <3>2, <4>1
    <3> QED BY <3>3, <3>4
  <2>13. DOMAIN held' \in SUBSET DOMAIN sizes' BY <1>0, <2>2, <2>4, <2>8, <2>10
  <2>14. DOMAIN sizes' = kept /\ DOMAIN lru' = DOMAIN sizes' /\ clock' \in Nat BY <1>0, <2>1, <2>8, <2>9
  <2>15. Index(sizes', bytes') /\ ~ Redis!Over(Cardinality(DOMAIN sizes'), bytes') BY <2>8, <2>11, <2>14
  <2> QED BY <1>0, <1>2, <2>12, <2>13, <2>14, <2>15 DEF SharedInv
<1> QED BY <1>3, <1>4

LEMMA SharedKeeps == SharedInv /\ Redis!Next => SharedInv'
<1> SUFFICES ASSUME SharedInv, Redis!Next PROVE SharedInv' OBVIOUS
<1>0. cleared \in Nat BY DEF SharedInv
<1>1. ASSUME NEW k \in 0 .. generation, NEW v \in SharedValues, Redis!Set(k, v), cleared # 0 PROVE SharedInv'
  BY <1>0, <1>1 DEF Redis!Set, Redis!history, SharedInv
<1>2. ASSUME Redis!Lookup PROVE SharedInv'
  <2>1. cleared' = cleared /\ scan' = scan /\ generation' = generation /\ incs' = incs /\ held' = held
    BY <1>2 DEF Redis!Lookup
  <2>2. CASE cleared # 0 BY <1>0, <2>1, <2>2 DEF SharedInv
  <2>3. CASE cleared = 0 /\ generation \in DOMAIN held
    <3>1. /\ hit' = incs - held[generation].made /\ clock' = clock + 1
          /\ lru' = IF generation \in DOMAIN lru THEN Redis!With(lru, generation, clock + 1) ELSE lru
          /\ sizes' = sizes /\ bytes' = bytes
      BY <1>2, <2>3 DEF Redis!Lookup
    <3>2. DOMAIN lru' = DOMAIN lru BY <3>1 DEF Redis!With
    <3>3. hit' \in Int /\ hit' <= 0 /\ clock' \in Nat BY <2>3, <3>1 DEF SharedInv
    <3> QED BY <2>1, <2>3, <3>1, <3>2, <3>3 DEF SharedInv
  <2>4. CASE cleared = 0 /\ generation \notin DOMAIN held
    <3>1. /\ hit' = -1 /\ clock' = clock
          /\ lru' = Redis!Drop(lru, generation) /\ sizes' = Redis!Drop(sizes, generation)
          /\ bytes' = bytes - Redis!SizeIn(sizes, generation)
      BY <1>2, <2>4 DEF Redis!Lookup, Redis!Missed
    <3>2. DOMAIN lru' = DOMAIN lru \ {generation} BY <3>1 DEF Redis!Drop, Redis!Restrict
    <3>3. Index(sizes, bytes) /\ ~ Redis!Over(Cardinality(DOMAIN sizes), bytes) BY <2>4 DEF SharedInv
    <3>4. /\ Index(sizes', bytes') /\ DOMAIN sizes' = DOMAIN sizes \ {generation}
          /\ \A x \in DOMAIN sizes \ {generation} : sizes'[x] = sizes[x]
          /\ ~ Redis!Over(Cardinality(DOMAIN sizes \ {generation}), bytes')
      BY <3>1, <3>3, IndexDrops
    <3> QED BY <2>1, <2>4, <3>1, <3>2, <3>4 DEF SharedInv
  <2> QED BY <2>2, <2>3, <2>4
<1>3. ASSUME Redis!Invalidate PROVE SharedInv'
  BY <1>3 DEF Redis!Invalidate, Redis!index, SharedInv
<1>4. ASSUME Redis!Expire PROVE SharedInv'
  <2>1. PICK k \in DOMAIN held : held' = Redis!Drop(held, k) BY <1>4, Zenon DEF Redis!Expire
  <2>2. /\ lru' = lru /\ sizes' = sizes /\ bytes' = bytes /\ clock' = clock /\ generation' = generation
        /\ incs' = incs /\ hit' = hit /\ scan' = scan /\ cleared' = cleared
    BY <1>4 DEF Redis!Expire, Redis!index, Redis!history
  <2>3. DOMAIN held' = DOMAIN held \ {k} /\ \A x \in DOMAIN held \ {k} : held'[x] = held[x]
    BY <2>1 DEF Redis!Drop, Redis!Restrict
  <2> QED BY <2>2, <2>3 DEF SharedInv
<1>5. ASSUME Redis!StartClear PROVE SharedInv'
  <2>1. cleared' = cleared + 1 BY <1>5, Zenon DEF Redis!StartClear
  <2> QED BY <1>0, <2>1 DEF SharedInv
<1>6. ASSUME Redis!DeletePage PROVE SharedInv'
  <2>1. cleared' = cleared /\ scan # {} BY <1>6 DEF Redis!DeletePage
  <2> QED BY <2>1 DEF SharedInv
<1> QED BY <1>1, <1>2, <1>3, <1>4, <1>5, <1>6, SharedSet, Zenon DEF Redis!Next

-------------------------------------------------------------------------------
(* The in-process store *)

HeldEntries == [key : CacheKeys, value : Nat, expires : Nat]
ValuesOf(s) == [i \in DOMAIN s |-> s[i].value]

LEMMA BytesArePart ==
  ASSUME NEW s
  PROVE  Memory!BytesOf(s) = Part(ValuesOf(s), DOMAIN s)
<1>1. Memory!BytesOf(s) = Memory!Total(ValuesOf(s)) BY Zenon DEF Memory!BytesOf, ValuesOf
<1>2. ValuesOf(s) = [i \in DOMAIN s |-> ValuesOf(s)[i]] BY DEF ValuesOf
<1> QED BY <1>1, <1>2, TotalIsPart, Zenon

LEMMA ValuesType ==
  ASSUME NEW s \in Seq(HeldEntries)
  PROVE  /\ DOMAIN s = 1 .. Len(s) /\ Len(s) \in Nat /\ IsFiniteSet(1 .. Len(s))
         /\ \A i \in 1 .. Len(s) : ValuesOf(s)[i] = s[i].value /\ ValuesOf(s)[i] \in Nat /\ s[i] \in HeldEntries
<1>1. DOMAIN s = 1 .. Len(s) /\ Len(s) \in Nat OBVIOUS
<1>2. IsFiniteSet(1 .. Len(s)) BY <1>1, FS_Interval
<1>3. \A i \in 1 .. Len(s) : s[i] \in HeldEntries OBVIOUS
<1>4. \A i \in 1 .. Len(s) : ValuesOf(s)[i] = s[i].value BY <1>1 DEF ValuesOf
<1> QED BY <1>1, <1>2, <1>3, <1>4 DEF HeldEntries

LEMMA BytesType ==
  ASSUME NEW s \in Seq(HeldEntries)
  PROVE  Memory!BytesOf(s) \in Nat
<1> DEFINE f == ValuesOf(s)  D == 1 .. Len(s)
<1>1. DOMAIN s = D /\ IsFiniteSet(D) /\ \A x \in D : f[x] \in Nat BY ValuesType
<1>2. Memory!BytesOf(s) = Part(f, D) BY <1>1, BytesArePart
<1> HIDE DEF f, D
<1> QED BY <1>1, <1>2, PartShrinks

LEMMA BytesOfNone == Memory!BytesOf(<<>>) = 0
<1>1. DOMAIN <<>> = {} OBVIOUS
<1> QED BY <1>1, BytesArePart, FS_EmptySet, PartStep

LEMMA BytesAppended ==
  ASSUME NEW s \in Seq(HeldEntries), NEW e \in HeldEntries
  PROVE  Memory!BytesOf(Append(s, e)) = Memory!BytesOf(s) + e.value
<1> DEFINE t == Append(s, e)  n == Len(s) + 1
           f == ValuesOf(s)  g == ValuesOf(t)  D == 1 .. Len(s)  E == 1 .. n
<1>1. t \in Seq(HeldEntries) /\ Len(t) = n /\ t[n] = e /\ \A i \in D : t[i] = s[i] OBVIOUS
<1>2. DOMAIN s = D /\ \A x \in D : f[x] = s[x].value BY ValuesType
<1>3. DOMAIN t = E /\ IsFiniteSet(E) /\ \A x \in E : g[x] = t[x].value /\ g[x] \in Nat BY <1>1, ValuesType
<1>4. E \ {n} = D /\ n \in E /\ \A x \in D : x \in E
  <2>1. Len(s) \in Nat OBVIOUS
  <2> QED BY <2>1
<1>5. Memory!BytesOf(t) = Part(g, E) /\ Memory!BytesOf(s) = Part(f, D) BY <1>2, <1>3, BytesArePart
<1> HIDE DEF t, n, f, g, D, E
<1>6. Part(g, E) = g[n] + Part(g, E \ {n})
  <2>1. \A T \in SUBSET E : Part(g, T) \in Nat /\ \A x \in T : Part(g, T) = g[x] + Part(g, T \ {x})
    BY <1>3, PartPulls
  <2> QED BY <1>4, <2>1
<1>7. Part(g, D) = Part(f, D) BY <1>1, <1>2, <1>3, <1>4, PartsAlike
<1>8. g[n] = e.value /\ Part(g, D) \in Nat
  <2>1. g[n] = e.value BY <1>1, <1>3, <1>4
  <2>2. D \in SUBSET E BY <1>4
  <2>3. Part(g, D) \in Nat BY <1>3, <2>2, PartShrinks
  <2> QED BY <2>1, <2>3
<1>9. e.value \in Nat BY DEF HeldEntries
<1>10. Memory!BytesOf(t) = e.value + Memory!BytesOf(s) BY <1>4, <1>5, <1>6, <1>7, <1>8
<1>11. Memory!BytesOf(t) = Memory!BytesOf(s) + e.value BY <1>5, <1>7, <1>8, <1>9, <1>10
<1> QED BY <1>11 DEF t

LEMMA Removed ==
  ASSUME NEW s \in Seq(HeldEntries), NEW p \in 1 .. Len(s)
  PROVE  /\ Memory!RemoveAt(s, p) \in Seq(HeldEntries) /\ Len(Memory!RemoveAt(s, p)) = Len(s) - 1
         /\ \A i \in 1 .. Len(s) - 1 : Memory!RemoveAt(s, p)[i] = IF i < p THEN s[i] ELSE s[i + 1]
<1> DEFINE a == SubSeq(s, 1, p - 1)  b == SubSeq(s, p + 1, Len(s))
<1>1. /\ a \in Seq(HeldEntries) /\ Len(a) = p - 1 /\ \A i \in 1 .. p - 1 : a[i] = s[i]
      /\ b \in Seq(HeldEntries) /\ Len(b) = Len(s) - p /\ \A i \in 1 .. Len(s) - p : b[i] = s[i + p]
  OBVIOUS
<1>2. Memory!RemoveAt(s, p) = a \o b BY Zenon DEF Memory!RemoveAt
<1> HIDE DEF a, b
<1>3. /\ a \o b \in Seq(HeldEntries) /\ Len(a \o b) = Len(a) + Len(b)
      /\ \A i \in 1 .. Len(a) + Len(b) : (a \o b)[i] = IF i <= Len(a) THEN a[i] ELSE b[i - Len(a)]
  BY <1>1, ConcatProperties
<1>4. ASSUME NEW i \in 1 .. Len(s) - 1 PROVE (a \o b)[i] = IF i < p THEN s[i] ELSE s[i + 1]
  <2>1. CASE i < p BY <1>1, <1>3, <2>1
  <2>2. CASE ~ (i < p)
    <3>1. (a \o b)[i] = b[i - (p - 1)] BY <1>1, <1>3, <2>2
    <3>2. i - (p - 1) \in 1 .. Len(s) - p /\ i - (p - 1) + p = i + 1 BY <2>2
    <3>3. b[i - (p - 1)] = s[i + 1] BY <1>1, <3>2
    <3> QED BY <2>2, <3>1, <3>3
  <2> QED BY <2>1, <2>2
<1>5. Len(a \o b) = Len(s) - 1 BY <1>1, <1>3
<1> QED BY <1>2, <1>3, <1>4, <1>5

LEMMA BytesRemoved ==
  ASSUME NEW s \in Seq(HeldEntries), NEW p \in 1 .. Len(s)
  PROVE  Memory!BytesOf(Memory!RemoveAt(s, p)) = Memory!BytesOf(s) - s[p].value
<1> DEFINE t == Memory!RemoveAt(s, p)  n == Len(s)
           f == ValuesOf(s)  g == ValuesOf(t)  D == 1 .. n  E == 1 .. n - 1  R == D \ {p}
           b == [i \in R |-> IF i < p THEN i ELSE i - 1]
<1>1. /\ t \in Seq(HeldEntries) /\ Len(t) = n - 1
      /\ \A i \in E : t[i] = IF i < p THEN s[i] ELSE s[i + 1]
  BY Removed
<1>2. n \in Nat /\ DOMAIN s = D /\ IsFiniteSet(D) /\ \A x \in D : f[x] = s[x].value /\ f[x] \in Nat BY ValuesType
<1>3. DOMAIN t = E /\ IsFiniteSet(E) /\ \A x \in E : g[x] = t[x].value /\ g[x] \in Nat BY <1>1, ValuesType
<1>4. b \in [R -> E] /\ (\A x, y \in R : b[x] = b[y] => x = y) BY <1>2
<1>5. \A y \in E : \E x \in R : y = b[x]
  <2> TAKE y \in E
  <2>1. CASE y < p
    <3>1. y \in R /\ b[y] = y BY <1>2, <2>1
    <3> QED BY <3>1
  <2>2. CASE ~ (y < p)
    <3>1. y + 1 \in R /\ b[y + 1] = y BY <1>2, <2>2
    <3> QED BY <3>1
  <2> QED BY <2>1, <2>2
<1>6. \A x \in R : g[b[x]] = f[x]
  <2> TAKE x \in R
  <2>1. b[x] \in E /\ x \in D BY <1>4
  <2>2. t[b[x]] = s[x]
    <3>1. CASE x < p BY <1>1, <1>2, <2>1, <3>1
    <3>2. CASE ~ (x < p)
      <4>1. b[x] = x - 1 /\ ~ (x - 1 < p) /\ x - 1 + 1 = x BY <1>2, <3>2
      <4> QED BY <1>1, <2>1, <4>1
    <3> QED BY <3>1, <3>2
  <2>3. g[b[x]] = t[b[x]].value /\ f[x] = s[x].value
    <3> HIDE DEF b
    <3> QED BY <1>2, <1>3, <2>1
  <2> QED BY <2>2, <2>3
<1>7. Memory!BytesOf(t) = Part(g, E) /\ Memory!BytesOf(s) = Part(f, D) BY <1>2, <1>3, BytesArePart
<1>8. R \in SUBSET D /\ p \in D /\ IsFiniteSet(R) BY <1>2, FS_Subset
<1>9. Part(f, D) = f[p] + Part(f, R) /\ Part(f, R) \in Nat
  <2>1. \A T \in SUBSET D : Part(f, T) \in Nat /\ \A x \in T : Part(f, T) = f[x] + Part(f, T \ {x})
    <3> HIDE DEF f, D
    <3> QED BY <1>2, PartPulls
  <2> QED BY <1>8, <2>1
<1>10. Part(f, R) = Part(g, E)
  <2>1. \A x \in R : f[x] \in Nat BY <1>2
  <2>2. \A x \in E : g[x] \in Nat BY <1>3
  <2>3. IsFiniteSet(R) /\ IsFiniteSet(E) BY <1>3, <1>8
  <2>4. b \in [R -> E] BY <1>4
  <2>5. \A x, y \in R : b[x] = b[y] => x = y BY <1>4
  <2> HIDE DEF f, g, b, D, E, R, t, n
  <2> QED BY <1>5, <1>6, <2>1, <2>2, <2>3, <2>4, <2>5, PartMoves
<1>11. f[p] = s[p].value /\ f[p] \in Nat BY <1>2, <1>8
<1> HIDE DEF f, g, D, E, R, t
<1>12. Memory!BytesOf(t) = Memory!BytesOf(s) - s[p].value BY <1>7, <1>9, <1>10, <1>11
<1> QED BY <1>12 DEF t

LEMMA BytesOfRest ==
  ASSUME NEW s \in Seq(HeldEntries), NEW n \in 0 .. Len(s)
  PROVE  Memory!BytesOf(s) = Memory!BytesOf(SubSeq(s, 1, n)) + Memory!BytesOf(SubSeq(s, n + 1, Len(s)))
<1> DEFINE u == SubSeq(s, 1, n)  v == SubSeq(s, n + 1, Len(s))  N == Len(s)
           f == ValuesOf(s)  g == ValuesOf(u)  h == ValuesOf(v)
           D == 1 .. N  A == 1 .. n  B == 1 .. N - n  R == D \ A
           b == [i \in R |-> i - n]
<1>1. /\ u \in Seq(HeldEntries) /\ Len(u) = n /\ \A i \in A : u[i] = s[i]
      /\ v \in Seq(HeldEntries) /\ Len(v) = N - n /\ \A i \in B : v[i] = s[i + n]
  OBVIOUS
<1>2. N \in Nat /\ DOMAIN s = D /\ IsFiniteSet(D) /\ \A x \in D : f[x] = s[x].value /\ f[x] \in Nat BY ValuesType
<1>3. DOMAIN u = A /\ \A x \in A : g[x] = u[x].value /\ g[x] \in Nat BY <1>1, ValuesType
<1>4. DOMAIN v = B /\ IsFiniteSet(B) /\ \A x \in B : h[x] = v[x].value /\ h[x] \in Nat BY <1>1, ValuesType
<1>5. /\ Memory!BytesOf(s) = Part(f, D) /\ Memory!BytesOf(u) = Part(g, A)
      /\ Memory!BytesOf(v) = Part(h, B)
  BY <1>2, <1>3, <1>4, BytesArePart
<1>6. A \in SUBSET D /\ R \in SUBSET D /\ \A i \in R : i - n \in B /\ i - n + n = i BY <1>2
<1>7. Part(g, A) = Part(f, A)
  <2>1. \A x \in A : g[x] = f[x] BY <1>1, <1>2, <1>3, <1>6
  <2> QED BY <2>1, PartsAlike
<1>8. b \in [R -> B] /\ (\A x, y \in R : b[x] = b[y] => x = y) BY <1>2, <1>6
<1>9. \A y \in B : \E x \in R : y = b[x]
  <2> TAKE y \in B
  <2>1. y + n \in R /\ b[y + n] = y BY <1>2
  <2> QED BY <2>1
<1>10. \A x \in R : h[b[x]] = f[x]
  <2> TAKE x \in R
  <2>1. x - n \in B /\ x - n + n = x /\ b[x] = x - n /\ x \in D BY <1>6
  <2>2. v[x - n] = s[x] BY <1>1, <2>1
  <2>3. h[x - n] = v[x - n].value BY <1>4, <2>1
  <2>4. f[x] = s[x].value BY <1>2, <2>1
  <2> QED BY <2>1, <2>2, <2>3, <2>4
<1>11. IsFiniteSet(R) BY <1>2, <1>6, FS_Subset
<1>12. Part(f, R) = Part(h, B)
  <2>1. \A x \in R : f[x] \in Nat BY <1>2
  <2>2. \A x \in B : h[x] \in Nat BY <1>4
  <2> HIDE DEF f, h, b, D, B, R
  <2> QED BY <1>4, <1>8, <1>9, <1>10, <1>11, <2>1, <2>2, PartMoves
<1>13. Part(f, D) = Part(f, A) + Part(f, D \ A)
  <2> HIDE DEF f, D, A
  <2> QED BY <1>2, <1>6, PartSplits
<1> QED BY <1>5, <1>7, <1>12, <1>13

(* What is left of a sequence, in its order. *)
Thins(w, s) ==
  /\ \A i \in DOMAIN w : \E a \in DOMAIN s : w[i] = s[a]
  /\ \A i, j \in DOMAIN w : i < j => \E a, b \in DOMAIN s : a < b /\ w[i] = s[a] /\ w[j] = s[b]

(* Each key once, in the order of last use, with the value last set. *)
Distinct(s) == \A i, j \in DOMAIN s : i < j => s[i].key # s[j].key
Ordered(s, u) == \A i, j \in DOMAIN s : i < j => <<s[i].key, s[j].key>> \in u
Latest(s, l) == \A i \in DOMAIN s : l[s[i].key] = [value |-> s[i].value, expires |-> s[i].expires]

LEMMA ThinsKeeps ==
  ASSUME NEW s, NEW w, NEW u, NEW l, Thins(w, s), Distinct(s), Ordered(s, u), Latest(s, l)
  PROVE  Distinct(w) /\ Ordered(w, u) /\ Latest(w, l)
BY DEF Thins, Distinct, Ordered, Latest

LEMMA ThinsRemoved ==
  ASSUME NEW s \in Seq(HeldEntries), NEW p \in 1 .. Len(s), Distinct(s)
  PROVE  /\ Thins(Memory!RemoveAt(s, p), s)
         /\ \A i \in DOMAIN Memory!RemoveAt(s, p) : Memory!RemoveAt(s, p)[i].key # s[p].key
<1> DEFINE w == Memory!RemoveAt(s, p)  E == 1 .. Len(s) - 1
<1>1. /\ w \in Seq(HeldEntries) /\ Len(w) = Len(s) - 1
      /\ \A i \in E : w[i] = IF i < p THEN s[i] ELSE s[i + 1]
  BY Removed
<1>2. DOMAIN w = E /\ DOMAIN s = 1 .. Len(s) /\ Len(s) \in Nat BY <1>1
<1> HIDE DEF w
<1>3. \A i \in E : IF i < p THEN i \in DOMAIN s /\ i # p /\ w[i] = s[i]
                            ELSE i + 1 \in DOMAIN s /\ i + 1 # p /\ w[i] = s[i + 1]
  BY <1>1, <1>2
<1>4. \A i \in DOMAIN w : \E a \in DOMAIN s : a # p /\ w[i] = s[a] BY <1>2, <1>3
<1>5. ASSUME NEW i \in E, NEW j \in E, i < j
      PROVE  \E a, b \in DOMAIN s : a < b /\ w[i] = s[a] /\ w[j] = s[b]
  <2>1. CASE j < p
    <3>1. i < p BY <1>2, <1>5, <2>1
    <3> QED BY <1>3, <1>5, <2>1, <3>1
  <2>2. CASE ~ (j < p) /\ i < p
    <3>1. i < j + 1 BY <1>2, <1>5
    <3> QED BY <1>3, <2>2, <3>1
  <2>3. CASE ~ (j < p) /\ ~ (i < p)
    <3>1. i + 1 < j + 1 BY <1>2, <1>5
    <3> QED BY <1>3, <2>3, <3>1
  <2> QED BY <2>1, <2>2, <2>3
<1>6. Thins(w, s)
  <2>1. \A i \in DOMAIN w : \E a \in DOMAIN s : w[i] = s[a] BY <1>4
  <2> HIDE DEF E
  <2>2. \A i, j \in DOMAIN w : i < j => \E a, b \in DOMAIN s : a < b /\ w[i] = s[a] /\ w[j] = s[b]
    BY <1>2, <1>5
  <2> QED BY <2>1, <2>2, Zenon DEF Thins
<1>7. \A a \in DOMAIN s : a # p => s[a].key # s[p].key BY <1>2 DEF Distinct
<1>8. \A i \in DOMAIN w : w[i].key # s[p].key BY <1>4, <1>7
<1> QED BY <1>6, <1>8 DEF w

LEMMA ThinsRest ==
  ASSUME NEW s \in Seq(HeldEntries), NEW n \in 0 .. Len(s)
  PROVE  /\ SubSeq(s, n + 1, Len(s)) \in Seq(HeldEntries) /\ Len(SubSeq(s, n + 1, Len(s))) = Len(s) - n
         /\ Thins(SubSeq(s, n + 1, Len(s)), s)
<1> DEFINE v == SubSeq(s, n + 1, Len(s))
<1>1. /\ v \in Seq(HeldEntries) /\ Len(v) = Len(s) - n /\ Len(s) \in Nat
      /\ \A i \in 1 .. Len(s) - n : v[i] = s[i + n]
  OBVIOUS
<1>2. DOMAIN v = 1 .. Len(s) - n /\ DOMAIN s = 1 .. Len(s) BY <1>1
<1> HIDE DEF v
<1>3. \A i \in DOMAIN v : i + n \in DOMAIN s /\ v[i] = s[i + n] BY <1>1, <1>2
<1>4. \A i, j \in DOMAIN v : i < j => i + n < j + n BY <1>1, <1>2
<1>5. Thins(v, s) BY <1>3, <1>4 DEF Thins
<1> QED BY <1>1, <1>5 DEF v

LEMMA AppendKeeps ==
  ASSUME NEW s \in Seq(HeldEntries), NEW e \in HeldEntries, NEW u, NEW l,
         Distinct(s), Ordered(s, u), Latest(s, l), \A i \in DOMAIN s : s[i].key # e.key,
         l[e.key] = [value |-> e.value, expires |-> e.expires],
         \A k \in CacheKeys \ {e.key} : <<k, e.key>> \in u
  PROVE  /\ Append(s, e) \in Seq(HeldEntries) /\ Len(Append(s, e)) = Len(s) + 1
         /\ Distinct(Append(s, e)) /\ Ordered(Append(s, e), u) /\ Latest(Append(s, e), l)
<1> DEFINE t == Append(s, e)  n == Len(s) + 1
<1>1. /\ t \in Seq(HeldEntries) /\ Len(t) = n /\ t[n] = e /\ Len(s) \in Nat
      /\ \A i \in 1 .. Len(s) : t[i] = s[i] /\ s[i] \in HeldEntries
  OBVIOUS
<1>2. DOMAIN t = 1 .. n /\ DOMAIN s = 1 .. Len(s) BY <1>1
<1>3. \A i \in 1 .. n : i = n \/ i \in 1 .. Len(s) BY <1>1
<1> HIDE DEF t
<1>4. ASSUME NEW i \in 1 .. n, NEW j \in 1 .. n, i < j
      PROVE  t[i].key # t[j].key /\ <<t[i].key, t[j].key>> \in u
  <2>1. i \in 1 .. Len(s) BY <1>1, <1>4
  <2>2. CASE j = n
    <3>1. t[i] = s[i] /\ t[j] = e /\ s[i].key # e.key BY <1>1, <1>2, <2>1, <2>2
    <3>2. s[i].key \in CacheKeys BY <1>1, <2>1 DEF HeldEntries
    <3> QED BY <3>1, <3>2
  <2>3. CASE j \in 1 .. Len(s)
    <3>1. t[i] = s[i] /\ t[j] = s[j] BY <1>1, <2>1, <2>3
    <3> QED BY <1>2, <1>4, <2>1, <2>3, <3>1 DEF Distinct, Ordered
  <2> QED BY <1>3, <2>2, <2>3
<1>5. \A i \in 1 .. n : l[t[i].key] = [value |-> t[i].value, expires |-> t[i].expires]
  BY <1>1, <1>2, <1>3 DEF Latest
<1>6. Distinct(t) /\ Ordered(t, u) /\ Latest(t, l) BY <1>2, <1>4, <1>5 DEF Distinct, Ordered, Latest
<1> QED BY <1>1, <1>6 DEF t

(* The least number. *)
LEMMA LeastNumber ==
  ASSUME NEW S \in SUBSET Nat, S # {}
  PROVE  \E n \in S : \A k \in S : ~ (k < n)
<1> DEFINE R == {p \in Nat \X Nat : p[1] < p[2]}
<1>1. OpToRel(<, Nat) = R BY Zenon DEF OpToRel
<1>2. IsWellFoundedOn(R, Nat) BY <1>1, NatLessThanWellFounded, Zenon
<1> HIDE DEF R
<1>3. PICK n \in S : \A k \in S : <<k, n>> \notin R BY <1>2, WFMin
<1>4. \A k \in S : k < n => <<k, n>> \in R BY DEF R
<1> QED BY <1>3, <1>4

(* The loop of set stops, and where it does the rest is within the limits. *)
LEMMA EvictionsEnd ==
  ASSUME NEW s \in Seq(HeldEntries)
  PROVE  LET n == Memory!Evictions(s)  v == SubSeq(s, n + 1, Len(s))
         IN  n \in 0 .. Len(s) /\ ~ Memory!Overfull(v, Memory!BytesOf(v))
<1> DEFINE Rest(n) == SubSeq(s, n + 1, Len(s))
           Full(n) == Memory!Overfull(Rest(n), Memory!BytesOf(Rest(n)))
           Stops(n) == n = Len(s) \/ ~ Full(n)
           First(n) == /\ Stops(n)
                       /\ \A m \in 0 .. n - 1 : Full(m)
           S == {n \in 0 .. Len(s) : Stops(n)}
<1>0. Len(s) \in Nat OBVIOUS
<1>1. S \in SUBSET Nat /\ Len(s) \in S BY <1>0
<1>2. PICK n \in S : \A k \in S : ~ (k < n)
  <2> HIDE DEF S
  <2> QED BY <1>1, LeastNumber
<1>3. n \in 0 .. Len(s) /\ First(n)
  <2>1. n \in 0 .. Len(s) /\ Stops(n) OBVIOUS
  <2>2. ASSUME NEW m \in 0 .. n - 1 PROVE Full(m)
    <3>1. m \in 0 .. Len(s) /\ m < n /\ m # Len(s) BY <1>0, <2>1
    <3>2. m \notin S BY <1>2, <3>1
    <3> HIDE DEF Full
    <3> QED BY <3>1, <3>2
  <2> QED BY <2>1, <2>2
<1>4. Memory!Evictions(s) = CHOOSE k \in 0 .. Len(s) : First(k) BY Zenon DEF Memory!Evictions
<1> HIDE DEF First
<1>5. Memory!Evictions(s) \in 0 .. Len(s) /\ First(Memory!Evictions(s)) BY <1>3, <1>4, Zenon
<1> DEFINE k == Memory!Evictions(s)
<1>6. Stops(k) BY <1>5, Zenon DEF First
<1> HIDE DEF k
<1>7. ASSUME k = Len(s) PROVE ~ Full(k)
  <2>1. Rest(k) = <<>> BY <1>0, <1>7
  <2>2. Len(Rest(k)) = 0 /\ Memory!BytesOf(Rest(k)) = 0 BY <2>1, BytesOfNone
  <2>3. \A es : Len(es) = 0 => ~ Memory!Overfull(es, 0) BY StoreAssumption DEF Memory!Overfull
  <2> HIDE DEF Rest
  <2> QED BY <2>2, <2>3, Zenon
<1>8. ~ Full(k) BY <1>6, <1>7
<1> QED BY <1>5, <1>8 DEF k

(* The Map holds each key once, in the order of last use, with what was   *)
(* last set, and the byte total is of what it holds.                       *)
LocalInv ==
  /\ now \in Nat /\ held \in Seq(HeldEntries) /\ DOMAIN latest = CacheKeys
  /\ Distinct(held) /\ Ordered(held, used) /\ Latest(held, latest)
  /\ bytes = Memory!BytesOf(held) /\ ~ Memory!Overfull(held, bytes)

LEMMA PlaceIs ==
  ASSUME LocalInv, NEW k
  PROVE  /\ k \in Memory!Held =>
              /\ Memory!PlaceOf(k) \in 1 .. Len(held) /\ Memory!EntryOf(k) = held[Memory!PlaceOf(k)]
              /\ Memory!EntryOf(k) \in HeldEntries /\ Memory!EntryOf(k).key = k
         /\ k \notin Memory!Held => \A i \in DOMAIN held : held[i].key # k
<1>1. held \in Seq(HeldEntries) /\ DOMAIN held = 1 .. Len(held) BY DEF LocalInv
<1>2. CASE k \in Memory!Held
  <2>1. \E i \in DOMAIN held : held[i].key = k BY <1>2 DEF Memory!Held
  <2>2. Memory!PlaceOf(k) \in DOMAIN held /\ held[Memory!PlaceOf(k)].key = k
    BY <2>1, Zenon DEF Memory!PlaceOf
  <2>3. Memory!EntryOf(k) = held[Memory!PlaceOf(k)] BY DEF Memory!EntryOf
  <2>4. held[Memory!PlaceOf(k)] \in HeldEntries BY <1>1, <2>2
  <2> QED BY <1>1, <1>2, <2>2, <2>3, <2>4
<1>3. CASE k \notin Memory!Held BY <1>3 DEF Memory!Held
<1> QED BY <1>2, <1>3

LEMMA LocalAccounts ==
  LocalInv => /\ Memory!WithinLimits /\ Memory!BytesAddUp /\ Memory!LeastRecentlyUsedFirst
              /\ Memory!HoldsTheLatest
<1> SUFFICES ASSUME LocalInv
             PROVE  /\ Memory!WithinLimits /\ Memory!BytesAddUp /\ Memory!LeastRecentlyUsedFirst
                    /\ Memory!HoldsTheLatest
  OBVIOUS
<1>1. Memory!WithinLimits BY DEF LocalInv, Memory!WithinLimits
<1>2. Memory!BytesAddUp BY DEF LocalInv, Memory!BytesAddUp
<1>3. Memory!LeastRecentlyUsedFirst BY DEF LocalInv, Ordered, Memory!LeastRecentlyUsedFirst
<1>4. ASSUME NEW k \in Memory!Held
      PROVE  latest[k] = [value |-> Memory!EntryOf(k).value, expires |-> Memory!EntryOf(k).expires]
  <2>1. /\ Memory!PlaceOf(k) \in DOMAIN held /\ Memory!EntryOf(k) = held[Memory!PlaceOf(k)]
        /\ Memory!EntryOf(k).key = k
    <3>1. DOMAIN held = 1 .. Len(held) BY DEF LocalInv
    <3> QED BY <1>4, <3>1, PlaceIs
  <2> QED BY <2>1 DEF LocalInv, Latest
<1>5. Memory!HoldsTheLatest BY <1>4 DEF Memory!HoldsTheLatest
<1> QED BY <1>1, <1>2, <1>3, <1>5

LEMMA LocalStarts == Memory!Init => LocalInv
<1> SUFFICES ASSUME Memory!Init PROVE LocalInv OBVIOUS
<1>1. held = <<>> /\ bytes = 0 /\ now = 0 /\ latest = [k \in CacheKeys |-> Nothing] BY DEF Memory!Init
<1>2. held \in Seq(HeldEntries) /\ DOMAIN held = {} /\ Len(held) = 0 BY <1>1
<1>3. Distinct(held) /\ Ordered(held, used) /\ Latest(held, latest) BY <1>2 DEF Distinct, Ordered, Latest
<1>4. bytes = Memory!BytesOf(held) BY <1>1, BytesOfNone
<1>5. ~ Memory!Overfull(held, bytes) BY <1>1, <1>2, StoreAssumption DEF Memory!Overfull
<1>6. DOMAIN latest = CacheKeys /\ now \in Nat BY <1>1
<1> QED BY <1>2, <1>3, <1>4, <1>5, <1>6 DEF LocalInv

(* The Map without a key, as delete() leaves it. *)
Freed(k) == IF k \in Memory!Held THEN bytes - Memory!EntryOf(k).value ELSE bytes

LEMMA WithoutKeeps ==
  ASSUME LocalInv, NEW k
  PROVE  LET w == Memory!Without(k)
         IN  /\ w \in Seq(HeldEntries) /\ Freed(k) = Memory!BytesOf(w)
             /\ Len(w) = IF k \in Memory!Held THEN Len(held) - 1 ELSE Len(held)
             /\ Distinct(w) /\ Ordered(w, used) /\ Latest(w, latest)
             /\ \A i \in DOMAIN w : w[i].key # k
             /\ ~ Memory!Overfull(w, Freed(k))
<1> DEFINE w == Memory!Without(k)
<1>0. /\ held \in Seq(HeldEntries) /\ bytes = Memory!BytesOf(held) /\ ~ Memory!Overfull(held, bytes)
      /\ Distinct(held) /\ Ordered(held, used) /\ Latest(held, latest) /\ Len(held) \in Nat
  BY DEF LocalInv
<1>1. CASE k \notin Memory!Held
  <2>1. w = held BY <1>1 DEF Memory!Without
  <2>2. Freed(k) = bytes BY <1>1 DEF Freed
  <2>3. \A i \in DOMAIN held : held[i].key # k BY <1>1, PlaceIs
  <2> QED BY <1>0, <1>1, <2>1, <2>2, <2>3, Zenon
<1>2. CASE k \in Memory!Held
  <2> DEFINE p == Memory!PlaceOf(k)
  <2>1. p \in 1 .. Len(held) /\ Memory!EntryOf(k) = held[p] /\ held[p] \in HeldEntries /\ held[p].key = k
    BY <1>2, PlaceIs
  <2>2. w = Memory!RemoveAt(held, p) BY <1>2 DEF Memory!Without
  <2>3. Freed(k) = bytes - held[p].value BY <1>2, <2>1 DEF Freed
  <2> HIDE DEF p, w
  <2>4. w \in Seq(HeldEntries) /\ Len(w) = Len(held) - 1 BY <1>0, <2>1, <2>2, Removed
  <2>5. Thins(w, held) /\ \A i \in DOMAIN w : w[i].key # k BY <1>0, <2>1, <2>2, ThinsRemoved
  <2>6. Memory!BytesOf(w) = Freed(k) BY <1>0, <2>1, <2>2, <2>3, BytesRemoved
  <2>7. Distinct(w) /\ Ordered(w, used) /\ Latest(w, latest) BY <1>0, <2>5, ThinsKeeps
  <2>8. ~ Memory!Overfull(w, Freed(k))
    <3>1. bytes \in Nat /\ held[p].value \in Nat BY <1>0, <2>1, BytesType DEF HeldEntries
    <3>2. Freed(k) \in Int /\ Freed(k) <= bytes BY <2>3, <3>1
    <3> QED BY <1>0, <2>4, <3>1, <3>2, StoreAssumption DEF Memory!Overfull
  <2> QED BY <1>2, <2>4, <2>5, <2>6, <2>7, <2>8 DEF w
<1> QED BY <1>1, <1>2

(* What is appended is the last used, and holds what was last set. *)
LEMMA UseKeeps ==
  ASSUME NEW w \in Seq(HeldEntries), NEW e \in HeldEntries, NEW l,
         Distinct(w), Ordered(w, used), Latest(w, l), \A i \in DOMAIN w : w[i].key # e.key,
         l[e.key] = [value |-> e.value, expires |-> e.expires], Memory!Use(e.key)
  PROVE  /\ Append(w, e) \in Seq(HeldEntries) /\ Len(Append(w, e)) = Len(w) + 1
         /\ Distinct(Append(w, e)) /\ Ordered(Append(w, e), used') /\ Latest(Append(w, e), l)
<1> DEFINE u == {p \in used : p[1] # e.key} \cup {<<j, e.key>> : j \in CacheKeys \ {e.key}}
<1>1. used' = u BY Zenon DEF Memory!Use
<1>2. Ordered(w, u)
  <2>1. ASSUME NEW i \in DOMAIN w, NEW j \in DOMAIN w, i < j PROVE <<w[i].key, w[j].key>> \in u
    <3>1. <<w[i].key, w[j].key>> \in used BY <2>1 DEF Ordered
    <3>2. <<w[i].key, w[j].key>>[1] # e.key OBVIOUS
    <3> QED BY <3>1, <3>2
  <2> QED BY <2>1 DEF Ordered
<1>3. \A k \in CacheKeys \ {e.key} : <<k, e.key>> \in u OBVIOUS
<1> HIDE DEF u
<1> QED BY <1>1, <1>2, <1>3, AppendKeeps

LEMMA LocalGets ==
  ASSUME LocalInv, NEW k \in CacheKeys, Memory!Get(k)
  PROVE  LocalInv' /\ (reply' = Nothing \/ reply'.expires > now)
<1>1. now' = now /\ latest' = latest BY DEF Memory!Get
<1>0. now \in Nat /\ held \in Seq(HeldEntries) /\ Latest(held, latest) /\ bytes = Memory!BytesOf(held)
      /\ DOMAIN latest = CacheKeys /\ ~ Memory!Overfull(held, bytes)
  BY DEF LocalInv
<1> DEFINE w == Memory!Without(k)  e == Memory!EntryOf(k)
<1>2. /\ w \in Seq(HeldEntries) /\ Freed(k) = Memory!BytesOf(w)
      /\ Len(w) = IF k \in Memory!Held THEN Len(held) - 1 ELSE Len(held)
      /\ Distinct(w) /\ Ordered(w, used) /\ Latest(w, latest)
      /\ \A i \in DOMAIN w : w[i].key # k
      /\ ~ Memory!Overfull(w, Freed(k))
  BY WithoutKeeps, Zenon
<1>3. CASE Memory!Hit(k)
  <2>1. /\ k \in Memory!Held /\ e.expires > now /\ held' = Append(w, e) /\ reply' = e
        /\ Memory!Use(k) /\ bytes' = bytes
    BY <1>3, Zenon DEF Memory!Hit
  <2>2. e \in HeldEntries /\ e.key = k BY <2>1, PlaceIs
  <2>3. latest[k] = [value |-> e.value, expires |-> e.expires] BY <2>1, LocalAccounts DEF Memory!HoldsTheLatest
  <2>4. Freed(k) = bytes - e.value BY <2>1 DEF Freed
  <2> HIDE DEF w, e
  <2>5. /\ Append(w, e) \in Seq(HeldEntries) /\ Len(Append(w, e)) = Len(w) + 1
        /\ Distinct(Append(w, e)) /\ Ordered(Append(w, e), used') /\ Latest(Append(w, e), latest)
    BY <1>2, <2>1, <2>2, <2>3, UseKeeps
  <2>6. Memory!BytesOf(Append(w, e)) = Memory!BytesOf(w) + e.value BY <1>2, <2>2, BytesAppended
  <2>7. bytes' = Memory!BytesOf(held')
    <3>1. bytes \in Nat /\ e.value \in Nat BY <1>0, <2>2, BytesType DEF HeldEntries
    <3>2. Memory!BytesOf(held') = Memory!BytesOf(w) + e.value BY <2>1, <2>6, Zenon
    <3>3. Memory!BytesOf(w) = bytes - e.value BY <1>2, <2>4, Zenon
    <3>4. (bytes - e.value) + e.value = bytes BY <3>1
    <3> QED BY <2>1, <3>2, <3>3, <3>4, Zenon
  <2>8. Len(held') = Len(held) BY <1>0, <1>2, <2>1, <2>5
  <2>9. ~ Memory!Overfull(held', bytes') BY <1>0, <2>1, <2>8 DEF Memory!Overfull
  <2>10. LocalInv' BY <1>0, <1>1, <2>1, <2>5, <2>7, <2>9 DEF LocalInv
  <2> QED BY <2>1, <2>10
<1>4. CASE Memory!Miss(k)
  <2>1. held' = w /\ bytes' = Freed(k) /\ reply' = Nothing /\ used' = used
    BY <1>4, Zenon DEF Memory!Miss, Freed
  <2> HIDE DEF w
  <2>2. LocalInv' BY <1>0, <1>1, <1>2, <2>1 DEF LocalInv
  <2> QED BY <2>1, <2>2
<1> QED BY <1>3, <1>4 DEF Memory!Get

LEMMA LocalSets ==
  ASSUME LocalInv, NEW k \in CacheKeys, NEW v \in Values, NEW ttl \in TTLs, Memory!Set(k, v, ttl)
  PROVE  LocalInv'
<1> DEFINE w == Memory!Without(k)
           e == [key |-> k, value |-> v, expires |-> now + ttl]
           added == Append(w, e)
           n == Memory!Evictions(added)
           rest == SubSeq(added, n + 1, Len(added))
           first == SubSeq(added, 1, n)
           l == [latest EXCEPT ![k] = [value |-> v, expires |-> now + ttl]]
<1>0. now \in Nat /\ held \in Seq(HeldEntries) /\ bytes = Memory!BytesOf(held) /\ DOMAIN latest = CacheKeys
  BY DEF LocalInv
<1>1. now' = now /\ latest' = l BY Zenon DEF Memory!Set
<1>2. /\ w \in Seq(HeldEntries) /\ Freed(k) = Memory!BytesOf(w)
      /\ Distinct(w) /\ Ordered(w, used) /\ Latest(w, latest)
      /\ \A i \in DOMAIN w : w[i].key # k
      /\ ~ Memory!Overfull(w, Freed(k))
  BY WithoutKeeps, Zenon
<1>3. CASE Memory!TooBig(v)
        /\ held' = w /\ bytes' = Freed(k) /\ used' = used
  <2>1. Latest(w, latest')
    <3> HIDE DEF w
    <3>1. ASSUME NEW i \in DOMAIN w PROVE latest'[w[i].key] = latest[w[i].key]
      <4>1. w[i].key # k BY <1>2
      <4> QED BY <1>1, <4>1
    <3> QED BY <1>2, <3>1 DEF Latest
  <2>2. now' \in Nat /\ DOMAIN latest' = CacheKeys BY <1>0, <1>1
  <2> HIDE DEF w
  <2> QED BY <1>2, <1>3, <2>1, <2>2 DEF LocalInv
<1>4. CASE held' = rest /\ bytes' = Freed(k) + v - Memory!BytesOf(first) /\ Memory!Use(k)
  <2>1. e \in HeldEntries /\ e.key = k /\ e.value = v /\ v \in Nat
    BY <1>0, StoreAssumption DEF HeldEntries
  <2>2. l[k] = [value |-> e.value, expires |-> e.expires] /\ DOMAIN l = CacheKeys BY <1>0
  <2>3. \A j \in CacheKeys : j # k => l[j] = latest[j] BY <1>0
  <2> HIDE DEF e, w, l
  <2>4. Latest(w, l)
    <3>1. ASSUME NEW i \in DOMAIN w PROVE l[w[i].key] = latest[w[i].key]
      <4>1. w[i].key # k BY <1>2
      <4>2. w[i] \in HeldEntries BY <1>2
      <4>3. w[i].key \in CacheKeys BY <4>2 DEF HeldEntries
      <4> QED BY <2>3, <4>1, <4>3
    <3> QED BY <1>2, <3>1 DEF Latest
  <2>5. /\ added \in Seq(HeldEntries) /\ Distinct(added) /\ Ordered(added, used') /\ Latest(added, l)
    BY <1>2, <1>4, <2>1, <2>2, <2>4, UseKeeps
  <2>6. Memory!BytesOf(added) = Freed(k) + v BY <1>2, <2>1, BytesAppended
  <2> HIDE DEF added
  <2>7. n \in 0 .. Len(added) /\ ~ Memory!Overfull(rest, Memory!BytesOf(rest)) BY <2>5, EvictionsEnd
  <2> HIDE DEF n
  <2>8. rest \in Seq(HeldEntries) /\ Thins(rest, added) BY <2>5, <2>7, ThinsRest
  <2>9. Distinct(rest) /\ Ordered(rest, used') /\ Latest(rest, l) BY <2>5, <2>8, ThinsKeeps
  <2>10. Memory!BytesOf(added) = Memory!BytesOf(first) + Memory!BytesOf(rest) BY <2>5, <2>7, BytesOfRest
  <2>11. first \in Seq(HeldEntries) BY <2>5, <2>7
  <2> HIDE DEF rest, first
  <2>12. bytes' = Memory!BytesOf(rest)
    <3>1. Memory!BytesOf(first) \in Nat /\ Memory!BytesOf(rest) \in Nat BY <2>8, <2>11, BytesType
    <3>2. Freed(k) \in Nat BY <1>2, BytesType
    <3>3. Freed(k) + v = Memory!BytesOf(first) + Memory!BytesOf(rest) BY <2>6, <2>10, Zenon
    <3>4. Freed(k) + v - Memory!BytesOf(first) = Memory!BytesOf(rest) BY <2>1, <3>1, <3>2, <3>3
    <3> QED BY <1>4, <3>4, Zenon
  <2>13. now' \in Nat /\ DOMAIN latest' = CacheKeys BY <1>0, <1>1, <2>2
  <2>14. latest' = l BY <1>1
  <2> QED BY <1>4, <2>7, <2>8, <2>9, <2>12, <2>13, <2>14, Zenon DEF LocalInv
<1> QED BY <1>3, <1>4, Zenon DEF Memory!Set, Freed

LEMMA LocalKeeps == LocalInv /\ Memory!Next => LocalInv'
<1> SUFFICES ASSUME LocalInv, Memory!Next PROVE LocalInv' OBVIOUS
<1>0. now \in Nat /\ DOMAIN latest = CacheKeys BY DEF LocalInv
<1>1. CASE Memory!Tick
  <2>1. now' = now + 1 /\ held' = held /\ bytes' = bytes /\ latest' = latest /\ used' = used
    BY <1>1 DEF Memory!Tick
  <2> QED BY <2>1 DEF LocalInv
<1>2. CASE Memory!Clear
  <2>1. held' = <<>> /\ bytes' = 0 /\ latest' = [k \in CacheKeys |-> Nothing] /\ now' = now
    BY <1>2 DEF Memory!Clear
  <2>2. held' \in Seq(HeldEntries) /\ DOMAIN held' = {} /\ Len(held') = 0 BY <2>1
  <2>3. Distinct(held') /\ Ordered(held', used') /\ Latest(held', latest')
    BY <2>2 DEF Distinct, Ordered, Latest
  <2>4. bytes' = Memory!BytesOf(held') BY <2>1, BytesOfNone
  <2>5. ~ Memory!Overfull(held', bytes') BY <2>1, <2>2, StoreAssumption DEF Memory!Overfull
  <2> QED BY <1>0, <2>1, <2>2, <2>3, <2>4, <2>5 DEF LocalInv
<1>3. ASSUME NEW k \in CacheKeys, Memory!Get(k) PROVE LocalInv' BY <1>3, LocalGets
<1>4. ASSUME NEW k \in CacheKeys, NEW v \in Values, NEW ttl \in TTLs, Memory!Set(k, v, ttl) PROVE LocalInv'
  BY <1>4, LocalSets
<1> QED BY <1>1, <1>2, <1>3, <1>4, Zenon DEF Memory!Next

LEMMA LocalReturns == LocalInv => Memory!ReturnsUnexpired
BY LocalGets DEF Memory!ReturnsUnexpired

(* Whichever store is in use, its accounts are in order. *)
StoresInv == IF chosen = "memory" THEN LocalInv ELSE chosen = "redis" /\ SharedInv

LEMMA StoresStart == StoresInit => StoresInv
BY LocalStarts, SharedStarts DEF StoresInit, StoresInv

LEMMA StoresKeep == StoresInv /\ [StoresNext]_storeVars => StoresInv'
<1> SUFFICES ASSUME StoresInv, [StoresNext]_storeVars PROVE StoresInv' OBVIOUS
<1>1. CASE UseMemory BY <1>1, LocalKeeps DEF StoresInv, UseMemory
<1>2. CASE UseRedis
  <2>1. chosen = "redis" /\ chosen' = chosen /\ Redis!Next BY <1>2 DEF UseRedis
  <2> QED BY <2>1, SharedKeeps DEF StoresInv
<1>3. CASE UNCHANGED storeVars
  <2>1. /\ chosen' = chosen /\ held' = held /\ bytes' = bytes /\ now' = now /\ latest' = latest /\ used' = used
        /\ lru' = lru /\ sizes' = sizes /\ clock' = clock /\ generation' = generation /\ incs' = incs
        /\ hit' = hit /\ scan' = scan /\ cleared' = cleared
    BY <1>3 DEF storeVars, memoryOnly, redisOnly
  <2> QED BY <2>1 DEF StoresInv, LocalInv, SharedInv
<1> QED BY <1>1, <1>2, <1>3 DEF StoresNext

LEMMA StoresHold == StoresSpec => []StoresInv
BY StoresStart, StoresKeep, PTL DEF StoresSpec

(* Whatever is set, looked up, expires or is evicted, in either store: what *)
(* it holds is within its two limits, its byte total is the sum of what it  *)
(* holds, and the in-process store's Map is in the order of last use, so    *)
(* that the loop of set evicts the least recently used.                     *)
THEOREM StoresAccount == StoresSpec => []Accounting
<1>1. StoresInv => Accounting BY LocalAccounts, SharedAccounts DEF StoresInv, Accounting
<1> QED BY <1>1, StoresHold, PTL

(* Neither store hands out what is outdated: the in-process store holds of  *)
(* each key what was last set and get returns no value whose ttl is over;   *)
(* a lookup in the shared store finds nothing written before the last       *)
(* invalidation, as long as nobody calls clear().                           *)
THEOREM NothingOutdatedIsHandedOut == StoresSpec => NothingOutdated
<1> DEFINE Good == IF chosen = "memory" THEN Memory!HoldsTheLatest' /\ Memory!ReturnsUnexpired
                                        ELSE Redis!NeverLookedUpAgain'
<1>0. (LocalInv => Memory!HoldsTheLatest)' /\ (SharedInv => Redis!NeverLookedUpAgain)'
  <2>1. LocalInv => Memory!HoldsTheLatest BY LocalAccounts
  <2>2. SharedInv => Redis!NeverLookedUpAgain BY SharedAccounts
  <2> QED BY <2>1, <2>2, PTL
<1>1. ASSUME StoresInv, StoresInv', [StoresNext]_storeVars PROVE Good
  <2>1. chosen' = chosen BY <1>1 DEF StoresNext, UseMemory, UseRedis, storeVars
  <2>2. CASE chosen = "memory"
    <3>1. LocalInv /\ LocalInv' BY <1>1, <2>1, <2>2 DEF StoresInv
    <3> QED BY <1>0, <2>2, <3>1, LocalReturns
  <2>3. CASE chosen # "memory"
    <3>1. SharedInv' BY <1>1, <2>1, <2>3 DEF StoresInv
    <3> QED BY <1>0, <2>3, <3>1
  <2> QED BY <2>2, <2>3
<1>2. StoresInv /\ StoresInv' /\ [StoresNext]_storeVars => [Good]_storeVars BY <1>1
<1> QED BY <1>2, StoresHold, PTL DEF StoresSpec, NothingOutdated
===============================================================================
