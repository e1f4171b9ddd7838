------------------------- MODULE ValkeyAdapterProofs -------------------------
(***************************************************************************)
(* Theorems about ValkeyAdapter, for any clients, rows, lifetimes and      *)
(* numbers of operations: what the server holds keeps its types, and every *)
(* row that exists is found by its indexes.                                *)
(***************************************************************************)
EXTENDS ValkeyAdapter, TLAPS, WellFoundedInduction

-----------------------------------------------------------------------------
(* What a store is. *)

Keys == EqualityKeys \cup UniqueKeys
Objects == [row : Rows, expires : 0..Never]
Reservations == [id : {0} \cup Ids, expires : 0..Never]
Stores == [obj : [Ids -> Objects], z : [ZKeys -> [Ids -> 0..Never]],
           u : [Emails -> Reservations], m : [Ids -> SUBSET Keys], seq : 0..MaxIds]

(* No lifetime is longer than one that a caller may give. *)
Lasting(d, t) == \A i \in Ids : d.obj[i].expires = Never \/ d.obj[i].expires <= t + MaxTTL
(* Every object that has not been taken away is in its indexes. *)
Listed(d) == \A i \in Ids : d.obj[i].expires > 0 =>
               \A k \in Equality(d.obj[i].row) \cup {IdsKey} : d.z[k][i] > 0
Sound(d, t) == d \in Stores /\ Lasting(d, t) /\ Listed(d)

(* The bursts that operations issue.  A score is positive: the present and *)
(* a lifetime of at least 1, or infinity.                                  *)
Puts == [cmd : {"put"}, id : Ids, row : Rows, before : SUBSET Keys, ttl : TTLs, score : 1..Never]
Removes == [cmd : {"remove"}, id : Ids, before : SUBSET Keys]
Lifetimes == [cmd : {"lifetime"}, id : Ids, ttl : TTLs, score : 1..Never]
CascadeBursts == [cmd : {"cascade"}, id : Ids, before : SUBSET Keys, ttl : TTLs, score : 1..Never]
Bursts == Puts \cup Removes \cup Lifetimes \cup CascadeBursts

LEMMA Numbers ==
  /\ MaxTTL \in Nat /\ MaxTime \in Nat /\ MaxIds \in Nat /\ MaxIds > 0
  /\ Never \in Nat /\ Never = MaxTime + MaxTTL + 1
  /\ \A n \in TTLs : n \in Nat /\ n <= MaxTTL
  /\ \A i \in Ids : i \in Nat /\ i # 0
BY ValkeyAssumption DEF Never, TTLs, Ids

LEMMA ExpiryIsPositive ==
  ASSUME now \in 0..MaxTime, NEW ttl \in TTLs
  PROVE  /\ ExpiresAt(ttl) \in 0..Never /\ ExpiresAt(ttl) > now
         /\ ExpiresAt(ttl) = Never \/ ExpiresAt(ttl) <= now + MaxTTL
BY Numbers DEF ExpiresAt

LEMMA ScoreIsPositive ==
  ASSUME NEW start \in 0..MaxTime, NEW ttl \in TTLs
  PROVE  Score(ttl, start) \in 1..Never
BY Numbers DEF Score

(* A row's keys are keys of ZSETs, of the ids and of reservations.         *)
LEMMA KeysOfRows ==
  ASSUME NEW row \in Rows
  PROVE  /\ Equality(row) \subseteq EqualityKeys /\ Plan(row) \subseteq Keys
         /\ Equality(row) \cup {IdsKey} \subseteq ZKeys /\ Equality(row) \subseteq Plan(row)
<1>1. row.owner \in Owners /\ row.email \in Emails BY DEF Rows
<1> QED BY <1>1 DEF Equality, Unique, Plan, EqualityKeys, UniqueKeys, Keys, ZKeys

LEMMA GoneIsARow == Gone \in Objects /\ Gone.row \in Rows /\ Gone.expires = 0
<1>1. (CHOOSE e \in Emails : TRUE) \in Emails BY ValkeyAssumption
<1> QED BY <1>1, ValkeyAssumption, Numbers DEF Gone, Objects, Rows

LEMMA FreeIsAReservation == Free \in Reservations
BY Numbers DEF Free, Reservations

-----------------------------------------------------------------------------
(* What one burst makes of a store. *)

(* A store whose ZSETs change in one row's scores only, and so that the    *)
(* row is listed if it exists.                                             *)
LEMMA OneRowChanges ==
  ASSUME NEW t \in Nat, NEW d, Sound(d, t), NEW e \in Stores, NEW id \in Ids,
         \A i \in Ids \ {id} : e.obj[i] = d.obj[i] /\ \A k \in ZKeys : e.z[k][i] = d.z[k][i],
         e.obj[id].expires > 0 => \A k \in Equality(e.obj[id].row) \cup {IdsKey} : e.z[k][id] > 0,
         e.obj[id].expires = Never \/ e.obj[id].expires <= t + MaxTTL
  PROVE  Sound(e, t)
<1>1. Lasting(e, t) BY DEF Sound, Lasting
<1>2. ASSUME NEW i \in Ids, e.obj[i].expires > 0, NEW k \in Equality(e.obj[i].row) \cup {IdsKey}
      PROVE  e.z[k][i] > 0
  <2>1. CASE i = id BY <1>2, <2>1
  <2>2. CASE i # id
    <3>1. e.obj[i] = d.obj[i] /\ \A j \in ZKeys : e.z[j][i] = d.z[j][i] BY <2>2
    <3>2. d.obj[i].row \in Rows
      <4>1. d.obj \in [Ids -> Objects] BY DEF Sound, Stores
      <4>2. d.obj[i] \in Objects BY <4>1
      <4> QED BY <4>2 DEF Objects
    <3>3. k \in ZKeys BY <3>1, <3>2, <1>2, KeysOfRows
    <3>4. d.z[k][i] > 0 BY <1>2, <3>1 DEF Sound, Listed
    <3> QED BY <3>1, <3>3, <3>4
  <2> QED BY <2>1, <2>2
<1> QED BY <1>1, <1>2 DEF Sound, Listed

LEMMA PutSound ==
  ASSUME now \in 0..MaxTime, NEW d, Sound(d, now), NEW b \in Puts
  PROVE  Sound(Put(d, b), now)
<1> DEFINE e == Put(d, b)
           object == [row |-> b.row, expires |-> ExpiresAt(b.ttl)]
           ScoreAt(k, i) == IF i # b.id THEN d.z[k][i]
                            ELSE IF k \in Plan(b.row) \cup {IdsKey} THEN b.score
                            ELSE IF k \in b.before THEN 0 ELSE d.z[k][i]
<1>1. b.id \in Ids /\ b.row \in Rows /\ b.before \subseteq Keys /\ b.ttl \in TTLs /\ b.score \in 1..Never
  BY DEF Puts
<1>2. d \in Stores /\ d.obj \in [Ids -> Objects] /\ d.z \in [ZKeys -> [Ids -> 0..Never]]
      /\ d.u \in [Emails -> Reservations] /\ d.m \in [Ids -> SUBSET Keys] /\ d.seq \in 0..MaxIds
  BY DEF Sound, Stores
<1>3. object \in Objects BY <1>1, ExpiryIsPositive DEF Objects
<1>4. DOMAIN e = {"obj", "z", "u", "m", "seq"} /\ e = [f \in DOMAIN e |-> e[f]]
  BY <1>2 DEF Put, Stores
<1>5. e.obj = [d.obj EXCEPT ![b.id] = object] BY <1>2 DEF Put, Stores
<1>6. e.obj \in [Ids -> Objects] /\ e.obj[b.id] = object /\ \A i \in Ids \ {b.id} : e.obj[i] = d.obj[i]
  <2> HIDE DEF e, object
  <2> QED BY <1>1, <1>2, <1>3, <1>5
<1>7. /\ \A k \in ZKeys, i \in Ids : e.z[k][i] = ScoreAt(k, i)
      /\ e.z \in [ZKeys -> [Ids -> 0..Never]]
  <2>1. e.z = [k \in ZKeys |-> [d.z[k] EXCEPT ![b.id] =
                 IF k \in Plan(b.row) \cup {IdsKey} THEN b.score ELSE IF k \in b.before THEN 0 ELSE @]]
    BY <1>2 DEF Put, Stores
  <2> HIDE DEF e
  <2>2. ASSUME NEW k \in ZKeys
        PROVE  e.z[k] \in [Ids -> 0..Never] /\ \A i \in Ids : e.z[k][i] = ScoreAt(k, i)
    <3>1. d.z[k] \in [Ids -> 0..Never] BY <1>2
    <3> QED BY <1>1, <2>1, <3>1, Numbers
  <2> QED BY <2>1, <2>2
<1>8. e.u \in [Emails -> Reservations]
  <2>1. e.u = [a \in Emails |->
            IF <<"u", a>> \in Plan(b.row) \ b.before THEN [id |-> b.id, expires |-> ExpiresAt(b.ttl)]
            ELSE IF <<"u", a>> \in b.before \ Plan(b.row) THEN Free ELSE d.u[a]]
    BY <1>2 DEF Put, Stores
  <2>2. [id |-> b.id, expires |-> ExpiresAt(b.ttl)] \in Reservations
    BY <1>1, ExpiryIsPositive DEF Reservations
  <2> HIDE DEF e
  <2> QED BY <1>2, <2>1, <2>2, FreeIsAReservation
<1>9. e.m \in [Ids -> SUBSET Keys]
  <2>1. e.m = [d.m EXCEPT ![b.id] = (@ \cup Plan(b.row)) \ (b.before \ Plan(b.row))]
    BY <1>2 DEF Put, Stores
  <2>2. Plan(b.row) \subseteq Keys BY <1>1, KeysOfRows
  <2> HIDE DEF e
  <2> QED BY <1>2, <2>1, <2>2
<1>10. e.seq = d.seq BY <1>2 DEF Put, Stores
<1>11. e \in Stores
  <2> HIDE DEF e
  <2> QED BY <1>2, <1>4, <1>6, <1>7, <1>8, <1>9, <1>10 DEF Stores
<1>12. Equality(b.row) \cup {IdsKey} \subseteq (ZKeys \cap (Plan(b.row) \cup {IdsKey}))
  BY <1>1, KeysOfRows
<1>13. object.row = b.row /\ (object.expires = Never \/ object.expires <= now + MaxTTL)
  BY <1>1, ExpiryIsPositive
<1> HIDE DEF e, object
<1>14. \A k \in Equality(e.obj[b.id].row) \cup {IdsKey} : e.z[k][b.id] > 0
  BY <1>1, <1>6, <1>7, <1>12, <1>13, Numbers
<1>15. \A i \in Ids \ {b.id}, k \in ZKeys : e.z[k][i] = d.z[k][i] BY <1>7
<1>16. now \in Nat BY Numbers
<1>17. Sound(e, now)
  BY <1>1, <1>6, <1>11, <1>13, <1>14, <1>15, <1>16, OneRowChanges
<1> QED BY <1>17 DEF e

LEMMA UnputSound ==
  ASSUME now \in 0..MaxTime, NEW d, Sound(d, now), NEW b \in Removes
  PROVE  Sound(Unput(d, b), now)
<1> DEFINE e == Unput(d, b)
<1>1. b.id \in Ids /\ b.before \subseteq Keys BY DEF Removes
<1>2. d \in Stores /\ d.obj \in [Ids -> Objects] /\ d.z \in [ZKeys -> [Ids -> 0..Never]]
      /\ d.u \in [Emails -> Reservations] /\ d.m \in [Ids -> SUBSET Keys] /\ d.seq \in 0..MaxIds
  BY DEF Sound, Stores
<1>3. DOMAIN e = {"obj", "z", "u", "m", "seq"} /\ e = [f \in DOMAIN e |-> e[f]]
  BY <1>2 DEF Unput, Stores
<1>4. e.obj = [d.obj EXCEPT ![b.id] = Gone] BY <1>2 DEF Unput, Stores
<1>5. e.z = [k \in ZKeys |-> [d.z[k] EXCEPT ![b.id] = IF k \in b.before \cup {IdsKey} THEN 0 ELSE @]]
  BY <1>2 DEF Unput, Stores
<1>6. e.u = [a \in Emails |-> IF <<"u", a>> \in b.before THEN Free ELSE d.u[a]]
  BY <1>2 DEF Unput, Stores
<1>7. e.m = [d.m EXCEPT ![b.id] = {}] /\ e.seq = d.seq BY <1>2 DEF Unput, Stores
<1> HIDE DEF e
<1>8. e.obj \in [Ids -> Objects] /\ e.obj[b.id] = Gone /\ \A i \in Ids \ {b.id} : e.obj[i] = d.obj[i]
  BY <1>1, <1>2, <1>4, GoneIsARow
<1>9. e.z \in [ZKeys -> [Ids -> 0..Never]] /\ \A i \in Ids \ {b.id}, k \in ZKeys : e.z[k][i] = d.z[k][i]
  <2>1. ASSUME NEW k \in ZKeys
        PROVE  e.z[k] \in [Ids -> 0..Never] /\ \A i \in Ids \ {b.id} : e.z[k][i] = d.z[k][i]
    <3>1. d.z[k] \in [Ids -> 0..Never] BY <1>2
    <3> QED BY <1>1, <1>5, <3>1, Numbers
  <2> QED BY <1>5, <2>1
<1>10. e \in Stores
  <2>1. e.u \in [Emails -> Reservations] BY <1>2, <1>6, FreeIsAReservation
  <2>2. e.m \in [Ids -> SUBSET Keys] BY <1>2, <1>7
  <2> QED BY <1>2, <1>3, <1>7, <1>8, <1>9, <2>1, <2>2 DEF Stores
<1>11. e.obj[b.id].expires = 0 /\ now \in Nat BY <1>8, GoneIsARow, Numbers
<1>12. Sound(e, now)
  BY <1>1, <1>8, <1>9, <1>10, <1>11, Numbers, OneRowChanges
<1> QED BY <1>12 DEF e

LEMMA LifetimeSound ==
  ASSUME now \in 0..MaxTime, NEW d, Sound(d, now), NEW b \in Lifetimes
  PROVE  Sound(Lifetime(d, b), now)
<1> DEFINE e == Lifetime(d, b)
<1>1. b.id \in Ids /\ b.ttl \in TTLs /\ b.score \in 1..Never BY DEF Lifetimes
<1>2. d \in Stores /\ d.obj \in [Ids -> Objects] /\ d.z \in [ZKeys -> [Ids -> 0..Never]]
      /\ d.u \in [Emails -> Reservations] /\ d.m \in [Ids -> SUBSET Keys] /\ d.seq \in 0..MaxIds
  BY DEF Sound, Stores
<1>3. DOMAIN e = {"obj", "z", "u", "m", "seq"} /\ e = [f \in DOMAIN e |-> e[f]]
  BY <1>2 DEF Lifetime, Stores
<1>4. e.obj = [d.obj EXCEPT ![b.id].expires = IF @ > now THEN ExpiresAt(b.ttl) ELSE @]
  BY <1>2 DEF Lifetime, Stores
<1>5. e.z = [d.z EXCEPT ![IdsKey][b.id] = b.score] BY <1>2 DEF Lifetime, Stores
<1>6. e.u = d.u /\ e.m = d.m /\ e.seq = d.seq BY <1>2 DEF Lifetime, Stores
<1> HIDE DEF e
<1>7. d.obj[b.id] \in Objects /\ d.obj[b.id].expires \in 0..Never /\ d.obj[b.id].row \in Rows
  <2>1. d.obj[b.id] \in Objects BY <1>1, <1>2
  <2> QED BY <2>1 DEF Objects
<1>8. /\ e.obj \in [Ids -> Objects] /\ \A i \in Ids \ {b.id} : e.obj[i] = d.obj[i]
      /\ e.obj[b.id].row = d.obj[b.id].row
      /\ e.obj[b.id].expires = IF d.obj[b.id].expires > now THEN ExpiresAt(b.ttl) ELSE d.obj[b.id].expires
  <2> DEFINE x == IF d.obj[b.id].expires > now THEN ExpiresAt(b.ttl) ELSE d.obj[b.id].expires
             object == [d.obj[b.id] EXCEPT !.expires = x]
  <2>1. e.obj = [d.obj EXCEPT ![b.id] = object] BY <1>1, <1>2, <1>4
  <2>2. x \in 0..Never BY <1>1, <1>7, ExpiryIsPositive
  <2>3. object \in Objects /\ object.row = d.obj[b.id].row /\ object.expires = x
    <3> HIDE DEF x
    <3> QED BY <1>7, <2>2 DEF Objects
  <2> HIDE DEF object
  <2> QED BY <1>1, <1>2, <2>1, <2>3
<1>9. /\ e.z \in [ZKeys -> [Ids -> 0..Never]] /\ e.z[IdsKey][b.id] = b.score
      /\ \A i \in Ids, k \in ZKeys : k # IdsKey \/ i # b.id => e.z[k][i] = d.z[k][i]
  <2>1. IdsKey \in ZKeys BY DEF ZKeys
  <2>2. d.z[IdsKey] \in [Ids -> 0..Never] BY <1>2, <2>1
  <2>3. e.z = [d.z EXCEPT ![IdsKey] = [d.z[IdsKey] EXCEPT ![b.id] = b.score]] BY <1>2, <1>5, <2>1
  <2>4. [d.z[IdsKey] EXCEPT ![b.id] = b.score] \in [Ids -> 0..Never] BY <1>1, <2>2, Numbers
  <2> QED BY <1>1, <1>2, <2>1, <2>2, <2>3, <2>4
<1>10. e \in Stores BY <1>2, <1>3, <1>6, <1>8, <1>9 DEF Stores
<1>11. e.obj[b.id].expires > 0 => \A k \in Equality(e.obj[b.id].row) \cup {IdsKey} : e.z[k][b.id] > 0
  <2> SUFFICES ASSUME e.obj[b.id].expires > 0, NEW k \in Equality(d.obj[b.id].row) \cup {IdsKey}
               PROVE  e.z[k][b.id] > 0
    BY <1>8
  <2>1. d.obj[b.id].expires > 0 BY <1>7, <1>8, Numbers
  <2>2. d.z[k][b.id] > 0 BY <1>1, <2>1 DEF Sound, Listed
  <2>3. k \in ZKeys BY <1>7, KeysOfRows
  <2> QED BY <1>1, <1>9, <2>2, <2>3, Numbers
<1>12. e.obj[b.id].expires = Never \/ e.obj[b.id].expires <= now + MaxTTL
  BY <1>1, <1>8, ExpiryIsPositive DEF Sound, Lasting
<1>13. \A i \in Ids \ {b.id}, k \in ZKeys : e.z[k][i] = d.z[k][i] BY <1>9
<1>14. Sound(e, now)
  BY <1>1, <1>8, <1>10, <1>11, <1>12, <1>13, Numbers, OneRowChanges
<1> QED BY <1>14 DEF e

LEMMA CascadeSound ==
  ASSUME now \in 0..MaxTime, NEW d, Sound(d, now), NEW b \in CascadeBursts
  PROVE  Sound(Cascade(d, b), now)
<1> DEFINE e == Cascade(d, b)
<1>1. b.id \in Ids /\ b.before \subseteq Keys /\ b.ttl \in TTLs /\ b.score \in 1..Never
  BY DEF CascadeBursts
<1>2. d \in Stores /\ d.obj \in [Ids -> Objects] /\ d.z \in [ZKeys -> [Ids -> 0..Never]]
      /\ d.u \in [Emails -> Reservations] /\ d.m \in [Ids -> SUBSET Keys] /\ d.seq \in 0..MaxIds
  BY DEF Sound, Stores
<1>3. DOMAIN e = {"obj", "z", "u", "m", "seq"} /\ e = [f \in DOMAIN e |-> e[f]]
  BY <1>2 DEF Cascade, Stores
<1>4. e.z = [k \in ZKeys |-> [d.z[k] EXCEPT ![b.id] = IF k \in b.before THEN b.score ELSE @]]
  BY <1>2 DEF Cascade, Stores
<1>5. e.u = [a \in Emails |-> IF <<"u", a>> \in b.before /\ d.u[a] # Free
                               THEN [d.u[a] EXCEPT !.expires = ExpiresAt(b.ttl)] ELSE d.u[a]]
  BY <1>2 DEF Cascade, Stores
<1>6. e.obj = d.obj /\ e.m = d.m /\ e.seq = d.seq BY <1>2 DEF Cascade, Stores
<1> HIDE DEF e
<1>7. /\ e.z \in [ZKeys -> [Ids -> 0..Never]]
      /\ \A i \in Ids, k \in ZKeys : e.z[k][i] = IF i = b.id /\ k \in b.before THEN b.score ELSE d.z[k][i]
  <2>1. ASSUME NEW k \in ZKeys
        PROVE  /\ e.z[k] \in [Ids -> 0..Never]
               /\ \A i \in Ids : e.z[k][i] = IF i = b.id /\ k \in b.before THEN b.score ELSE d.z[k][i]
    <3>1. d.z[k] \in [Ids -> 0..Never] BY <1>2
    <3> QED BY <1>1, <1>4, <3>1, Numbers
  <2> QED BY <1>4, <2>1
<1>8. e.u \in [Emails -> Reservations]
  <2>1. ASSUME NEW r \in Reservations PROVE [r EXCEPT !.expires = ExpiresAt(b.ttl)] \in Reservations
    <3>1. ExpiresAt(b.ttl) \in 0..Never BY <1>1, ExpiryIsPositive
    <3> QED BY <3>1 DEF Reservations
  <2> QED BY <1>2, <1>5, <2>1
<1>9. e \in Stores BY <1>2, <1>3, <1>6, <1>7, <1>8 DEF Stores
<1>10. e.obj[b.id].expires > 0 => \A k \in Equality(e.obj[b.id].row) \cup {IdsKey} : e.z[k][b.id] > 0
  <2> SUFFICES ASSUME d.obj[b.id].expires > 0, NEW k \in Equality(d.obj[b.id].row) \cup {IdsKey}
               PROVE  e.z[k][b.id] > 0
    BY <1>6
  <2>1. d.z[k][b.id] > 0 BY <1>1 DEF Sound, Listed
  <2>2. d.obj[b.id].row \in Rows
    <3>1. d.obj[b.id] \in Objects BY <1>1, <1>2
    <3> QED BY <3>1 DEF Objects
  <2>3. k \in ZKeys BY <2>2, KeysOfRows
  <2> QED BY <1>1, <1>7, <2>1, <2>3, Numbers
<1>11. d.obj[b.id].expires = Never \/ d.obj[b.id].expires <= now + MaxTTL
  BY <1>1 DEF Sound, Lasting
<1>12. Sound(e, now)
  BY <1>1, <1>6, <1>7, <1>9, <1>10, <1>11, Numbers, OneRowChanges
<1> QED BY <1>12 DEF e

(* Any burst, on the server and in the overlay.                            *)
LEMMA RunSound ==
  ASSUME now \in 0..MaxTime, NEW d, Sound(d, now), NEW b \in Bursts
  PROVE  Sound(Run(d, b), now) /\ Sound(Overlaid(d, b), now)
<1>1. /\ b \in Puts => b.cmd = "put"
      /\ b \in Removes => b.cmd = "remove"
      /\ b \in Lifetimes => b.cmd = "lifetime"
      /\ b \in CascadeBursts => b.cmd = "cascade"
  BY DEF Puts, Removes, Lifetimes, CascadeBursts
<1>2. Sound(Run(d, b), now)
  <2>1. CASE b \in Puts BY <1>1, <2>1, PutSound DEF Run
  <2>2. CASE b \in Removes BY <1>1, <2>2, UnputSound DEF Run
  <2>3. CASE b \in Lifetimes BY <1>1, <2>3, LifetimeSound DEF Run
  <2>4. CASE b \in CascadeBursts BY <1>1, <2>4, CascadeSound DEF Run
  <2> QED BY <2>1, <2>2, <2>3, <2>4 DEF Bursts
<1>3. Sound(Overlaid(d, b), now)
  <2> DEFINE r == Run(d, b)
             e == Overlaid(d, b)
             members == IF b.cmd = "remove" THEN d.m[b.id] ELSE r.m[b.id]
  <2>1. r \in Stores /\ d \in Stores /\ b.id \in Ids
    BY <1>2 DEF Sound, Bursts, Puts, Removes, Lifetimes, CascadeBursts
  <2>2. e = [r EXCEPT !.m[b.id] = IF b.cmd = "remove" THEN d.m[b.id] ELSE @] BY DEF Overlaid
  <2> HIDE DEF r, e
  <2>3. r.m \in [Ids -> SUBSET Keys] /\ d.m \in [Ids -> SUBSET Keys] BY <2>1 DEF Stores
  <2>4. members \in SUBSET Keys BY <2>1, <2>3
  <2>5. DOMAIN e = {"obj", "z", "u", "m", "seq"} /\ e = [f \in DOMAIN e |-> e[f]] BY <2>1, <2>2 DEF Stores
  <2>6. e.obj = r.obj /\ e.z = r.z /\ e.u = r.u /\ e.seq = r.seq BY <2>1, <2>2 DEF Stores
  <2>7. e.m = [r.m EXCEPT ![b.id] = members] BY <2>1, <2>2, <2>3 DEF Stores
  <2> HIDE DEF members
  <2>8. e.m \in [Ids -> SUBSET Keys] BY <2>3, <2>4, <2>7
  <2>9. e \in Stores BY <2>1, <2>5, <2>6, <2>8 DEF Stores
  <2>10. Sound(r, now) BY <1>2 DEF r
  <2>11. Sound(e, now) BY <2>6, <2>9, <2>10 DEF Sound, Lasting, Listed
  <2> QED BY <2>11 DEF e
<1> QED BY <1>2, <1>3

-----------------------------------------------------------------------------
(* What buffered bursts make of a store, one after the other. *)

LEMMA FirstFailure ==
  ASSUME NEW N \in Nat, NEW Fails \in SUBSET (0..N), Fails # {}
  PROVE  \E n \in Fails : n = 0 \/ (n > 0 /\ n - 1 \in (0..N) \ Fails)
<1> DEFINE R == {p \in Nat \X Nat : p[1] < p[2]}
<1>1. OpToRel(<, Nat) = R BY Zenon DEF OpToRel
<1>2. IsWellFoundedOn(R, Nat) BY <1>1, NatLessThanWellFounded, Zenon
<1>3. Fails \subseteq Nat OBVIOUS
<1> HIDE DEF R
<1>4. PICK n \in Fails : \A k \in Fails : <<k, n>> \notin R BY <1>2, <1>3, WFMin
<1>5. ASSUME n # 0 PROVE n > 0 /\ n - 1 \in (0..N) \ Fails
  <2>1. n \in 0..N /\ n > 0 /\ n - 1 \in 0..N /\ n - 1 < n /\ n - 1 \in Nat BY <1>5
  <2>2. <<n - 1, n>> \in R BY <2>1 DEF R
  <2> QED BY <1>4, <2>1, <2>2
<1> QED BY <1>5

(* A replay goes through stores of which each follows from the one before. *)
After(overlay, d, b) == IF overlay THEN Overlaid(d, b) ELSE Run(d, b)
ReplaysBy(overlay, d, cmds, g) ==
  /\ g[0] = d /\ Replay(overlay, d, cmds) = g[Len(cmds)]
  /\ \A i \in 1..Len(cmds) : g[i] = After(overlay, g[i - 1], cmds[i])

LEMMA ReplayIs ==
  ASSUME NEW d, NEW cmds \in Seq(Bursts), NEW overlay \in BOOLEAN
  PROVE  \E g : ReplaysBy(overlay, d, cmds, g)
<1> DEFINE N == Len(cmds)
           Follows(g, n) == g = [i \in 0..n |->
             IF i = 0 THEN d
             ELSE IF overlay THEN Overlaid(g[i - 1], cmds[i]) ELSE Run(g[i - 1], cmds[i])]
           after == CHOOSE g : Follows(g, N)
<1>1. N \in Nat OBVIOUS
<1>2. Replay(overlay, d, cmds) = after[N] BY DEF Replay
<1> HIDE DEF N
(* There is such a sequence of stores, for it can be extended by one.      *)
<1>3. \E g : Follows(g, N)
  <2> DEFINE Exists(n) == \E g : Follows(g, n)
             Fails == {n \in 0..N : ~ Exists(n)}
  <2> SUFFICES Fails = {}
    <3> HIDE DEF Follows
    <3>1. N \in 0..N BY <1>1
    <3>2. Fails = {} => Exists(N)
      <4> HIDE DEF Exists
      <4> QED BY <3>1
    <3> QED BY <3>2
  <2> SUFFICES ASSUME Fails # {} PROVE FALSE OBVIOUS
  <2>1. PICK n \in Fails : n = 0 \/ (n > 0 /\ n - 1 \in (0..N) \ Fails)
    <3> HIDE DEF Exists
    <3> QED BY <1>1, FirstFailure
  <2>2. CASE n = 0
    <3> DEFINE g == [i \in 0..0 |-> d]
    <3>1. Follows(g, 0) OBVIOUS
    <3> QED BY <2>1, <2>2, <3>1
  <2>3. CASE n > 0 /\ n - 1 \in (0..N) \ Fails
    <3>1. PICK g : Follows(g, n - 1) BY <2>3
    <3>2. n \in Nat BY <1>1, <2>1
    <3> DEFINE h == [i \in 0..n |-> IF i < n THEN g[i] ELSE
                      IF overlay THEN Overlaid(g[n - 1], cmds[n]) ELSE Run(g[n - 1], cmds[n])]
    <3>3. \A i \in 0..n - 1 : h[i] = g[i] BY <3>2
    <3>4. \A i \in 0..n : h[i] = IF i = 0 THEN d ELSE
            IF overlay THEN Overlaid(h[i - 1], cmds[i]) ELSE Run(h[i - 1], cmds[i])
      <4> SUFFICES ASSUME NEW i \in 0..n
                   PROVE  h[i] = IF i = 0 THEN d ELSE
                            IF overlay THEN Overlaid(h[i - 1], cmds[i]) ELSE Run(h[i - 1], cmds[i])
        OBVIOUS
      <4>1. CASE i = n
        <5>1. h[i] = IF overlay THEN Overlaid(g[n - 1], cmds[n]) ELSE Run(g[n - 1], cmds[n])
          BY <3>2, <4>1
        <5>2. h[i - 1] = g[n - 1] /\ i # 0 BY <2>3, <3>2, <3>3, <4>1
        <5> QED BY <4>1, <5>1, <5>2
      <4>2. CASE i # n
        <5>1. i \in 0..n - 1 /\ (i # 0 => i - 1 \in 0..n - 1) BY <3>2, <4>2
        <5>2. g[i] = IF i = 0 THEN d ELSE
                IF overlay THEN Overlaid(g[i - 1], cmds[i]) ELSE Run(g[i - 1], cmds[i])
          BY <3>1, <5>1
        <5> HIDE DEF h
        <5> QED BY <3>3, <5>1, <5>2
      <4> QED BY <4>1, <4>2
    <3>5. DOMAIN h = 0..n /\ h = [i \in 0..n |-> h[i]] OBVIOUS
    <3> HIDE DEF h
    <3>6. Follows(h, n) BY <3>4, <3>5
    <3> QED BY <2>1, <3>6
  <2> QED BY <2>1, <2>2, <2>3
<1>4. Follows(after, N) BY <1>3
<1>5. \A i \in 0..N : after[i] = IF i = 0 THEN d ELSE
        IF overlay THEN Overlaid(after[i - 1], cmds[i]) ELSE Run(after[i - 1], cmds[i])
  <2> HIDE DEF after
  <2> QED BY <1>4
<1> HIDE DEF after
<1>6. after[0] = d BY <1>1, <1>5
<1>7. \A i \in 1..N : after[i] = After(overlay, after[i - 1], cmds[i]) BY <1>1, <1>5 DEF After
<1>8. ReplaysBy(overlay, d, cmds, after) BY <1>2, <1>6, <1>7 DEF ReplaysBy, N
<1> QED BY <1>8

LEMMA ReplaySound ==
  ASSUME now \in 0..MaxTime, NEW d, Sound(d, now), NEW cmds \in Seq(Bursts), NEW overlay \in BOOLEAN,
         NEW g, ReplaysBy(overlay, d, cmds, g)
  PROVE  \A n \in 0..Len(cmds) : Sound(g[n], now)
<1> DEFINE Fails == {n \in 0..Len(cmds) : ~ Sound(g[n], now)}
<1>0. Len(cmds) \in Nat /\ \A i \in 1..Len(cmds) : cmds[i] \in Bursts OBVIOUS
<1> SUFFICES ASSUME Fails # {} PROVE FALSE OBVIOUS
<1>1. PICK n \in Fails : n = 0 \/ (n > 0 /\ n - 1 \in (0..Len(cmds)) \ Fails) BY <1>0, FirstFailure
<1>2. CASE n = 0 BY <1>1, <1>2 DEF ReplaysBy
<1>3. CASE n > 0 /\ n - 1 \in (0..Len(cmds)) \ Fails
  <2>1. Sound(g[n - 1], now) BY <1>3
  <2>2. n \in 1..Len(cmds) /\ cmds[n] \in Bursts BY <1>0, <1>1, <1>3
  <2>3. Sound(After(overlay, g[n - 1], cmds[n]), now) BY <2>1, <2>2, RunSound DEF After
  <2>4. g[n] = After(overlay, g[n - 1], cmds[n]) BY <2>2 DEF ReplaysBy
  <2>5. Sound(g[n], now) BY <2>3, <2>4
  <2> QED BY <1>1, <2>5
<1> QED BY <1>1, <1>2, <1>3

LEMMA ReplayStaysSound ==
  ASSUME now \in 0..MaxTime, NEW d, Sound(d, now), NEW cmds \in Seq(Bursts), NEW overlay \in BOOLEAN
  PROVE  Sound(Replay(overlay, d, cmds), now)
<1>1. PICK g : ReplaysBy(overlay, d, cmds, g) BY ReplayIs
<1>2. Len(cmds) \in 0..Len(cmds) OBVIOUS
<1>3. Sound(g[Len(cmds)], now) BY <1>1, <1>2, ReplaySound
<1> QED BY <1>1, <1>3 DEF ReplaysBy

-----------------------------------------------------------------------------
(* The invariant: the store is sound, what is buffered is bursts, and what *)
(* an operation holds between two awaits are rows and keys.                *)

Conds == (UNION Wheres) \cup ({"owner"} \X Owners)
Ops == {"none", "create", "find", "update", "delete", "relink", "expiry"}
Jobs == [op : Ops, conds : SUBSET Conds, ids : SUBSET Ids, expired : SUBSET Ids,
         rows : SUBSET [id : Ids, row : Rows], drop : SUBSET Ids, link : SUBSET Ids,
         owner : Owners, patch : Patches \cup {<<>>}, id : {0} \cup Ids, before : SUBSET Keys,
         new : Rows, ttl : TTLs, keep : TTLs, start : 0..MaxTime]

(* Where an operation is about to touch the row that it names. *)
AtARow == {"check", "pttl", "write", "purge", "remove", "cascade"}
HoldsAt(j, position) ==
  /\ j \in Jobs /\ (j.op = "update" => j.patch \in Patches)
  /\ position \in Positions /\ (position \in AtARow => j.id \in Ids)

Storing ==
  /\ now \in 0..MaxTime /\ Sound(db, now)
  /\ inTx \in [Clients -> BOOLEAN] /\ buffer \in [Clients -> Seq(Bursts)]
  /\ \A c \in Clients : ~inTx[c] => buffer[c] = <<>>
Working ==
  /\ pc \in [Clients -> Positions] /\ job \in [Clients -> Jobs]
  /\ \A c \in Clients : HoldsAt(job[c], pc[c])
Aside == serial \in BOOLEAN /\ jobs \in Nat /\ lapsed \subseteq Emails
IInv == Storing /\ Working /\ Aside

LEMMA NoJobHolds == HoldsAt(NoJob, "idle")
<1>1. NoJob \in Jobs
  BY GoneIsARow, ValkeyAssumption, Numbers DEF NoJob, Jobs, Ops, TTLs
<1> QED BY <1>1 DEF HoldsAt, NoJob, Positions, AtARow

LEMMA ViewSound ==
  ASSUME Storing, NEW c \in Clients
  PROVE  Sound(View(c), now)
BY ReplayStaysSound DEF Storing, View

LEMMA InitHolds == Init => IInv
<1> SUFFICES ASSUME Init PROVE IInv OBVIOUS
<1>1. now = 0 /\ now \in 0..MaxTime BY Numbers DEF Init
<1>2. Sound(Empty, now)
  <2>1. Empty \in Stores BY GoneIsARow, FreeIsAReservation, Numbers DEF Empty, Stores
  <2>2. \A i \in Ids : Empty.obj[i] = Gone BY DEF Empty
  <2> QED BY <1>1, <2>1, <2>2, GoneIsARow, Numbers DEF Sound, Lasting, Listed
<1>3. Sound(db, now)
  <2>1. CASE db = Empty BY <1>2, <2>1
  <2>2. ASSUME NEW row \in Residents, NEW ttl \in TTLs,
               db = Put([Empty EXCEPT !.seq = 1],
                     [cmd |-> "put", id |-> 1, row |-> row, before |-> {}, ttl |-> ttl, score |-> Score(ttl, now)])
        PROVE  Sound(db, now)
    <3> DEFINE d == [Empty EXCEPT !.seq = 1]
               b == [cmd |-> "put", id |-> 1, row |-> row, before |-> {}, ttl |-> ttl, score |-> Score(ttl, now)]
    <3>1. d \in Stores /\ d.obj = Empty.obj /\ d.z = Empty.z
      <4>1. Empty \in Stores /\ 1 \in 0..MaxIds BY <1>2, Numbers DEF Sound
      <4> QED BY <4>1 DEF Stores
    <3>2. Sound(d, now)
      <4> HIDE DEF d
      <4> QED BY <1>2, <3>1 DEF Sound, Lasting, Listed
    <3>3. b \in Puts
      <4>1. row \in Rows /\ 1 \in Ids BY ValkeyAssumption, Numbers DEF Ids
      <4>2. Score(ttl, now) \in 1..Never BY <1>1, ScoreIsPositive
      <4> QED BY <4>1, <4>2 DEF Puts
    <3> QED BY <1>1, <2>2, <3>2, <3>3, PutSound
  <2> QED BY <2>1, <2>2 DEF Init
<1>4. Storing
  <2>1. inTx \in [Clients -> BOOLEAN] /\ buffer \in [Clients -> Seq(Bursts)] BY DEF Init
  <2> QED BY <1>1, <1>3, <2>1 DEF Init, Storing
<1>5. Working BY NoJobHolds DEF Init, Working, HoldsAt
<1>6. Aside
  <2>1. jobs = 0 \/ jobs = 1 BY Zenon DEF Init
  <2>2. serial \in BOOLEAN /\ lapsed = {} BY Zenon DEF Init
  <2> QED BY <2>1, <2>2 DEF Aside
<1> QED BY <1>4, <1>5, <1>6 DEF IInv

(* A step of one client that keeps the store, or sends one burst; and one  *)
(* that takes its operation on.                                            *)
LEMMA QuietKeeps ==
  Storing /\ Quiet /\ UNCHANGED <<now, inTx>> => Storing'
BY DEF Storing, Quiet, Sound, Lasting, Listed

LEMMA EmitKeeps ==
  ASSUME Storing, NEW c \in Clients, NEW b \in Bursts, Emit(c, b), UNCHANGED <<now, inTx>>
  PROVE  Storing'
<1>1. Sound(db', now')
  <2>1. CASE inTx[c] BY <2>1 DEF Emit, Storing
  <2>2. CASE ~ inTx[c]
    <3>1. db' = Run(db, b) /\ now' = now BY <2>2 DEF Emit
    <3> QED BY <3>1, RunSound DEF Storing
  <2> QED BY <2>1, <2>2
<1>2. buffer' \in [Clients -> Seq(Bursts)] /\ \A e \in Clients : ~inTx'[e] => buffer'[e] = <<>>
  <2>1. CASE inTx[c]
    <3>1. buffer' = [buffer EXCEPT ![c] = Append(buffer[c], b)] BY <2>1 DEF Emit
    <3>2. Append(buffer[c], b) \in Seq(Bursts) BY DEF Storing
    <3> QED BY <2>1, <3>1, <3>2 DEF Storing
  <2>2. CASE ~ inTx[c] BY <2>2 DEF Emit, Storing
  <2> QED BY <2>1, <2>2
<1> QED BY <1>1, <1>2 DEF Storing, Sound, Lasting, Listed

LEMMA TurnKeeps ==
  ASSUME Working, NEW c \in Clients, NEW j, NEW position, HoldsAt(j, position),
         job' = [job EXCEPT ![c] = j], pc' = [pc EXCEPT ![c] = position]
  PROVE  Working'
BY DEF Working, HoldsAt

LEMMA EndKeeps ==
  ASSUME Working, NEW c \in Clients, End(c) PROVE Working'
BY NoJobHolds, TurnKeeps DEF End, Goto

LEMMA BeginKeeps ==
  ASSUME IInv, NEW c \in Clients, NEW j, NEW position, HoldsAt(j, position), Begin(c, position, j)
  PROVE  Working' /\ Aside' /\ UNCHANGED <<now, inTx>>
<1>1. job' = [job EXCEPT ![c] = [j EXCEPT !.start = now]] /\ pc' = [pc EXCEPT ![c] = position]
  BY DEF Begin, Goto
<1>2. HoldsAt([j EXCEPT !.start = now], position)
  <2>1. now \in 0..MaxTime /\ j \in Jobs BY DEF IInv, Storing, HoldsAt
  <2>2. [j EXCEPT !.start = now] \in Jobs BY <2>1 DEF Jobs
  <2>3. [j EXCEPT !.start = now].op = j.op /\ [j EXCEPT !.start = now].patch = j.patch
        /\ [j EXCEPT !.start = now].id = j.id
    BY <2>1 DEF Jobs
  <2> QED BY <2>2, <2>3 DEF HoldsAt
<1>3. Working' BY <1>1, <1>2, TurnKeeps DEF IInv
<1> QED BY <1>3 DEF IInv, Aside, Begin

(* The keys that a store records of a row, and the rows that it holds.     *)
LEMMA StoreGives ==
  ASSUME Storing, NEW c \in Clients, NEW i \in Ids
  PROVE  /\ View(c).m[i] \in SUBSET Keys /\ View(c).obj[i].row \in Rows
         /\ Pttl(i) \in TTLs
<1>1. View(c) \in Stores BY ViewSound DEF Sound
<1>2. View(c).m \in [Ids -> SUBSET Keys] /\ View(c).obj \in [Ids -> Objects] BY <1>1 DEF Stores
<1>3. View(c).obj[i] \in Objects BY <1>2
<1>4. db.obj[i].expires \in 0..Never
  <2>1. db.obj \in [Ids -> Objects] BY DEF Storing, Sound, Stores
  <2>2. db.obj[i] \in Objects BY <2>1
  <2> QED BY <2>2 DEF Objects
<1>5. Pttl(i) \in TTLs
  <2>1. db.obj[i].expires = Never \/ db.obj[i].expires <= now + MaxTTL BY DEF Storing, Sound, Lasting
  <2>2. now \in 0..MaxTime BY DEF Storing
  <2> QED BY <1>4, <2>1, <2>2, Numbers DEF Pttl, Alive, TTLs
<1> QED BY <1>2, <1>3, <1>5 DEF Objects

LEMMA CallKeeps ==
  ASSUME IInv, NEW c \in Clients, Call(c) PROVE IInv'
<1> USE DEF Ops, Positions, AtARow
<1>0. NoJob \in Jobs /\ Storing BY NoJobHolds DEF HoldsAt, IInv
<1>1. CASE Create(c)
  <2>1. PICK row \in Rows, ttl \in TTLs :
          Begin(c, "check", [NoJob EXCEPT !.op = "create", !.id = db.seq + 1, !.new = row, !.keep = ttl])
    BY <1>1 DEF Create
  <2> DEFINE j == [NoJob EXCEPT !.op = "create", !.id = db.seq + 1, !.new = row, !.keep = ttl]
  <2>2. db.seq + 1 \in Ids /\ db.seq + 1 \in 0..MaxIds
    <3>1. db.seq \in 0..MaxIds BY <1>0 DEF Storing, Sound, Stores
    <3> QED BY <1>1, <3>1, Numbers DEF Create, Ids
  <2>3. HoldsAt(j, "check")
    <3>1. j \in Jobs BY <1>0, <2>2 DEF Jobs
    <3>2. j.op = "create" /\ j.id = db.seq + 1 BY <1>0 DEF Jobs
    <3> QED BY <2>2, <3>1, <3>2 DEF HoldsAt
  <2> HIDE DEF j
  <2>4. Working' /\ Aside' /\ UNCHANGED <<now, inTx>> BY <2>1, <2>3, BeginKeeps DEF j
  <2>5. Storing'
    <3>1. db' = [db EXCEPT !.seq = @ + 1] /\ UNCHANGED buffer BY <1>1 DEF Create
    <3>2. db \in Stores BY <1>0 DEF Storing, Sound
    <3>3. db' \in Stores /\ db'.obj = db.obj /\ db'.z = db.z BY <2>2, <3>1, <3>2 DEF Stores
    <3> QED BY <1>0, <2>4, <3>1, <3>3 DEF Storing, Sound, Lasting, Listed
  <2> QED BY <2>4, <2>5 DEF IInv
<1>2. ASSUME Quiet, NEW position, NEW j, HoldsAt(j, position), Begin(c, position, j) PROVE IInv'
  BY <1>0, <1>2, BeginKeeps, QuietKeeps DEF IInv
<1>3. CASE Find(c)
  <2>1. PICK w \in Wheres :
          Begin(c, "resolve", [NoJob EXCEPT !.op = "find", !.conds = w, !.ids = Ids])
    BY <1>3 DEF Find
  <2> DEFINE j == [NoJob EXCEPT !.op = "find", !.conds = w, !.ids = Ids]
  <2>2. w \in SUBSET Conds BY DEF Conds
  <2>3. j \in Jobs /\ j.op = "find" BY <1>0, <2>2 DEF Jobs
  <2> HIDE DEF j
  <2>4. HoldsAt(j, "resolve") BY <2>3 DEF HoldsAt
  <2> QED BY <1>2, <1>3, <2>1, <2>4 DEF Find, j
<1>4. CASE Update(c)
  <2>1. PICK w \in Wheres, p \in Patches, ttl \in TTLs :
          Begin(c, "resolve", [NoJob EXCEPT !.op = "update", !.conds = w, !.ids = Ids, !.patch = p, !.ttl = ttl])
    BY <1>4 DEF Update
  <2> DEFINE j == [NoJob EXCEPT !.op = "update", !.conds = w, !.ids = Ids, !.patch = p, !.ttl = ttl]
  <2>2. w \in SUBSET Conds BY DEF Conds
  <2>3. j \in Jobs /\ j.op = "update" /\ j.patch \in Patches BY <1>0, <2>2 DEF Jobs
  <2> HIDE DEF j
  <2>4. HoldsAt(j, "resolve") BY <2>3 DEF HoldsAt
  <2> QED BY <1>2, <1>4, <2>1, <2>4 DEF Update, j
<1>5. CASE Delete(c)
  <2>1. PICK w \in Wheres :
          Begin(c, "resolve", [NoJob EXCEPT !.op = "delete", !.conds = w, !.ids = Ids])
    BY <1>5 DEF Delete
  <2> DEFINE j == [NoJob EXCEPT !.op = "delete", !.conds = w, !.ids = Ids]
  <2>2. w \in SUBSET Conds BY DEF Conds
  <2>3. j \in Jobs /\ j.op = "delete" BY <1>0, <2>2 DEF Jobs
  <2> HIDE DEF j
  <2>4. HoldsAt(j, "resolve") BY <2>3 DEF HoldsAt
  <2> QED BY <1>2, <1>5, <2>1, <2>4 DEF Delete, j
<1>6. CASE Accessor(c)
  <2>1. PICK o \in Owners \ {Nobody}, ts \in SUBSET Ids, way \in {"add", "remove", "set"} :
       Begin(c, IF way = "set" THEN "resolve" ELSE "next",
         [NoJob EXCEPT !.op = "relink", !.owner = o, !.ids = Ids,
           !.conds = IF way = "set" THEN {<<"owner", o>>} ELSE {},
           !.drop = IF way = "remove" THEN ts ELSE {}, !.link = IF way = "remove" THEN {} ELSE ts])
    BY <1>6 DEF Accessor
  <2> DEFINE conds == IF way = "set" THEN {<<"owner", o>>} ELSE {}
             drop == IF way = "remove" THEN ts ELSE {}
             link == IF way = "remove" THEN {} ELSE ts
             j == [NoJob EXCEPT !.op = "relink", !.owner = o, !.ids = Ids, !.conds = conds,
                                !.drop = drop, !.link = link]
             position == IF way = "set" THEN "resolve" ELSE "next"
  <2>2. conds \in SUBSET Conds /\ drop \in SUBSET Ids /\ link \in SUBSET Ids BY DEF Conds
  <2>3. j \in Jobs /\ j.op = "relink"
    <3> HIDE DEF conds, drop, link
    <3> QED BY <1>0, <2>2 DEF Jobs
  <2>4. Begin(c, position, j) BY <2>1
  <2> HIDE DEF j
  <2>5. HoldsAt(j, position) BY <2>3 DEF HoldsAt
  <2> HIDE DEF position
  <2> QED BY <1>2, <1>6, <2>4, <2>5 DEF Accessor
<1>7. CASE SetExpiry(c)
  <2>1. PICK i \in Ids, ttl \in TTLs :
    /\ Begin(c, "cascade", [NoJob EXCEPT !.op = "expiry", !.id = i, !.ttl = ttl, !.before = View(c).m[i]])
    /\ Emit(c, [cmd |-> "lifetime", id |-> i, ttl |-> ttl, score |-> Score(ttl, now)])
    BY <1>7 DEF SetExpiry
  <2> DEFINE members == View(c).m[i]
             j == [NoJob EXCEPT !.op = "expiry", !.id = i, !.ttl = ttl, !.before = members]
             b == [cmd |-> "lifetime", id |-> i, ttl |-> ttl, score |-> Score(ttl, now)]
  <2>2. members \in SUBSET Keys BY <1>0, StoreGives
  <2>3. Begin(c, "cascade", j) /\ Emit(c, b) BY <2>1
  <2> HIDE DEF members
  <2>4. j \in Jobs /\ j.op = "expiry" /\ j.id = i BY <1>0, <2>2 DEF Jobs
  <2> HIDE DEF j
  <2>5. HoldsAt(j, "cascade") BY <2>4 DEF HoldsAt
  <2>6. b \in Bursts
    <3>1. Score(ttl, now) \in 1..Never BY <1>0, ScoreIsPositive DEF Storing
    <3> QED BY <3>1 DEF Bursts, Lifetimes
  <2> HIDE DEF b
  <2>7. Working' /\ Aside' /\ UNCHANGED <<now, inTx>> BY <2>3, <2>5, BeginKeeps
  <2> QED BY <1>0, <2>3, <2>6, <2>7, EmitKeeps DEF IInv
<1> QED BY <1>1, <1>3, <1>4, <1>5, <1>6, <1>7 DEF Call

LEMMA StepKeeps ==
  ASSUME IInv, NEW c \in Clients, Step(c) PROVE IInv'
<1> USE DEF Ops, Positions, AtARow
<1> DEFINE j == job[c]
<1>0. /\ Storing /\ Working /\ Aside /\ HoldsAt(j, pc[c]) /\ j \in Jobs
      /\ Sound(View(c), now)
  BY ViewSound DEF IInv, Working, HoldsAt
<1>1. /\ j.conds \in SUBSET Conds /\ j.ids \in SUBSET Ids /\ j.expired \in SUBSET Ids
      /\ j.rows \in SUBSET [id : Ids, row : Rows] /\ j.drop \in SUBSET Ids /\ j.link \in SUBSET Ids
      /\ j.owner \in Owners /\ j.before \in SUBSET Keys /\ j.new \in Rows
      /\ j.ttl \in TTLs /\ j.keep \in TTLs /\ j.start \in 0..MaxTime
      /\ j.op \in Ops /\ j.id \in {0} \cup Ids
  BY <1>0 DEF Jobs
<1>2. pc[c] \in AtARow => j.id \in Ids BY <1>0 DEF HoldsAt
(* A step that waits for an answer, one that sends a burst.                *)
<1>3. ASSUME Quiet, Steady, Working' PROVE IInv'
  BY <1>0, <1>3, QuietKeeps DEF IInv, Aside, Steady
<1>4. ASSUME NEW b \in Bursts, Emit(c, b), Steady, Working' PROVE IInv'
  BY <1>0, <1>4, EmitKeeps DEF IInv, Aside, Steady
<1>5. ASSUME NEW to \in Positions, Goto(c, to), UNCHANGED job, to \in AtARow => j.id \in Ids PROVE Working'
  <2>1. HoldsAt(j, to) BY <1>0, <1>5 DEF HoldsAt
  <2>2. job' = [job EXCEPT ![c] = j] BY <1>0, <1>5 DEF Working
  <2> HIDE DEF j
  <2> QED BY <1>0, <1>5, <2>1, <2>2, TurnKeeps DEF Goto
<1>6. ASSUME NEW n \in Jobs, n.op = j.op, n.patch = j.patch, NEW to \in Positions,
             to \in AtARow => n.id \in Ids, Goto(c, to), job' = [job EXCEPT ![c] = n]
      PROVE  Working'
  <2>1. HoldsAt(n, to) BY <1>0, <1>6 DEF HoldsAt
  <2> QED BY <1>0, <1>6, <2>1, TurnKeeps DEF Goto
<1>7. ASSUME End(c) PROVE Working' BY <1>0, <1>7, EndKeeps
<1>8. ASSUME pc[c] \in AtARow
      PROVE  [cmd |-> "remove", id |-> j.id, before |-> j.before] \in Bursts
  BY <1>1, <1>2, <1>8 DEF Bursts, Removes
<1>11. CASE Cascades(c)
  <2> DEFINE b == [cmd |-> "cascade", id |-> j.id, before |-> j.before, ttl |-> j.ttl, score |-> Score(j.ttl, j.start)]
  <2>1. Score(j.ttl, j.start) \in 1..Never BY <1>1, ScoreIsPositive
  <2>2. j.id \in Ids BY <1>2, <1>11 DEF Cascades
  <2>3. b \in Bursts BY <1>1, <2>1, <2>2 DEF Bursts, CascadeBursts
  <2>4. Emit(c, b) /\ End(c) /\ Steady BY <1>11 DEF Cascades
  <2> HIDE DEF b, j
  <2> QED BY <1>4, <1>7, <2>3, <2>4
<1>12. CASE Resolve(c)
  <2>1. PICK k \in j.conds :
       /\ job' = [job EXCEPT ![c].conds = @ \ {k}, ![c].ids = @ \cap EqualitySet(c, k),
                             ![c].expired = Expired(c, k)]
       /\ Goto(c, IF Expired(c, k) = {} THEN "resolve" ELSE "collect")
    BY <1>12 DEF Resolve
  <2> DEFINE named == EqualitySet(c, k)
             over == Expired(c, k)
             n == [j EXCEPT !.conds = @ \ {k}, !.ids = @ \cap named, !.expired = over]
  <2>2. over \in SUBSET Ids BY DEF Expired
  <2> HIDE DEF named, over
  <2>3. job' = [job EXCEPT ![c] = n] BY <1>0, <2>1 DEF Working, named, over
  <2>4. n \in Jobs /\ n.op = j.op /\ n.patch = j.patch
    <3> HIDE DEF j
    <3> QED BY <1>0, <1>1, <2>2 DEF Jobs
  <2>5. Goto(c, IF over = {} THEN "resolve" ELSE "collect") BY <2>1 DEF over
  <2> HIDE DEF n
  <2>6. Working' BY <1>6, <2>3, <2>4, <2>5
  <2> QED BY <1>3, <1>12, <2>6 DEF Resolve
<1>13. CASE Collect(c)
  <2>1. PICK i \in j.expired :
       job' = [job EXCEPT ![c].id = i, ![c].expired = @ \ {i}, ![c].before = View(c).m[i]]
    BY <1>13 DEF Collect
  <2> DEFINE members == View(c).m[i]
             n == [j EXCEPT !.id = i, !.expired = @ \ {i}, !.before = members]
  <2>2. i \in Ids BY <1>1, <2>1
  <2>3. members \in SUBSET Keys BY <1>0, <2>2, StoreGives
  <2> HIDE DEF members
  <2>4. job' = [job EXCEPT ![c] = n] BY <1>0, <2>1 DEF Working, members
  <2>5. n \in Jobs /\ n.op = j.op /\ n.patch = j.patch /\ n.id = i
    <3> HIDE DEF j
    <3> QED BY <1>0, <1>1, <2>2, <2>3 DEF Jobs
  <2> HIDE DEF n
  <2>6. Working' BY <1>6, <1>13, <2>2, <2>4, <2>5 DEF Collect
  <2> QED BY <1>3, <1>13, <2>6 DEF Collect
<1>14. CASE Purge(c)
  <2>1. Working' BY <1>5, <1>14 DEF Purge
  <2> QED BY <1>4, <1>8, <1>14, <2>1 DEF Purge
<1>15. CASE Fetch(c)
  <2> DEFINE found == {i \in j.ids : Alive(View(c), i)}
             fetched == {[id |-> i, row |-> View(c).obj[i].row] : i \in found}
             dropping == [j EXCEPT !.drop = found]
             rowing == [j EXCEPT !.rows = fetched]
  <2>1. found \in SUBSET Ids BY <1>1
  <2>2. fetched \in SUBSET [id : Ids, row : Rows]
    <3>1. \A i \in Ids : View(c).obj[i].row \in Rows BY <1>0, StoreGives
    <3> HIDE DEF found
    <3> QED BY <2>1, <3>1
  <2> HIDE DEF fetched
  <2>3. \/ End(c)
        \/ Goto(c, "next") /\ job' = [job EXCEPT ![c].drop = found]
        \/ Goto(c, "next") /\ job' = [job EXCEPT ![c].rows = fetched]
    BY <1>15 DEF Fetch, fetched
  <2>4. CASE End(c) BY <1>3, <1>7, <1>15, <2>4 DEF Fetch
  <2> HIDE DEF found
  <2>5. CASE Goto(c, "next") /\ job' = [job EXCEPT ![c].drop = found]
    <3>1. job' = [job EXCEPT ![c] = dropping] BY <1>0, <2>5 DEF Working
    <3>2. dropping \in Jobs /\ dropping.op = j.op /\ dropping.patch = j.patch
      <4> HIDE DEF j
      <4> QED BY <1>0, <1>1, <2>1 DEF Jobs
    <3> HIDE DEF dropping
    <3>3. Working' BY <1>6, <2>5, <3>1, <3>2
    <3> QED BY <1>3, <1>15, <3>3 DEF Fetch
  <2>6. CASE Goto(c, "next") /\ job' = [job EXCEPT ![c].rows = fetched]
    <3>1. job' = [job EXCEPT ![c] = rowing] BY <1>0, <2>6 DEF Working
    <3>2. rowing \in Jobs /\ rowing.op = j.op /\ rowing.patch = j.patch
      <4> HIDE DEF j
      <4> QED BY <1>0, <1>1, <2>2 DEF Jobs
    <3> HIDE DEF rowing
    <3>3. Working' BY <1>6, <2>6, <3>1, <3>2
    <3> QED BY <1>3, <1>15, <3>3 DEF Fetch
  <2> QED BY <2>3, <2>4, <2>5, <2>6
<1>16. CASE NextUpdate(c)
  <2>1. PICK r \in j.rows :
       job' = [job EXCEPT ![c].rows = @ \ {r}, ![c].id = r.id, ![c].before = Plan(r.row),
                         ![c].new = Patched(r.row, job[c].patch)]
    BY <1>16 DEF NextUpdate
  <2> DEFINE new == Patched(r.row, j.patch)
             before == Plan(r.row)
             n == [j EXCEPT !.rows = @ \ {r}, !.id = r.id, !.before = before, !.new = new]
  <2>2. r.id \in Ids /\ r.row \in Rows BY <1>1, <2>1
  <2>3. before \in SUBSET Keys BY <2>2, KeysOfRows
  <2>4. new \in Rows BY <1>0, <1>16, <2>2, ValkeyAssumption DEF NextUpdate, HoldsAt
  <2> HIDE DEF new, before
  <2>5. job' = [job EXCEPT ![c] = n] BY <1>0, <2>1 DEF Working, new, before
  <2>6. n \in Jobs /\ n.op = j.op /\ n.patch = j.patch /\ n.id = r.id
    <3> HIDE DEF j
    <3> QED BY <1>0, <1>1, <2>2, <2>3, <2>4 DEF Jobs
  <2> HIDE DEF n
  <2>7. Working' BY <1>6, <1>16, <2>2, <2>5, <2>6 DEF NextUpdate
  <2> QED BY <1>3, <1>16, <2>7 DEF NextUpdate
<1>17. CASE NextDelete(c)
  <2>1. PICK r \in j.rows :
       job' = [job EXCEPT ![c].rows = @ \ {r}, ![c].id = r.id, ![c].before = View(c).m[r.id]]
    BY <1>17 DEF NextDelete
  <2> DEFINE members == View(c).m[r.id]
             n == [j EXCEPT !.rows = @ \ {r}, !.id = r.id, !.before = members]
  <2>2. r.id \in Ids BY <1>1, <2>1
  <2>3. members \in SUBSET Keys BY <1>0, <2>2, StoreGives
  <2> HIDE DEF members
  <2>4. job' = [job EXCEPT ![c] = n] BY <1>0, <2>1 DEF Working, members
  <2>5. n \in Jobs /\ n.op = j.op /\ n.patch = j.patch /\ n.id = r.id
    <3> HIDE DEF j
    <3> QED BY <1>0, <1>1, <2>2, <2>3 DEF Jobs
  <2> HIDE DEF n
  <2>6. Working' BY <1>6, <1>17, <2>2, <2>4, <2>5 DEF NextDelete
  <2> QED BY <1>3, <1>17, <2>6 DEF NextDelete
<1>18. CASE RemoveRow(c)
  <2>1. Working' BY <1>5, <1>18 DEF RemoveRow
  <2> QED BY <1>4, <1>8, <1>18, <2>1 DEF RemoveRow
<1>19. CASE NextPatch(c)
  <2> DEFINE dropping == j.drop # {}
             o == IF dropping THEN Nobody ELSE j.owner
  <2>1. PICK i \in IF dropping THEN j.drop ELSE j.link :
       LET row == View(c).obj[i].row
           rest == [j EXCEPT !.drop = @ \ {i}, !.link = IF dropping THEN @ ELSE @ \ {i}]
       IN IF Alive(View(c), i)
          THEN /\ job' = [job EXCEPT ![c] = [rest EXCEPT !.id = i, !.before = Plan(row),
                                              !.new = [row EXCEPT !.owner = o]]]
               /\ Goto(c, "check")
          ELSE job' = [job EXCEPT ![c] = rest] /\ UNCHANGED pc
    BY <1>19 DEF NextPatch
  <2> DEFINE row == View(c).obj[i].row
             before == Plan(row)
             new == [row EXCEPT !.owner = o]
             link == IF dropping THEN j.link ELSE j.link \ {i}
             rest == [j EXCEPT !.drop = @ \ {i}, !.link = link]
             n == [rest EXCEPT !.id = i, !.before = before, !.new = new]
  <2>2. i \in Ids /\ o \in Owners /\ link \in SUBSET Ids BY <1>1, <2>1, ValkeyAssumption
  <2>3. row \in Rows BY <1>0, <2>2, StoreGives
  <2>4. before \in SUBSET Keys BY <2>3, KeysOfRows
  <2>5. new \in Rows
    <3> HIDE DEF o, row
    <3> QED BY <2>2, <2>3 DEF Rows
  <2>6. \/ job' = [job EXCEPT ![c] = n] /\ Goto(c, "check")
        \/ job' = [job EXCEPT ![c] = rest] /\ UNCHANGED pc
    <3>1. rest = [j EXCEPT !.drop = @ \ {i}, !.link = IF dropping THEN @ ELSE @ \ {i}] OBVIOUS
    <3> QED BY <2>1, <3>1, Zenon
  <2> HIDE DEF o, row, before, new, link
  <2>7. rest \in Jobs /\ rest.op = j.op /\ rest.patch = j.patch
    <3> HIDE DEF j
    <3> QED BY <1>0, <1>1, <2>2 DEF Jobs
  <2> HIDE DEF rest
  <2>8. n \in Jobs /\ n.op = rest.op /\ n.patch = rest.patch /\ n.id = i
    BY <2>2, <2>4, <2>5, <2>7 DEF Jobs
  <2> HIDE DEF n
  <2>9. CASE job' = [job EXCEPT ![c] = n] /\ Goto(c, "check")
    <3>1. Working' BY <1>6, <2>2, <2>7, <2>8, <2>9
    <3> QED BY <1>3, <1>19, <3>1 DEF NextPatch
  <2>10. CASE job' = [job EXCEPT ![c] = rest] /\ UNCHANGED pc
    <3>1. Goto(c, "next") BY <1>0, <1>19, <2>10 DEF Goto, NextPatch, Working
    <3>2. Working' BY <1>6, <2>7, <2>10, <3>1
    <3> QED BY <1>3, <1>19, <3>2 DEF NextPatch
  <2> QED BY <2>6, <2>9, <2>10
<1>20. CASE NothingLeft(c) BY <1>3, <1>7, <1>20 DEF NothingLeft
<1>21. CASE EnforceUnique(c)
  <2>1. End(c) \/ (UNCHANGED job /\ \E to \in {"write", "pttl"} : Goto(c, to)) BY <1>21 DEF EnforceUnique
  <2>2. Working' BY <1>2, <1>5, <1>7, <1>21, <2>1 DEF EnforceUnique
  <2> QED BY <1>3, <1>21, <2>2 DEF EnforceUnique
<1>22. CASE ReadTtl(c)
  <2> DEFINE keep == IF j.ttl > 0 THEN j.ttl ELSE Pttl(j.id)
             n == [j EXCEPT !.keep = keep]
  <2>1. j.id \in Ids BY <1>2, <1>22 DEF ReadTtl
  <2>2. keep \in TTLs BY <1>0, <1>1, <2>1, StoreGives
  <2> HIDE DEF keep
  <2>3. job' = [job EXCEPT ![c] = n] BY <1>0, <1>22 DEF ReadTtl, Working, keep
  <2>4. n \in Jobs /\ n.op = j.op /\ n.patch = j.patch /\ n.id = j.id
    <3> HIDE DEF j
    <3> QED BY <1>0, <1>1, <2>2 DEF Jobs
  <2> HIDE DEF n
  <2>5. Working' BY <1>6, <1>22, <2>1, <2>3, <2>4 DEF ReadTtl
  <2> QED BY <1>3, <1>22, <2>5 DEF ReadTtl
<1>23. CASE WriteRow(c)
  <2> DEFINE b == [cmd |-> "put", id |-> j.id, row |-> j.new, before |-> j.before,
                   ttl |-> j.keep, score |-> Score(j.keep, j.start)]
  <2>1. Score(j.keep, j.start) \in 1..Never BY <1>1, ScoreIsPositive
  <2>2. j.id \in Ids BY <1>2, <1>23 DEF WriteRow
  <2>3. b \in Bursts BY <1>1, <2>1, <2>2 DEF Bursts, Puts
  <2>4. Emit(c, b) /\ Steady /\ (End(c) \/ (Goto(c, "next") /\ UNCHANGED job)) BY <1>23 DEF WriteRow
  <2>5. Working' BY <1>5, <1>7, <2>4
  <2> HIDE DEF b, j
  <2> QED BY <1>4, <2>3, <2>4, <2>5
<1> QED
  BY <1>11, <1>12, <1>13, <1>14, <1>15, <1>16, <1>17, <1>18, <1>19, <1>20, <1>21, <1>22, <1>23 DEF Step

(* A transaction begins with nothing buffered, and ends in either way with *)
(* nothing buffered.                                                       *)
LEMMA TransactionKeeps ==
  ASSUME IInv, NEW c \in Clients, BeginTransaction(c) \/ Commit(c) \/ Rollback(c) PROVE IInv'
<1>1. CASE BeginTransaction(c)
  <2>1. UNCHANGED <<db, now, serial, pc, job, buffer, jobs, lapsed>> /\ inTx' = [inTx EXCEPT ![c] = TRUE]
    BY <1>1 DEF BeginTransaction
  <2> QED BY <2>1 DEF IInv, Storing, Working, Aside, Sound, Lasting, Listed
<1>2. ASSUME UNCHANGED <<now, serial, pc, job, jobs, lapsed>>, Sound(db', now),
             inTx' = [inTx EXCEPT ![c] = FALSE], buffer' = [buffer EXCEPT ![c] = <<>>]
      PROVE  IInv'
  <2>1. /\ buffer' \in [Clients -> Seq(Bursts)] /\ inTx' \in [Clients -> BOOLEAN]
        /\ \A e \in Clients : ~inTx'[e] => buffer'[e] = <<>>
    <3>1. <<>> \in Seq(Bursts) OBVIOUS
    <3> QED BY <1>2, <3>1 DEF IInv, Storing
  <2> QED BY <1>2, <2>1 DEF IInv, Storing, Working, Aside, Sound, Lasting, Listed
<1>3. CASE Commit(c)
  <2>1. Sound(Replay(FALSE, db, buffer[c]), now) BY ReplayStaysSound DEF IInv, Storing
  <2> QED BY <1>2, <1>3, <2>1 DEF Commit
<1>4. CASE Rollback(c) BY <1>2, <1>4 DEF Rollback, IInv, Storing
<1> QED BY <1>1, <1>3, <1>4

LEMMA TickKeeps == IInv /\ Tick => IInv'
<1> SUFFICES ASSUME IInv, Tick PROVE IInv' OBVIOUS
<1> DEFINE Ended(x) == x.expires <= now + 1
           obj == [i \in Ids |-> IF Ended(db.obj[i]) THEN Gone ELSE db.obj[i]]
           u == [a \in Emails |-> IF Ended(db.u[a]) THEN Free ELSE db.u[a]]
<1>1. /\ now < MaxTime /\ now' = now + 1 /\ db' = [db EXCEPT !.obj = obj, !.u = u]
      /\ lapsed' = lapsed \cup {a \in Emails : db.u[a] # Free /\ Ended(db.u[a])}
      /\ UNCHANGED <<serial, pc, job, inTx, buffer, jobs>>
  BY DEF Tick
<1>2. Storing /\ db \in Stores /\ now \in 0..MaxTime BY DEF IInv, Storing, Sound
<1>3. db.obj \in [Ids -> Objects] /\ db.u \in [Emails -> Reservations] BY <1>2 DEF Stores
<1>4. obj \in [Ids -> Objects] /\ u \in [Emails -> Reservations]
  BY <1>3, GoneIsARow, FreeIsAReservation
<1>5. \A i \in Ids : obj[i] = db.obj[i] \/ obj[i] = Gone OBVIOUS
<1> HIDE DEF obj, u
<1>6. db' \in Stores /\ db'.obj = obj /\ db'.z = db.z BY <1>1, <1>2, <1>4 DEF Stores
<1>7. now' \in 0..MaxTime /\ now <= now' BY <1>1, <1>2, Numbers
<1>8. Lasting(db', now')
  <2> SUFFICES ASSUME NEW i \in Ids
               PROVE  obj[i].expires = Never \/ obj[i].expires <= now' + MaxTTL
    BY <1>6 DEF Lasting
  <2>1. CASE obj[i] = Gone
    <3>1. obj[i].expires = 0 BY <2>1, GoneIsARow
    <3>2. now' \in Nat BY <1>7, Numbers
    <3>3. \A t \in Nat : 0 <= t + MaxTTL BY Numbers
    <3> QED BY <3>1, <3>2, <3>3
  <2>2. CASE obj[i] = db.obj[i]
    <3>1. obj[i] \in Objects BY <1>4
    <3>2. obj[i].expires \in 0..Never BY <3>1 DEF Objects
    <3>3. obj[i].expires = Never \/ obj[i].expires <= now + MaxTTL
      BY <1>2, <2>2 DEF Storing, Sound, Lasting
    <3> QED BY <1>2, <1>7, <3>2, <3>3, Numbers
  <2> QED BY <1>5, <2>1, <2>2
<1>9. Listed(db')
  <2> SUFFICES ASSUME NEW i \in Ids, obj[i].expires > 0, NEW k \in Equality(obj[i].row) \cup {IdsKey}
               PROVE  db.z[k][i] > 0
    BY <1>6 DEF Listed
  <2>1. obj[i] = db.obj[i] BY <1>5, GoneIsARow
  <2> QED BY <1>2, <2>1 DEF Storing, Sound, Listed
<1>10. Storing'
  BY <1>1, <1>2, <1>6, <1>7, <1>8, <1>9 DEF Storing, Sound, Lasting, Listed
<1> QED BY <1>1, <1>10 DEF IInv, Working, Aside

LEMMA Inductive == IInv /\ [Next]_vars => IInv'
<1> SUFFICES ASSUME IInv, [Next]_vars PROVE IInv' OBVIOUS
<1>1. CASE UNCHANGED vars
  BY <1>1 DEF vars, IInv, Storing, Working, Aside, Sound, Lasting, Listed
<1>2. CASE Tick BY <1>2, TickKeeps
<1>3. ASSUME NEW c \in Clients, Call(c) PROVE IInv' BY <1>3, CallKeeps
<1>4. ASSUME NEW c \in Clients, Step(c) PROVE IInv' BY <1>4, StepKeeps
<1>5. ASSUME NEW c \in Clients, BeginTransaction(c) \/ Commit(c) \/ Rollback(c) PROVE IInv'
  BY <1>5, TransactionKeeps
<1>6. CASE Over BY <1>1, <1>6 DEF Over
<1> QED BY <1>1, <1>2, <1>3, <1>4, <1>5, <1>6 DEF Next

LEMMA Invariant == Spec => []IInv
BY InitHolds, Inductive, PTL DEF Spec

-----------------------------------------------------------------------------
(* Every structure of the store keeps its type, whatever interleaves: no   *)
(* lifetime grows beyond what callers may give, although an update puts    *)
(* back at a later time what pttl answered.                                *)
THEOREM TypeCorrect == Spec => []TypeOK
<1>1. IInv => TypeOK
  <2> SUFFICES ASSUME IInv PROVE TypeOK OBVIOUS
  <2>1. db \in Stores BY DEF IInv, Storing, Sound
  <2> QED BY <2>1 DEF IInv, Storing, Working, Aside, Stores, Objects, Reservations, Keys, TypeOK
<1> QED BY <1>1, Invariant, PTL

(* A row that exists is listed among the ids and under each of its values, *)
(* for any clients, rows and lifetimes, in any interleaving of operations, *)
(* transactions, lazy garbage collection and the expiry of the server.     *)
THEOREM NothingGoesMissing == Spec => []Findable
<1>1. IInv => Findable
  <2> SUFFICES ASSUME IInv, NEW i \in Ids, Alive(db, i),
                      NEW k \in Equality(db.obj[i].row) \cup {IdsKey}
               PROVE  db.z[k][i] > 0
    BY DEF Findable
  <2>1. db.obj[i].expires > 0
    <3>1. db.obj \in [Ids -> Objects] /\ now \in 0..MaxTime BY DEF IInv, Storing, Sound, Stores
    <3>2. db.obj[i] \in Objects BY <3>1
    <3>3. db.obj[i].expires \in 0..Never BY <3>2 DEF Objects
    <3> QED BY <3>1, <3>3, Numbers DEF Alive
  <2> QED BY <2>1 DEF IInv, Storing, Sound, Listed
<1> QED BY <1>1, Invariant, PTL


-----------------------------------------------------------------------------
(* One operation or transaction at a time.  What a store must be for its   *)
(* indexes to name rows only under the values they have: for every row     *)
(* that has not been taken away, the scores and members are those of its   *)
(* values, and its email is reserved for it.  A lifetime that has run out  *)
(* may have taken the reservation: L stands for these emails.              *)

Exists(d, i) == d.obj[i].expires > 0

Tidy(d, i, row) ==
  /\ \A k \in EqualityKeys : d.z[k][i] > 0 => k \in Equality(row)
  /\ d.m[i] \subseteq Plan(row)
Holds(d, L, i, a) == a \in L \/ d.u[a].id = i
Reserved(d, L, i, keys) == \A a \in Emails : <<"u", a>> \in keys => Holds(d, L, i, a)

Clean(d, L) ==
  \A i \in Ids : Exists(d, i) => Tidy(d, i, d.obj[i].row) /\ Holds(d, L, i, d.obj[i].row.email)
Fresh(d) ==
  \A i \in Ids : i > d.seq =>
    ~ Exists(d, i) /\ d.m[i] = {} /\ \A k \in EqualityKeys : d.z[k][i] = 0
Full(d) == \A i \in Ids : Exists(d, i) => Plan(d.obj[i].row) \subseteq d.m[i]
Claims(d, L) == \A i \in Ids : Reserved(d, L, i, d.m[i])
(* A row has one lifetime in all its indexes, but for the row of which the *)
(* lifetime is being set.                                                  *)
Even(d, X) ==
  \A i \in Ids \ X : Exists(d, i) => \A k \in Equality(d.obj[i].row) : d.z[k][i] = d.z[IdsKey][i]

(* The store as the commands that are buffered will leave it: the overlay, *)
(* but for the members of sets that were deleted.                          *)
Sent(c) == Replay(FALSE, db, buffer[c])
Settled(V, S, L, X) == Clean(V, L) /\ Fresh(V) /\ Even(V, X) /\ Full(S) /\ Claims(S, L)

(* What an operation has read is still so when it writes.                  *)
RowsInHand(V, L, position, j) ==
  /\ \A r \in j.rows : r.id <= V.seq /\ Tidy(V, r.id, r.row) /\ Holds(V, L, r.id, r.row.email)
  /\ \A r, s \in j.rows : r.id = s.id => r = s
  /\ position \in {"resolve", "collect", "purge"} \/ j.op = "relink" => j.rows = {}
  /\ position \in {"check", "pttl", "write", "remove"} => \A r \in j.rows : r.id # j.id
Collecting(V, t, position, j) ==
  LET over(i) == V.obj[i].expires > t => V.z[IdsKey][i] <= t IN
  /\ position \in {"collect", "purge"} => \A i \in j.expired : over(i)
  /\ position = "purge" => over(j.id)
Rewriting(V, L, position, j) ==
  /\ position \in {"check", "pttl", "write", "purge", "remove"} => Reserved(V, L, j.id, j.before)
  /\ position \in {"check", "pttl", "write"} =>
       /\ j.id <= V.seq /\ V.m[j.id] \subseteq j.before
       /\ \A k \in EqualityKeys : V.z[k][j.id] > 0 => k \in j.before
  /\ position \in {"pttl", "write"} => j.new.email \in L \/ V.u[j.new.email].id \in {0, j.id}
Cascading(V, position, j) ==
  position = "cascade" =>
    /\ Exists(V, j.id) => /\ Equality(V.obj[j.id].row) \subseteq j.before
                          /\ j.before \subseteq Plan(V.obj[j.id].row)
    /\ j.id > V.seq => j.before = {}
    /\ V.z[IdsKey][j.id] = Score(j.ttl, j.start)
InHand(V, L, t, position, j) ==
  position # "idle" =>
    /\ j.start <= t /\ RowsInHand(V, L, position, j) /\ Collecting(V, t, position, j)
    /\ Rewriting(V, L, position, j) /\ Cascading(V, position, j)

Resting(c) == pc[c] = "idle" /\ ~inTx[c]
Alone(c) == \A e \in Clients \ {c} : Resting(e)
Midway(position, j) == IF position = "cascade" THEN {j.id} ELSE {}
Facts(c) ==
  /\ Settled(View(c), Sent(c), lapsed, Midway(pc[c], job[c]))
  /\ InHand(View(c), lapsed, now, pc[c], job[c])
  /\ inTx[c] => Even(db, {}) /\ pc[c] \notin {"collect", "purge"}
Orderly ==
  serial =>
    /\ \A c \in Clients : Resting(c) \/ (Alone(c) /\ Facts(c))
    /\ Clean(db, lapsed) /\ Fresh(db) /\ Full(db) /\ Claims(db, lapsed)
    /\ (\A c \in Clients : Resting(c)) => Even(db, {})

-----------------------------------------------------------------------------
(* What a burst makes of a store, up to when lifetimes end, on the server  *)
(* or in the overlay, which keeps the members of a set that it deletes.    *)

ScoreAfter(d, b, k) ==
  IF b.cmd = "put"
  THEN IF k \in Plan(b.row) \cup {IdsKey} THEN b.score ELSE IF k \in b.before THEN 0 ELSE d.z[k][b.id]
  ELSE IF b.cmd = "remove" THEN IF k \in b.before \cup {IdsKey} THEN 0 ELSE d.z[k][b.id]
  ELSE IF b.cmd = "lifetime" THEN IF k = IdsKey THEN b.score ELSE d.z[k][b.id]
  ELSE IF k \in b.before THEN b.score ELSE d.z[k][b.id]
HolderAfter(d, b, a) ==
  IF b.cmd = "put" /\ <<"u", a>> \in Plan(b.row) \ b.before THEN b.id
  ELSE IF b.cmd = "put" /\ <<"u", a>> \in b.before \ Plan(b.row) THEN 0
  ELSE IF b.cmd = "remove" /\ <<"u", a>> \in b.before THEN 0 ELSE d.u[a].id
MembersAfter(d, b, overlay) ==
  IF b.cmd = "put" THEN (d.m[b.id] \cup Plan(b.row)) \ (b.before \ Plan(b.row))
  ELSE IF b.cmd = "remove" /\ ~ overlay THEN {} ELSE d.m[b.id]

Elsewhere(d, e, id) ==
  \A i \in Ids \ {id} :
    e.obj[i] = d.obj[i] /\ e.m[i] = d.m[i] /\ \A k \in ZKeys : e.z[k][i] = d.z[k][i]
RowAfter(d, e, b) ==
  /\ b.cmd = "put" => Exists(e, b.id) /\ e.obj[b.id].row = b.row
  /\ b.cmd = "remove" => ~ Exists(e, b.id)
  /\ b.cmd \in {"lifetime", "cascade"} =>
       (Exists(e, b.id) <=> Exists(d, b.id)) /\ e.obj[b.id].row = d.obj[b.id].row
Becomes(d, e, b, overlay) ==
  /\ e.seq = d.seq /\ Elsewhere(d, e, b.id) /\ RowAfter(d, e, b)
  /\ \A k \in ZKeys : e.z[k][b.id] = ScoreAfter(d, b, k)
  /\ \A a \in Emails : e.u[a].id = HolderAfter(d, b, a)
  /\ e.m[b.id] = MembersAfter(d, b, overlay)

LEMMA RunIs ==
  ASSUME now \in 0..MaxTime, NEW d, Sound(d, now), NEW b \in Bursts
  PROVE  Becomes(d, Run(d, b), b, FALSE) /\ Becomes(d, Overlaid(d, b), b, TRUE)
<1>1. /\ b \in Puts => b.cmd = "put"
      /\ b \in Removes => b.cmd = "remove"
      /\ b \in Lifetimes => b.cmd = "lifetime"
      /\ b \in CascadeBursts => b.cmd = "cascade"
  BY DEF Puts, Removes, Lifetimes, CascadeBursts
<1>2. /\ d \in Stores /\ d.obj \in [Ids -> Objects] /\ d.z \in [ZKeys -> [Ids -> 0..Never]]
      /\ d.u \in [Emails -> Reservations] /\ d.m \in [Ids -> SUBSET Keys]
      /\ \A k \in ZKeys : d.z[k] \in [Ids -> 0..Never]
      /\ \A i \in Ids : d.obj[i] \in Objects
  BY DEF Sound, Stores
<1>3. IdsKey \in ZKeys /\ b.id \in Ids BY DEF ZKeys, Bursts, Puts, Removes, Lifetimes, CascadeBursts
<1> DEFINE e == Run(d, b)
<1>4. Becomes(d, e, b, FALSE)
  <2>1. CASE b \in Puts
    <3> DEFINE object == [row |-> b.row, expires |-> ExpiresAt(b.ttl)]
    <3>1. /\ e.obj = [d.obj EXCEPT ![b.id] = object]
          /\ e.z = [k \in ZKeys |-> [d.z[k] EXCEPT ![b.id] =
                     IF k \in Plan(b.row) \cup {IdsKey} THEN b.score ELSE IF k \in b.before THEN 0 ELSE @]]
          /\ e.u = [a \in Emails |->
                     IF <<"u", a>> \in Plan(b.row) \ b.before THEN [id |-> b.id, expires |-> ExpiresAt(b.ttl)]
                     ELSE IF <<"u", a>> \in b.before \ Plan(b.row) THEN Free ELSE d.u[a]]
          /\ e.m = [d.m EXCEPT ![b.id] = (@ \cup Plan(b.row)) \ (b.before \ Plan(b.row))]
          /\ e.seq = d.seq
      BY <1>1, <1>2, <2>1 DEF Run, Put, Stores
    <3>2. object.row = b.row /\ object.expires > 0
      <4>1. b.ttl \in TTLs BY <2>1 DEF Puts
      <4> QED BY <4>1, ExpiryIsPositive, Numbers
    <3>3. Free.id = 0 BY DEF Free
    <3> HIDE DEF e, object
    <3>4. \A i \in Ids : e.obj[i] = IF i = b.id THEN object ELSE d.obj[i] BY <1>2, <3>1
    <3>5. \A k \in ZKeys, i \in Ids : e.z[k][i] = IF i = b.id THEN ScoreAfter(d, b, k) ELSE d.z[k][i]
      BY <1>1, <1>2, <2>1, <3>1 DEF ScoreAfter
    <3>6. \A a \in Emails : e.u[a].id = HolderAfter(d, b, a) BY <1>1, <2>1, <3>1, <3>3 DEF HolderAfter
    <3>7. \A i \in Ids : e.m[i] = IF i = b.id THEN MembersAfter(d, b, FALSE) ELSE d.m[i]
      BY <1>1, <1>2, <2>1, <3>1 DEF MembersAfter
    <3>8. Elsewhere(d, e, b.id) BY <3>4, <3>5, <3>7 DEF Elsewhere
    <3>9. RowAfter(d, e, b) BY <1>1, <1>3, <2>1, <3>2, <3>4 DEF RowAfter, Exists
    <3> QED BY <1>3, <3>1, <3>5, <3>6, <3>7, <3>8, <3>9 DEF Becomes
  <2>2. CASE b \in Removes
    <3>1. /\ e.obj = [d.obj EXCEPT ![b.id] = Gone]
          /\ e.z = [k \in ZKeys |-> [d.z[k] EXCEPT ![b.id] = IF k \in b.before \cup {IdsKey} THEN 0 ELSE @]]
          /\ e.u = [a \in Emails |-> IF <<"u", a>> \in b.before THEN Free ELSE d.u[a]]
          /\ e.m = [d.m EXCEPT ![b.id] = {}] /\ e.seq = d.seq
      BY <1>1, <1>2, <2>2 DEF Run, Unput, Stores
    <3>2. Free.id = 0 BY DEF Free
    <3> HIDE DEF e
    <3>3. \A i \in Ids : e.obj[i] = IF i = b.id THEN Gone ELSE d.obj[i] BY <1>2, <3>1
    <3>4. \A k \in ZKeys, i \in Ids : e.z[k][i] = IF i = b.id THEN ScoreAfter(d, b, k) ELSE d.z[k][i]
      BY <1>1, <1>2, <2>2, <3>1 DEF ScoreAfter
    <3>5. \A a \in Emails : e.u[a].id = HolderAfter(d, b, a) BY <1>1, <2>2, <3>1, <3>2 DEF HolderAfter
    <3>6. \A i \in Ids : e.m[i] = IF i = b.id THEN MembersAfter(d, b, FALSE) ELSE d.m[i]
      BY <1>1, <1>2, <2>2, <3>1 DEF MembersAfter
    <3>7. Elsewhere(d, e, b.id) BY <3>3, <3>4, <3>6 DEF Elsewhere
    <3>8. RowAfter(d, e, b) BY <1>1, <1>3, <2>2, <3>3, GoneIsARow DEF RowAfter, Exists
    <3> QED BY <1>3, <3>1, <3>4, <3>5, <3>6, <3>7, <3>8 DEF Becomes
  <2>3. CASE b \in Lifetimes
    <3> DEFINE x == IF d.obj[b.id].expires > now THEN ExpiresAt(b.ttl) ELSE d.obj[b.id].expires
               object == [d.obj[b.id] EXCEPT !.expires = x]
               scores == [d.z[IdsKey] EXCEPT ![b.id] = b.score]
    <3>1. /\ e.obj = [d.obj EXCEPT ![b.id].expires = IF @ > now THEN ExpiresAt(b.ttl) ELSE @]
          /\ e.z = [d.z EXCEPT ![IdsKey][b.id] = b.score]
          /\ e.u = d.u /\ e.m = d.m /\ e.seq = d.seq
      BY <1>1, <1>2, <2>3 DEF Run, Lifetime, Stores
    <3>2. object.row = d.obj[b.id].row /\ (object.expires > 0 <=> d.obj[b.id].expires > 0)
      <4>1. ExpiresAt(b.ttl) > now /\ ExpiresAt(b.ttl) \in 0..Never
        <5>1. b.ttl \in TTLs BY <2>3 DEF Lifetimes
        <5> QED BY <5>1, ExpiryIsPositive
      <4>2. object.row = d.obj[b.id].row /\ object.expires = x
        <5> HIDE DEF x
        <5> QED BY <1>2, <1>3 DEF Objects
      <4>3. d.obj[b.id].expires \in 0..Never BY <1>2, <1>3 DEF Objects
      <4> QED BY <4>1, <4>2, <4>3, Numbers
    <3>3. e.obj = [d.obj EXCEPT ![b.id] = object] BY <1>2, <1>3, <3>1
    <3>4. e.z = [d.z EXCEPT ![IdsKey] = scores] BY <1>2, <1>3, <3>1
    <3> HIDE DEF e, object
    <3>5. \A i \in Ids : e.obj[i] = IF i = b.id THEN object ELSE d.obj[i] BY <1>2, <3>3
    <3>6. \A k \in ZKeys, i \in Ids : e.z[k][i] = IF i = b.id THEN ScoreAfter(d, b, k) ELSE d.z[k][i]
      BY <1>1, <1>2, <1>3, <2>3, <3>4 DEF ScoreAfter
    <3>7. \A a \in Emails : e.u[a].id = HolderAfter(d, b, a) BY <1>1, <2>3, <3>1 DEF HolderAfter
    <3>8. \A i \in Ids : e.m[i] = IF i = b.id THEN MembersAfter(d, b, FALSE) ELSE d.m[i]
      BY <1>1, <2>3, <3>1 DEF MembersAfter
    <3>9. Elsewhere(d, e, b.id) BY <3>5, <3>6, <3>8 DEF Elsewhere
    <3>10. RowAfter(d, e, b) BY <1>1, <1>3, <2>3, <3>2, <3>5 DEF RowAfter, Exists
    <3> QED BY <1>3, <3>1, <3>6, <3>7, <3>8, <3>9, <3>10 DEF Becomes
  <2>4. CASE b \in CascadeBursts
    <3>1. /\ e.z = [k \in ZKeys |-> [d.z[k] EXCEPT ![b.id] = IF k \in b.before THEN b.score ELSE @]]
          /\ e.u = [a \in Emails |-> IF <<"u", a>> \in b.before /\ d.u[a] # Free
                               THEN [d.u[a] EXCEPT !.expires = ExpiresAt(b.ttl)] ELSE d.u[a]]
          /\ e.obj = d.obj /\ e.m = d.m /\ e.seq = d.seq
      BY <1>1, <1>2, <2>4 DEF Run, Cascade, Stores
    <3> HIDE DEF e
    <3>2. \A k \in ZKeys, i \in Ids : e.z[k][i] = IF i = b.id THEN ScoreAfter(d, b, k) ELSE d.z[k][i]
      BY <1>1, <1>2, <2>4, <3>1 DEF ScoreAfter
    <3>3. \A a \in Emails : e.u[a].id = d.u[a].id
      <4>1. \A r \in Reservations : [r EXCEPT !.expires = ExpiresAt(b.ttl)].id = r.id BY DEF Reservations
      <4> QED BY <1>2, <3>1, <4>1
    <3>4. \A a \in Emails : e.u[a].id = HolderAfter(d, b, a) BY <1>1, <2>4, <3>3 DEF HolderAfter
    <3>5. \A i \in Ids : e.m[i] = IF i = b.id THEN MembersAfter(d, b, FALSE) ELSE d.m[i]
      BY <1>1, <2>4, <3>1 DEF MembersAfter
    <3>6. Elsewhere(d, e, b.id) BY <3>1, <3>2, <3>5 DEF Elsewhere
    <3>7. RowAfter(d, e, b) BY <1>1, <2>4, <3>1 DEF RowAfter, Exists
    <3> QED BY <1>3, <3>1, <3>2, <3>4, <3>5, <3>6, <3>7 DEF Becomes
  <2> QED BY <2>1, <2>2, <2>3, <2>4 DEF Bursts
<1>5. Becomes(d, Overlaid(d, b), b, TRUE)
  <2> DEFINE o == Overlaid(d, b)
             members == IF b.cmd = "remove" THEN d.m[b.id] ELSE e.m[b.id]
  <2>1. e \in Stores BY RunSound DEF Sound
  <2>2. o = [e EXCEPT !.m[b.id] = IF b.cmd = "remove" THEN d.m[b.id] ELSE @] BY DEF Overlaid
  <2> HIDE DEF e, o
  <2>3. e.m \in [Ids -> SUBSET Keys] BY <2>1 DEF Stores
  <2>4. o.obj = e.obj /\ o.z = e.z /\ o.u = e.u /\ o.seq = e.seq BY <2>1, <2>2 DEF Stores
  <2>5. o.m = [e.m EXCEPT ![b.id] = members] BY <2>1, <2>2, <2>3 DEF Stores
  <2> HIDE DEF members
  <2>6. \A i \in Ids : o.m[i] = IF i = b.id THEN members ELSE e.m[i] BY <2>3, <2>5
  <2>7. members = MembersAfter(d, b, TRUE) BY <1>4 DEF members, Becomes, MembersAfter
  <2>8. Elsewhere(d, o, b.id) BY <1>4, <2>4, <2>6 DEF Becomes, Elsewhere
  <2>9. RowAfter(d, o, b)
    <3>1. RowAfter(d, e, b) BY <1>4 DEF Becomes
    <3> QED BY <2>4, <3>1 DEF RowAfter, Exists
  <2>10. /\ \A k \in ZKeys : o.z[k][b.id] = ScoreAfter(d, b, k)
         /\ \A a \in Emails : o.u[a].id = HolderAfter(d, b, a)
    <3>1. /\ \A k \in ZKeys : e.z[k][b.id] = ScoreAfter(d, b, k)
          /\ \A a \in Emails : e.u[a].id = HolderAfter(d, b, a)
      BY <1>4 DEF Becomes
    <3> QED BY <2>4, <3>1
  <2>11. o.seq = d.seq BY <1>4, <2>4 DEF Becomes
  <2>12. Becomes(d, o, b, TRUE) BY <1>3, <2>6, <2>7, <2>8, <2>9, <2>10, <2>11 DEF Becomes
  <2> QED BY <2>12 DEF o
<1> QED BY <1>4, <1>5

-----------------------------------------------------------------------------
(* Replays: one more burst, the overlay against the server, and the same   *)
(* bursts over a server from which lifetimes have taken something.         *)

LEMMA ReplayNone == ASSUME NEW d, NEW overlay \in BOOLEAN PROVE Replay(overlay, d, <<>>) = d
<1>1. <<>> \in Seq(Bursts) /\ Len(<<>>) = 0 OBVIOUS
<1>2. PICK g : ReplaysBy(overlay, d, <<>>, g) BY <1>1, ReplayIs
<1> QED BY <1>1, <1>2 DEF ReplaysBy

LEMMA ReplayAppends ==
  ASSUME NEW d, NEW cmds \in Seq(Bursts), NEW b \in Bursts, NEW overlay \in BOOLEAN
  PROVE  Replay(overlay, d, Append(cmds, b)) = After(overlay, Replay(overlay, d, cmds), b)
<1> DEFINE more == Append(cmds, b)
           N == Len(cmds)
<1>1. more \in Seq(Bursts) /\ Len(more) = N + 1 /\ more[N + 1] = b /\ \A i \in 1..N : more[i] = cmds[i]
  OBVIOUS
<1>2. PICK g : ReplaysBy(overlay, d, cmds, g) BY ReplayIs
<1> HIDE DEF more
<1>3. PICK h : ReplaysBy(overlay, d, more, h) BY <1>1, ReplayIs
<1>4. N \in Nat OBVIOUS
<1> HIDE DEF N
<1>5. /\ g[0] = d /\ \A i \in 1..N : g[i] = After(overlay, g[i - 1], cmds[i])
      /\ h[0] = d /\ \A i \in 1..N + 1 : h[i] = After(overlay, h[i - 1], more[i])
  BY <1>1, <1>2, <1>3 DEF ReplaysBy, N
<1>6. \A n \in 0..N : g[n] = h[n]
  <2> DEFINE Fails == {n \in 0..N : g[n] # h[n]}
  <2> SUFFICES ASSUME Fails # {} PROVE FALSE OBVIOUS
  <2>1. PICK n \in Fails : n = 0 \/ (n > 0 /\ n - 1 \in (0..N) \ Fails) BY <1>4, FirstFailure
  <2>2. n # 0 BY <1>5, <2>1
  <2>3. n \in 1..N /\ n \in 1..N + 1 /\ g[n - 1] = h[n - 1] BY <1>4, <2>1, <2>2
  <2>4. g[n] = After(overlay, g[n - 1], cmds[n]) /\ h[n] = After(overlay, h[n - 1], more[n])
    BY <1>5, <2>3
  <2>5. more[n] = cmds[n] BY <1>1, <2>3
  <2> QED BY <2>1, <2>3, <2>4, <2>5
<1>7. h[N + 1] = After(overlay, h[N], b)
  <2>1. N + 1 \in 1..N + 1 /\ (N + 1) - 1 = N BY <1>4
  <2> QED BY <1>1, <1>5, <2>1
<1>8. g[N] = h[N] BY <1>4, <1>6
<1>9. Replay(overlay, d, cmds) = g[N] /\ Replay(overlay, d, more) = h[N + 1]
  BY <1>1, <1>2, <1>3 DEF ReplaysBy, N
<1> QED BY <1>7, <1>8, <1>9 DEF more

Path(d, e, cmds, overlay, g) ==
  /\ g[0] = d /\ g[Len(cmds)] = e
  /\ \A i \in 1..Len(cmds) : Becomes(g[i - 1], g[i], cmds[i], overlay)
Paths(overlay) ==
  \A d : Sound(d, now) => \A cmds \in Seq(Bursts) :
    \E g : Path(d, Replay(overlay, d, cmds), cmds, overlay, g)

LEMMA ReplayPaths == now \in 0..MaxTime => Paths(TRUE) /\ Paths(FALSE)
<1> SUFFICES ASSUME now \in 0..MaxTime, NEW overlay \in BOOLEAN, NEW d, Sound(d, now), NEW cmds \in Seq(Bursts)
             PROVE  \E g : Path(d, Replay(overlay, d, cmds), cmds, overlay, g)
  BY DEF Paths
<1>1. PICK g : ReplaysBy(overlay, d, cmds, g) BY ReplayIs
<1>2. \A n \in 0..Len(cmds) : Sound(g[n], now) BY <1>1, ReplaySound
<1>3. ASSUME NEW i \in 1..Len(cmds) PROVE Becomes(g[i - 1], g[i], cmds[i], overlay)
  <2>1. i - 1 \in 0..Len(cmds) /\ cmds[i] \in Bursts OBVIOUS
  <2>2. g[i] = After(overlay, g[i - 1], cmds[i]) BY <1>1 DEF ReplaysBy
  <2>3. Sound(g[i - 1], now) BY <1>2, <2>1
  <2>4. Becomes(g[i - 1], After(overlay, g[i - 1], cmds[i]), cmds[i], overlay)
    BY <2>1, <2>3, RunIs DEF After
  <2> QED BY <2>2, <2>4
<1>4. Path(d, Replay(overlay, d, cmds), cmds, overlay, g) BY <1>1, <1>3 DEF Path, ReplaysBy
<1> QED BY <1>4

LEMMA ReplayPathsNext == (now \in 0..MaxTime => Paths(TRUE) /\ Paths(FALSE))'
BY ReplayPaths, PTL

(* The server that the transaction will leave, against what it reads.      *)
Shadows(v, s) ==
  /\ s.seq = v.seq
  /\ \A i \in Ids : /\ Exists(s, i) <=> Exists(v, i)
                    /\ Exists(v, i) => s.obj[i].row = v.obj[i].row
                    /\ s.m[i] \subseteq v.m[i]
                    /\ \A k \in ZKeys : s.z[k][i] = v.z[k][i]
  /\ \A a \in Emails : s.u[a].id = v.u[a].id

(* A server, or what is read of it, from which lifetimes took rows and     *)
(* the reservations of emails.                                             *)
Fades(d, e, emails) ==
  /\ \A i \in Ids : /\ Exists(e, i) => Exists(d, i) /\ e.obj[i].row = d.obj[i].row
                    /\ e.m[i] = d.m[i]
                    /\ \A k \in ZKeys : e.z[k][i] = d.z[k][i]
  /\ \A a \in Emails : a \in emails \/ e.u[a].id = d.u[a].id

LEMMA BurstKinds ==
  ASSUME NEW b \in Bursts
  PROVE  /\ b.id \in Ids /\ b.cmd \in {"put", "remove", "lifetime", "cascade"}
         /\ b.cmd = "put" => b \in Puts
         /\ b.cmd = "remove" => b \in Removes
         /\ b.cmd = "lifetime" => b \in Lifetimes
         /\ b.cmd = "cascade" => b \in CascadeBursts
BY DEF Bursts, Puts, Removes, Lifetimes, CascadeBursts

LEMMA BurstShadows ==
  ASSUME NEW v, NEW s, NEW w, NEW t, NEW b \in Bursts, Shadows(v, s),
         Becomes(v, w, b, TRUE), Becomes(s, t, b, FALSE)
  PROVE  Shadows(w, t)
<1>1. t.seq = w.seq BY DEF Becomes, Shadows
<1>2. ASSUME NEW i \in Ids
      PROVE  /\ Exists(t, i) <=> Exists(w, i)
             /\ Exists(w, i) => t.obj[i].row = w.obj[i].row
             /\ t.m[i] \subseteq w.m[i]
             /\ \A k \in ZKeys : t.z[k][i] = w.z[k][i]
  <2>1. /\ Exists(s, i) <=> Exists(v, i)
        /\ Exists(v, i) => s.obj[i].row = v.obj[i].row
        /\ s.m[i] \subseteq v.m[i]
        /\ \A k \in ZKeys : s.z[k][i] = v.z[k][i]
    BY DEF Shadows
  <2>2. CASE i # b.id BY <2>1, <2>2 DEF Becomes, Elsewhere, Exists
  <2>3. CASE i = b.id
    <3>1. RowAfter(v, w, b) /\ RowAfter(s, t, b) BY DEF Becomes
    <3>2. (Exists(t, i) <=> Exists(w, i)) /\ (Exists(w, i) => t.obj[i].row = w.obj[i].row)
      BY <2>1, <2>3, <3>1, BurstKinds DEF RowAfter
    <3>3. w.m[i] = MembersAfter(v, b, TRUE) /\ t.m[i] = MembersAfter(s, b, FALSE) BY <2>3 DEF Becomes
    <3>4. t.m[i] \subseteq w.m[i] BY <2>1, <2>3, <3>3 DEF MembersAfter
    <3>5. ASSUME NEW k \in ZKeys PROVE t.z[k][i] = w.z[k][i]
      <4>1. t.z[k][i] = ScoreAfter(s, b, k) /\ w.z[k][i] = ScoreAfter(v, b, k) BY <2>3 DEF Becomes
      <4>2. s.z[k][b.id] = v.z[k][b.id] BY <2>1, <2>3
      <4> QED BY <4>1, <4>2 DEF ScoreAfter
    <3> QED BY <3>2, <3>4, <3>5
  <2> QED BY <2>2, <2>3
<1>3. ASSUME NEW a \in Emails PROVE t.u[a].id = w.u[a].id
  <2>1. t.u[a].id = HolderAfter(s, b, a) /\ w.u[a].id = HolderAfter(v, b, a) BY DEF Becomes
  <2>2. s.u[a].id = v.u[a].id BY DEF Shadows
  <2> QED BY <2>1, <2>2 DEF HolderAfter
<1> QED BY <1>1, <1>2, <1>3 DEF Shadows

LEMMA BurstFades ==
  ASSUME NEW d, NEW e, NEW p, NEW q, NEW emails, NEW b \in Bursts, NEW overlay \in BOOLEAN,
         Fades(d, e, emails), Becomes(d, p, b, overlay), Becomes(e, q, b, overlay)
  PROVE  Fades(p, q, emails)
<1>1. ASSUME NEW i \in Ids
      PROVE  /\ Exists(q, i) => Exists(p, i) /\ q.obj[i].row = p.obj[i].row
             /\ q.m[i] = p.m[i]
             /\ \A k \in ZKeys : q.z[k][i] = p.z[k][i]
  <2>1. /\ Exists(e, i) => Exists(d, i) /\ e.obj[i].row = d.obj[i].row
        /\ e.m[i] = d.m[i]
        /\ \A k \in ZKeys : e.z[k][i] = d.z[k][i]
    BY DEF Fades
  <2>2. CASE i # b.id BY <2>1, <2>2 DEF Becomes, Elsewhere, Exists
  <2>3. CASE i = b.id
    <3>1. RowAfter(d, p, b) /\ RowAfter(e, q, b) BY DEF Becomes
    <3>2. Exists(q, i) => Exists(p, i) /\ q.obj[i].row = p.obj[i].row
      BY <2>1, <2>3, <3>1, BurstKinds DEF RowAfter
    <3>3. p.m[i] = MembersAfter(d, b, overlay) /\ q.m[i] = MembersAfter(e, b, overlay)
      BY <2>3 DEF Becomes
    <3>4. q.m[i] = p.m[i] BY <2>1, <2>3, <3>3 DEF MembersAfter
    <3>5. ASSUME NEW k \in ZKeys PROVE q.z[k][i] = p.z[k][i]
      <4>1. q.z[k][i] = ScoreAfter(e, b, k) /\ p.z[k][i] = ScoreAfter(d, b, k) BY <2>3 DEF Becomes
      <4>2. e.z[k][b.id] = d.z[k][b.id] BY <2>1, <2>3
      <4> QED BY <4>1, <4>2 DEF ScoreAfter
    <3> QED BY <3>2, <3>4, <3>5
  <2> QED BY <2>2, <2>3
<1>2. ASSUME NEW a \in Emails, a \notin emails PROVE q.u[a].id = p.u[a].id
  <2>1. q.u[a].id = HolderAfter(e, b, a) /\ p.u[a].id = HolderAfter(d, b, a) BY DEF Becomes
  <2>2. e.u[a].id = d.u[a].id BY <1>2 DEF Fades
  <2> QED BY <2>1, <2>2 DEF HolderAfter
<1> QED BY <1>1, <1>2 DEF Fades

LEMMA PathSeq ==
  ASSUME NEW d, NEW e, NEW cmds \in Seq(Bursts), NEW overlay \in BOOLEAN, NEW g,
         Path(d, e, cmds, overlay, g)
  PROVE  e.seq = d.seq
<1> DEFINE N == Len(cmds)
           Fails == {n \in 0..N : g[n].seq # d.seq}
<1>1. N \in Nat /\ N \in 0..N OBVIOUS
<1>2. g[0] = d /\ g[N] = e /\ \A i \in 1..N : Becomes(g[i - 1], g[i], cmds[i], overlay) BY DEF Path
<1> HIDE DEF N
<1> SUFFICES ASSUME Fails # {} PROVE FALSE BY <1>1, <1>2
<1>3. PICK n \in Fails : n = 0 \/ (n > 0 /\ n - 1 \in (0..N) \ Fails) BY <1>1, FirstFailure
<1>4. n # 0 BY <1>2, <1>3
<1>5. n \in 1..N /\ g[n - 1].seq = d.seq BY <1>1, <1>3, <1>4
<1>6. g[n].seq = g[n - 1].seq BY <1>2, <1>5 DEF Becomes
<1> QED BY <1>3, <1>5, <1>6

LEMMA PathShadows ==
  ASSUME NEW v, NEW s, NEW w, NEW t, NEW cmds \in Seq(Bursts), NEW g, NEW h, Shadows(v, s),
         Path(v, w, cmds, TRUE, g), Path(s, t, cmds, FALSE, h)
  PROVE  Shadows(w, t)
<1> DEFINE N == Len(cmds)
           Fails == {n \in 0..N : ~ Shadows(g[n], h[n])}
<1>1. N \in Nat /\ N \in 0..N /\ \A i \in 1..N : cmds[i] \in Bursts OBVIOUS
<1>2. /\ g[0] = v /\ g[N] = w /\ \A i \in 1..N : Becomes(g[i - 1], g[i], cmds[i], TRUE)
      /\ h[0] = s /\ h[N] = t /\ \A i \in 1..N : Becomes(h[i - 1], h[i], cmds[i], FALSE)
  BY DEF Path
<1> HIDE DEF N
<1> SUFFICES ASSUME Fails # {} PROVE FALSE BY <1>1, <1>2
<1>3. PICK n \in Fails : n = 0 \/ (n > 0 /\ n - 1 \in (0..N) \ Fails) BY <1>1, FirstFailure
<1>4. n # 0 BY <1>2, <1>3
<1>5. n \in 1..N /\ Shadows(g[n - 1], h[n - 1]) BY <1>1, <1>3, <1>4
<1>6. Becomes(g[n - 1], g[n], cmds[n], TRUE) /\ Becomes(h[n - 1], h[n], cmds[n], FALSE) BY <1>2, <1>5
<1>7. Shadows(g[n], h[n]) BY <1>1, <1>5, <1>6, BurstShadows
<1> QED BY <1>3, <1>7

LEMMA PathFades ==
  ASSUME NEW d, NEW e, NEW p, NEW q, NEW emails, NEW cmds \in Seq(Bursts), NEW overlay \in BOOLEAN,
         NEW g, NEW h, Fades(d, e, emails), Path(d, p, cmds, overlay, g), Path(e, q, cmds, overlay, h)
  PROVE  Fades(p, q, emails)
<1> DEFINE N == Len(cmds)
           Fails == {n \in 0..N : ~ Fades(g[n], h[n], emails)}
<1>1. N \in Nat /\ N \in 0..N /\ \A i \in 1..N : cmds[i] \in Bursts OBVIOUS
<1>2. /\ g[0] = d /\ g[N] = p /\ \A i \in 1..N : Becomes(g[i - 1], g[i], cmds[i], overlay)
      /\ h[0] = e /\ h[N] = q /\ \A i \in 1..N : Becomes(h[i - 1], h[i], cmds[i], overlay)
  BY DEF Path
<1> HIDE DEF N
<1> SUFFICES ASSUME Fails # {} PROVE FALSE BY <1>1, <1>2
<1>3. PICK n \in Fails : n = 0 \/ (n > 0 /\ n - 1 \in (0..N) \ Fails) BY <1>1, FirstFailure
<1>4. n # 0 BY <1>2, <1>3
<1>5. n \in 1..N /\ Fades(g[n - 1], h[n - 1], emails) BY <1>1, <1>3, <1>4
<1>6. Becomes(g[n - 1], g[n], cmds[n], overlay) /\ Becomes(h[n - 1], h[n], cmds[n], overlay)
  BY <1>2, <1>5
<1>7. Fades(g[n], h[n], emails) BY <1>1, <1>5, <1>6, BurstFades
<1> QED BY <1>3, <1>7

-----------------------------------------------------------------------------
(* What each burst needs of the store that its operation reads, and what   *)
(* it keeps.                                                               *)

Fits(V, L, b) ==
  /\ b.cmd \in {"put", "remove"} => Reserved(V, L, b.id, b.before)
  /\ b.cmd = "put" =>
       /\ b.id <= V.seq /\ V.m[b.id] \subseteq b.before
       /\ \A k \in EqualityKeys : V.z[k][b.id] > 0 => k \in b.before
       /\ b.row.email \in L \/ V.u[b.row.email].id \in {0, b.id}
  /\ b.cmd = "cascade" =>
       /\ Exists(V, b.id) => /\ Equality(V.obj[b.id].row) \subseteq b.before
                             /\ b.before \subseteq Plan(V.obj[b.id].row)
       /\ b.id > V.seq => b.before = {}
       /\ V.z[IdsKey][b.id] = b.score
MidwayAfter(b) == IF b.cmd = "lifetime" THEN {b.id} ELSE {}

LEMMA KeysApart ==
  /\ IdsKey \in ZKeys /\ IdsKey \notin EqualityKeys /\ EqualityKeys \subseteq ZKeys
  /\ \A row \in Rows :
       /\ row.email \in Emails /\ IdsKey \notin Plan(row) /\ Equality(row) \subseteq EqualityKeys
       /\ \A k \in EqualityKeys : k \in Plan(row) <=> k \in Equality(row)
       /\ \A a \in Emails : <<"u", a>> \in Plan(row) <=> a = row.email
       /\ Equality(row) \subseteq Plan(row)
<1>1. /\ IdsKey \in ZKeys /\ IdsKey \notin EqualityKeys /\ EqualityKeys \subseteq ZKeys
  BY DEF ZKeys, EqualityKeys, IdsKey
<1>2. ASSUME NEW row \in Rows
      PROVE  /\ row.email \in Emails /\ IdsKey \notin Plan(row) /\ Equality(row) \subseteq EqualityKeys
             /\ \A k \in EqualityKeys : k \in Plan(row) <=> k \in Equality(row)
             /\ \A a \in Emails : <<"u", a>> \in Plan(row) <=> a = row.email
             /\ Equality(row) \subseteq Plan(row)
  <2>1. row.owner \in Owners /\ row.email \in Emails BY DEF Rows
  <2>2. \A k \in EqualityKeys : k[1] = "owner" \/ k[1] = "email" BY DEF EqualityKeys
  <2>3. \A k : k \in Plan(row) <=> (k \in Equality(row) \/ k = <<"u", row.email>>) BY DEF Plan, Unique
  <2>4. \A k : k \in Equality(row) <=> (k = <<"owner", row.owner>> \/ k = <<"email", row.email>>)
    BY DEF Equality
  <2>5. Equality(row) \subseteq EqualityKeys BY <2>1, KeysOfRows
  <2>6. \A a : <<"u", a>>[1] = "u" /\ <<"u", a>>[2] = a OBVIOUS
  <2>7. IdsKey[1] = "ids" BY DEF IdsKey
  <2>8. IdsKey \notin Plan(row) BY <2>2, <2>3, <2>5, <2>6, <2>7
  <2>9. \A k \in EqualityKeys : k \in Plan(row) <=> k \in Equality(row) BY <2>2, <2>3, <2>6
  <2>10. \A a \in Emails : <<"u", a>> \in Plan(row) <=> a = row.email BY <2>2, <2>3, <2>5, <2>6
  <2> QED BY <2>1, <2>3, <2>5, <2>8, <2>9, <2>10
<1> QED BY <1>1, <1>2

LEMMA StoreFields ==
  ASSUME NEW V \in Stores
  PROVE  /\ V.seq \in Nat
         /\ \A i \in Ids : /\ V.obj[i].row \in Rows /\ V.obj[i].expires \in 0..Never
                           /\ V.m[i] \subseteq Keys
                           /\ \A k \in ZKeys : V.z[k][i] \in 0..Never
<1>1. V.obj \in [Ids -> Objects] /\ V.z \in [ZKeys -> [Ids -> 0..Never]]
      /\ V.m \in [Ids -> SUBSET Keys] /\ V.seq \in 0..MaxIds
  BY DEF Stores
<1>2. ASSUME NEW i \in Ids PROVE V.obj[i].row \in Rows /\ V.obj[i].expires \in 0..Never
  <2>1. V.obj[i] \in Objects BY <1>1
  <2> QED BY <2>1 DEF Objects
<1>3. ASSUME NEW i \in Ids, NEW k \in ZKeys PROVE V.z[k][i] \in 0..Never
  <2>1. V.z[k] \in [Ids -> 0..Never] BY <1>1
  <2> QED BY <2>1
<1>4. \A i \in Ids : V.m[i] \subseteq Keys
  <2>1. \A i \in Ids : V.m[i] \in SUBSET Keys BY <1>1
  <2> QED BY <2>1
<1> QED BY <1>1, <1>2, <1>3, <1>4, Numbers

(* A burst takes no reservation away from another row, unless a lifetime   *)
(* had taken one.                                                          *)
LEMMA OthersHold ==
  ASSUME NEW V, NEW L, NEW b \in Bursts, Fits(V, L, b), NEW S, NEW T, NEW overlay \in BOOLEAN,
         \A a \in Emails : S.u[a].id = V.u[a].id, Becomes(S, T, b, overlay),
         NEW i \in Ids \ {b.id}, NEW a \in Emails, Holds(S, L, i, a)
  PROVE  Holds(T, L, i, a)
<1>1. T.u[a].id = HolderAfter(S, b, a) /\ S.u[a].id = V.u[a].id BY DEF Becomes
<1>2. i # 0 BY Numbers
<1>3. CASE b.cmd \notin {"put", "remove"} BY <1>1, <1>3 DEF HolderAfter, Holds
<1>4. CASE b.cmd \in {"put", "remove"} /\ <<"u", a>> \in b.before
  <2>1. Holds(V, L, b.id, a) BY <1>4 DEF Fits, Reserved
  <2> QED BY <1>1, <2>1 DEF Holds
<1>5. CASE b.cmd = "remove" /\ <<"u", a>> \notin b.before BY <1>1, <1>5 DEF HolderAfter, Holds
<1>6. CASE b.cmd = "put" /\ <<"u", a>> \notin b.before
  <2>1. b.row \in Rows BY <1>6, BurstKinds DEF Puts
  <2>2. CASE a = b.row.email BY <1>1, <1>2, <1>6, <2>2 DEF Fits, Holds
  <2>3. CASE a # b.row.email
    <3>1. <<"u", a>> \notin Plan(b.row) BY <2>1, <2>3, KeysApart
    <3> QED BY <1>1, <1>6, <3>1 DEF HolderAfter, Holds
  <2> QED BY <2>2, <2>3
<1> QED BY <1>3, <1>4, <1>5, <1>6

LEMMA BurstClean ==
  ASSUME NEW V \in Stores, NEW L, NEW b \in Bursts, Fits(V, L, b), NEW W, NEW overlay \in BOOLEAN,
         Becomes(V, W, b, overlay), Clean(V, L)
  PROVE  Clean(W, L)
<1> SUFFICES ASSUME NEW i \in Ids, Exists(W, i)
             PROVE  Tidy(W, i, W.obj[i].row) /\ Holds(W, L, i, W.obj[i].row.email)
  BY DEF Clean
<1>1. CASE i # b.id
  <2>1. /\ W.obj[i] = V.obj[i] /\ W.m[i] = V.m[i] /\ \A k \in ZKeys : W.z[k][i] = V.z[k][i]
    BY <1>1 DEF Becomes, Elsewhere
  <2>2. Tidy(V, i, V.obj[i].row) /\ Holds(V, L, i, V.obj[i].row.email) /\ V.obj[i].row \in Rows
    BY <2>1, StoreFields DEF Clean, Exists
  <2>3. Holds(W, L, i, V.obj[i].row.email) BY <1>1, <2>2, KeysApart, OthersHold
  <2>4. Tidy(W, i, V.obj[i].row) BY <2>1, <2>2, KeysApart DEF Tidy
  <2> QED BY <2>1, <2>3, <2>4
<1>2. CASE i = b.id
  <2>1. /\ RowAfter(V, W, b) /\ \A k \in ZKeys : W.z[k][i] = ScoreAfter(V, b, k)
        /\ \A a \in Emails : W.u[a].id = HolderAfter(V, b, a)
        /\ W.m[i] = MembersAfter(V, b, overlay)
    BY <1>2 DEF Becomes
  <2>2. b.cmd # "remove" BY <1>2, <2>1 DEF RowAfter
  <2>3. CASE b.cmd = "put"
    <3>1. b.row \in Rows /\ W.obj[i].row = b.row BY <1>2, <2>1, <2>3, BurstKinds DEF Puts, RowAfter
    <3>2. ASSUME NEW k \in EqualityKeys, W.z[k][i] > 0 PROVE k \in Equality(b.row)
      <4>1. W.z[k][i] = ScoreAfter(V, b, k) BY <2>1, KeysApart
      <4>2. V.z[k][i] > 0 => k \in b.before BY <1>2, <2>3 DEF Fits
      <4>3. k # IdsKey /\ (k \in Plan(b.row) <=> k \in Equality(b.row)) BY <3>1, KeysApart
      <4> QED BY <1>2, <2>3, <3>2, <4>1, <4>2, <4>3 DEF ScoreAfter
    <3>3. W.m[i] \subseteq Plan(b.row) BY <1>2, <2>1, <2>3 DEF MembersAfter, Fits
    <3>4. Holds(W, L, i, b.row.email)
      <4> DEFINE a == b.row.email
      <4>1. a \in Emails /\ <<"u", a>> \in Plan(b.row) BY <3>1, KeysApart
      <4>2. W.u[a].id = HolderAfter(V, b, a) BY <2>1, <4>1
      <4>3. CASE <<"u", a>> \in b.before
        <5>1. Holds(V, L, i, a) BY <1>2, <2>3, <4>1, <4>3 DEF Fits, Reserved
        <5> QED BY <2>3, <4>1, <4>2, <4>3, <5>1 DEF HolderAfter, Holds
      <4>4. CASE <<"u", a>> \notin b.before
        BY <1>2, <2>3, <4>1, <4>2, <4>4 DEF HolderAfter, Holds
      <4> QED BY <4>3, <4>4
    <3> QED BY <3>1, <3>2, <3>3, <3>4 DEF Tidy
  <2>4. CASE b.cmd \in {"lifetime", "cascade"}
    <3> DEFINE row == V.obj[i].row
    <3>1. Exists(V, i) /\ W.obj[i].row = row BY <1>2, <2>1, <2>4 DEF RowAfter
    <3>2. Tidy(V, i, row) /\ Holds(V, L, i, row.email) /\ row \in Rows
      BY <3>1, StoreFields DEF Clean
    <3> HIDE DEF row
    <3>3. ASSUME NEW k \in EqualityKeys, W.z[k][i] > 0 PROVE k \in Equality(row)
      <4>1. W.z[k][i] = ScoreAfter(V, b, k) BY <2>1, KeysApart
      <4>2. V.z[k][i] > 0 => k \in Equality(row) BY <3>2 DEF Tidy
      <4>3. k # IdsKey /\ (k \in Plan(row) <=> k \in Equality(row)) BY <3>2, KeysApart
      <4>4. b.cmd = "cascade" => b.before \subseteq Plan(row) BY <1>2, <3>1 DEF Fits, row
      <4> QED BY <1>2, <2>4, <3>3, <4>1, <4>2, <4>3, <4>4 DEF ScoreAfter
    <3>4. W.m[i] \subseteq Plan(row) BY <1>2, <2>1, <2>4, <3>2 DEF MembersAfter, Tidy
    <3>5. Holds(W, L, i, row.email)
      <4>1. row.email \in Emails BY <3>2, KeysApart
      <4> QED BY <2>1, <2>4, <3>2, <4>1 DEF HolderAfter, Holds
    <3> QED BY <3>1, <3>3, <3>4, <3>5 DEF Tidy
  <2> QED BY <2>2, <2>3, <2>4, BurstKinds
<1> QED BY <1>1, <1>2

LEMMA BurstFresh ==
  ASSUME NEW V \in Stores, NEW L, NEW b \in Bursts, Fits(V, L, b), NEW W, NEW overlay \in BOOLEAN,
         Becomes(V, W, b, overlay), Fresh(V)
  PROVE  Fresh(W)
<1> SUFFICES ASSUME NEW i \in Ids, i > V.seq
             PROVE  ~ Exists(W, i) /\ W.m[i] = {} /\ \A k \in EqualityKeys : W.z[k][i] = 0
  BY DEF Fresh, Becomes
<1>1. ~ Exists(V, i) /\ V.m[i] = {} /\ \A k \in EqualityKeys : V.z[k][i] = 0 BY DEF Fresh
<1>2. CASE i # b.id BY <1>1, <1>2, KeysApart DEF Becomes, Elsewhere, Exists
<1>3. CASE i = b.id
  <2>1. b.cmd # "put" BY <1>3, StoreFields, Numbers DEF Fits
  <2>2. /\ RowAfter(V, W, b) /\ \A k \in ZKeys : W.z[k][i] = ScoreAfter(V, b, k)
        /\ W.m[i] = MembersAfter(V, b, overlay)
    BY <1>3 DEF Becomes
  <2>3. ~ Exists(W, i) BY <1>1, <1>3, <2>1, <2>2, BurstKinds DEF RowAfter
  <2>4. W.m[i] = {} BY <1>1, <1>3, <2>1, <2>2 DEF MembersAfter
  <2>5. ASSUME NEW k \in EqualityKeys PROVE W.z[k][i] = 0
    <3>1. W.z[k][i] = ScoreAfter(V, b, k) /\ k # IdsKey BY <2>2, KeysApart
    <3>2. b.cmd = "cascade" => b.before = {} BY <1>3 DEF Fits
    <3> QED BY <1>1, <1>3, <2>1, <3>1, <3>2, BurstKinds DEF ScoreAfter
  <2> QED BY <2>3, <2>4, <2>5
<1> QED BY <1>2, <1>3

LEMMA BurstEven ==
  ASSUME NEW V \in Stores, NEW L, NEW b \in Bursts, Fits(V, L, b), NEW W, NEW overlay \in BOOLEAN,
         Becomes(V, W, b, overlay), NEW X, Even(V, X), X \subseteq {b.id}, b.cmd # "cascade" => X = {}
  PROVE  Even(W, MidwayAfter(b))
<1> SUFFICES ASSUME NEW i \in Ids \ MidwayAfter(b), Exists(W, i), NEW k \in Equality(W.obj[i].row)
             PROVE  W.z[k][i] = W.z[IdsKey][i]
  BY DEF Even
<1>1. CASE i # b.id
  <2>1. W.obj[i] = V.obj[i] /\ \A q \in ZKeys : W.z[q][i] = V.z[q][i] BY <1>1 DEF Becomes, Elsewhere
  <2>2. Exists(V, i) /\ V.obj[i].row \in Rows BY <2>1, StoreFields DEF Exists
  <2>3. k \in ZKeys /\ IdsKey \in ZKeys BY <2>1, <2>2, KeysApart
  <2>4. V.z[k][i] = V.z[IdsKey][i] BY <1>1, <2>1, <2>2 DEF Even
  <2> QED BY <2>1, <2>3, <2>4
<1>2. CASE i = b.id
  <2>1. RowAfter(V, W, b) /\ \A q \in ZKeys : W.z[q][i] = ScoreAfter(V, b, q) BY <1>2 DEF Becomes
  <2>2. b.cmd = "put" \/ b.cmd = "cascade"
    BY <1>2, <2>1, BurstKinds DEF RowAfter, MidwayAfter
  <2>3. CASE b.cmd = "put"
    <3>1. b.row \in Rows /\ W.obj[i].row = b.row BY <1>2, <2>1, <2>3, BurstKinds DEF Puts, RowAfter
    <3>2. k \in ZKeys /\ k \in Plan(b.row) /\ IdsKey \in ZKeys BY <3>1, KeysApart
    <3> QED BY <2>1, <2>3, <3>2 DEF ScoreAfter
  <2>4. CASE b.cmd = "cascade"
    <3>1. Exists(V, i) /\ W.obj[i].row = V.obj[i].row BY <1>2, <2>1, <2>4 DEF RowAfter
    <3>2. k \in b.before BY <1>2, <2>4, <3>1 DEF Fits
    <3>3. k \in ZKeys /\ IdsKey \in ZKeys
      <4>1. V.obj[i].row \in Rows BY StoreFields
      <4> QED BY <3>1, <4>1, KeysApart
    <3>4. V.z[IdsKey][i] = b.score BY <1>2, <2>4 DEF Fits
    <3> QED BY <1>2, <2>1, <2>4, <3>2, <3>3, <3>4 DEF ScoreAfter
  <2> QED BY <2>2, <2>3, <2>4
<1> QED BY <1>1, <1>2

LEMMA BurstFull ==
  ASSUME NEW S \in Stores, NEW b \in Bursts, NEW T, Becomes(S, T, b, FALSE), Full(S)
  PROVE  Full(T)
<1> SUFFICES ASSUME NEW i \in Ids, Exists(T, i) PROVE Plan(T.obj[i].row) \subseteq T.m[i]
  BY DEF Full
<1>1. CASE i # b.id BY <1>1 DEF Becomes, Elsewhere, Full, Exists
<1>2. CASE i = b.id
  <2>1. RowAfter(S, T, b) /\ T.m[i] = MembersAfter(S, b, FALSE) BY <1>2 DEF Becomes
  <2>2. CASE b.cmd = "put" BY <1>2, <2>1, <2>2 DEF RowAfter, MembersAfter
  <2>3. CASE b.cmd = "remove" BY <1>2, <2>1, <2>3 DEF RowAfter
  <2>4. CASE b.cmd \in {"lifetime", "cascade"} BY <1>2, <2>1, <2>4 DEF RowAfter, MembersAfter, Full
  <2> QED BY <2>2, <2>3, <2>4, BurstKinds
<1> QED BY <1>1, <1>2

LEMMA BurstClaims ==
  ASSUME NEW V, NEW L, NEW b \in Bursts, Fits(V, L, b), NEW S, Shadows(V, S), NEW T,
         Becomes(S, T, b, FALSE), Claims(S, L)
  PROVE  Claims(T, L)
<1> SUFFICES ASSUME NEW i \in Ids, NEW a \in Emails, <<"u", a>> \in T.m[i] PROVE Holds(T, L, i, a)
  BY DEF Claims, Reserved
<1>0. (\A e \in Emails : S.u[e].id = V.u[e].id) /\ S.m[i] \subseteq V.m[i] BY DEF Shadows
<1>1. CASE i # b.id
  <2>1. <<"u", a>> \in S.m[i] BY <1>1 DEF Becomes, Elsewhere
  <2>2. Holds(S, L, i, a) BY <2>1 DEF Claims, Reserved
  <2> QED BY <1>0, <1>1, <2>2, OthersHold
<1>2. CASE i = b.id
  <2>1. T.m[i] = MembersAfter(S, b, FALSE) /\ T.u[a].id = HolderAfter(S, b, a) BY <1>2 DEF Becomes
  <2>2. CASE b.cmd = "put"
    <3>1. V.m[i] \subseteq b.before BY <1>2, <2>2 DEF Fits
    <3>2. <<"u", a>> \in Plan(b.row) BY <1>0, <1>2, <2>1, <2>2, <3>1 DEF MembersAfter
    <3>3. CASE <<"u", a>> \in b.before
      <4>1. Holds(V, L, i, a) BY <1>2, <2>2, <3>3 DEF Fits, Reserved
      <4> QED BY <1>0, <2>1, <2>2, <3>2, <3>3, <4>1 DEF HolderAfter, Holds
    <3>4. CASE <<"u", a>> \notin b.before BY <1>2, <2>1, <2>2, <3>2, <3>4 DEF HolderAfter, Holds
    <3> QED BY <3>3, <3>4
  <2>3. CASE b.cmd = "remove" BY <2>1, <2>3 DEF MembersAfter
  <2>4. CASE b.cmd \in {"lifetime", "cascade"}
    <3>1. <<"u", a>> \in S.m[i] BY <1>2, <2>1, <2>4 DEF MembersAfter
    <3>2. Holds(S, L, i, a) BY <3>1 DEF Claims, Reserved
    <3> QED BY <2>1, <2>4, <3>2 DEF HolderAfter, Holds
  <2> QED BY <2>2, <2>3, <2>4, BurstKinds
<1> QED BY <1>1, <1>2

LEMMA BurstSettles ==
  ASSUME NEW V \in Stores, NEW S \in Stores, Shadows(V, S), NEW L, NEW X, Settled(V, S, L, X),
         NEW b \in Bursts, Fits(V, L, b), X \subseteq {b.id}, b.cmd # "cascade" => X = {},
         NEW W, NEW T, NEW overlay \in BOOLEAN, Becomes(V, W, b, overlay), Becomes(S, T, b, FALSE)
  PROVE  Settled(W, T, L, MidwayAfter(b))
<1>1. Clean(V, L) /\ Fresh(V) /\ Even(V, X) /\ Full(S) /\ Claims(S, L) BY DEF Settled
<1>2. Clean(W, L) BY <1>1, BurstClean
<1>3. Fresh(W) BY <1>1, BurstFresh
<1>4. Even(W, MidwayAfter(b)) BY <1>1, BurstEven
<1>5. Full(T) BY <1>1, BurstFull
<1>6. Claims(T, L) BY <1>1, BurstClaims
<1> QED BY <1>2, <1>3, <1>4, <1>5, <1>6 DEF Settled

-----------------------------------------------------------------------------
(* What an operation reads before and after a step.                        *)

LEMMA StillRun ==
  ASSUME now' = now, NEW d, NEW b
  PROVE  Run(d, b)' = Run(d, b) /\ Overlaid(d, b)' = Overlaid(d, b)
<1>1. ExpiresAt(b.ttl)' = ExpiresAt(b.ttl) BY DEF ExpiresAt
<1>2. Put(d, b)' = Put(d, b) BY <1>1 DEF Put
<1>3. Unput(d, b)' = Unput(d, b) BY DEF Unput
<1>4. Lifetime(d, b)' = Lifetime(d, b) BY <1>1 DEF Lifetime
<1>5. Cascade(d, b)' = Cascade(d, b) BY <1>1 DEF Cascade
<1>6. Run(d, b)' = Run(d, b) BY <1>2, <1>3, <1>4, <1>5 DEF Run
<1>7. Overlaid(d, b)' = Overlaid(d, b) BY <1>6 DEF Overlaid
<1> QED BY <1>6, <1>7

LEMMA StillReplay ==
  ASSUME now' = now, NEW d, NEW cmds, NEW overlay
  PROVE  Replay(overlay, d, cmds)' = Replay(overlay, d, cmds)
<1>1. \A e, b : Run(e, b)' = Run(e, b) /\ Overlaid(e, b)' = Overlaid(e, b) BY StillRun
<1> QED BY <1>1 DEF Replay

ViewIs(c, d, cmds, tx) ==
  (db = d /\ buffer[c] = cmds /\ inTx[c] = tx) =>
    /\ View(c) = (IF tx THEN Replay(TRUE, d, cmds) ELSE d)
    /\ Sent(c) = Replay(FALSE, d, cmds)
LEMMA ViewIsSo == \A c \in Clients : \A d, cmds, tx : ViewIs(c, d, cmds, tx)
BY DEF ViewIs, View, Sent
LEMMA ViewIsSoNext == (\A c \in Clients : \A d, cmds, tx : ViewIs(c, d, cmds, tx))'
BY ViewIsSo, PTL

LEMMA ViewNext ==
  ASSUME now' = now, NEW c \in Clients
  PROVE  /\ View(c)' = IF inTx'[c] THEN Replay(TRUE, db', buffer'[c]) ELSE db'
         /\ Sent(c)' = Replay(FALSE, db', buffer'[c])
<1>1. PICK d, cmds, tx : d = db' /\ cmds = buffer'[c] /\ tx = inTx'[c] OBVIOUS
<1>2. /\ View(c)' = IF tx THEN Replay(TRUE, d, cmds)' ELSE d
      /\ Sent(c)' = Replay(FALSE, d, cmds)'
  <2>1. ViewIs(c, d, cmds, tx)' BY ViewIsSoNext
  <2> QED BY <1>1, <2>1 DEF ViewIs
<1>3. \A overlay : Replay(overlay, d, cmds)' = Replay(overlay, d, cmds) BY StillReplay
<1> QED BY <1>1, <1>2, <1>3

LEMMA QuietViews ==
  ASSUME Quiet, UNCHANGED <<now, inTx>>, NEW c \in Clients
  PROVE  View(c)' = View(c) /\ Sent(c)' = Sent(c)
BY ViewNext DEF Quiet, View, Sent

Pathed(c) == /\ \E g : Path(db, View(c), buffer[c], TRUE, g)
             /\ \E g : Path(db, Sent(c), buffer[c], FALSE, g)

LEMMA ViewPaths == ASSUME IInv, NEW c \in Clients PROVE Pathed(c)
<1>1. Sound(db, now) /\ now \in 0..MaxTime /\ buffer[c] \in Seq(Bursts) /\ inTx[c] \in BOOLEAN
      /\ (~inTx[c] => buffer[c] = <<>>)
  BY DEF IInv, Storing
<1>2. View(c) = Replay(TRUE, db, buffer[c]) BY <1>1, ReplayNone DEF View
<1>3. Paths(TRUE) /\ Paths(FALSE) BY <1>1, ReplayPaths
<1>4. \E g : Path(db, View(c), buffer[c], TRUE, g) BY <1>1, <1>2, <1>3 DEF Paths
<1>5. \E g : Path(db, Sent(c), buffer[c], FALSE, g) BY <1>1, <1>3 DEF Paths, Sent
<1> QED BY <1>4, <1>5 DEF Pathed

LEMMA AllPathed == IInv => \A c \in Clients : Pathed(c)
BY ViewPaths, Zenon
LEMMA AllPathedNext == (IInv => \A c \in Clients : Pathed(c))'
BY AllPathed, PTL

Viewed(c) ==
  /\ View(c) \in Stores /\ Sent(c) \in Stores /\ db \in Stores
  /\ Shadows(View(c), Sent(c)) /\ View(c).seq = db.seq
  /\ ~inTx[c] => View(c) = db /\ Sent(c) = db

LEMMA InView == ASSUME IInv, NEW c \in Clients PROVE Viewed(c)
<1>1. Sound(db, now) /\ now \in 0..MaxTime /\ buffer[c] \in Seq(Bursts)
      /\ (~inTx[c] => buffer[c] = <<>>)
  BY DEF IInv, Storing
<1>2. PICK g : Path(db, View(c), buffer[c], TRUE, g) BY ViewPaths DEF Pathed
<1>3. PICK h : Path(db, Sent(c), buffer[c], FALSE, h) BY ViewPaths DEF Pathed
<1>4. Shadows(db, db) BY DEF Shadows
<1>5. Shadows(View(c), Sent(c)) BY <1>1, <1>2, <1>3, <1>4, PathShadows
<1>6. View(c).seq = db.seq BY <1>1, <1>2, PathSeq
<1>7. View(c) \in Stores /\ Sent(c) \in Stores /\ db \in Stores
  BY <1>1, ViewSound, ReplayStaysSound DEF IInv, Sent, Sound
<1>8. ~inTx[c] => View(c) = db /\ Sent(c) = db BY <1>1, ReplayNone DEF View, Sent
<1> QED BY <1>5, <1>6, <1>7, <1>8 DEF Viewed

LEMMA AllViewed == IInv => \A c \in Clients : Viewed(c)
BY InView, Zenon
LEMMA AllViewedNext == (IInv => \A c \in Clients : Viewed(c))'
BY AllViewed, PTL

(* Whatever a burst is sent over, it comes last.                           *)
LEMMA Emits ==
  ASSUME IInv, NEW c \in Clients, NEW b \in Bursts, Emit(c, b), UNCHANGED <<now, inTx>>
  PROVE  /\ \E overlay \in BOOLEAN : Becomes(View(c), View(c)', b, overlay)
         /\ Becomes(Sent(c), Sent(c)', b, FALSE)
         /\ inTx[c] => db' = db
         /\ ~inTx[c] => Becomes(View(c), View(c)', b, FALSE) /\ View(c)' = db' /\ Sent(c)' = db'
<1>1. Sound(db, now) /\ now \in 0..MaxTime /\ buffer \in [Clients -> Seq(Bursts)] /\ buffer[c] \in Seq(Bursts)
      /\ (~inTx[c] => buffer[c] = <<>>) /\ inTx[c] \in BOOLEAN
  BY DEF IInv, Storing
<1>2. Sound(View(c), now) /\ Sound(Sent(c), now)
  BY <1>1, ViewSound, ReplayStaysSound DEF IInv, Sent
<1>3. CASE inTx[c]
  <2>1. buffer'[c] = Append(buffer[c], b) /\ db' = db BY <1>1, <1>3 DEF Emit
  <2>2. View(c)' = Overlaid(View(c), b)
    <3>1. View(c)' = Replay(TRUE, db, Append(buffer[c], b)) BY <1>3, <2>1, ViewNext
    <3>2. View(c) = Replay(TRUE, db, buffer[c]) BY <1>3 DEF View
    <3>3. Replay(TRUE, db, Append(buffer[c], b)) = After(TRUE, Replay(TRUE, db, buffer[c]), b)
      BY <1>1, ReplayAppends
    <3>4. After(TRUE, View(c), b) = Overlaid(View(c), b) BY DEF After
    <3> QED BY <3>1, <3>2, <3>3, <3>4
  <2>3. Sent(c)' = Run(Sent(c), b)
    <3>1. Sent(c)' = Replay(FALSE, db, Append(buffer[c], b)) BY <1>3, <2>1, ViewNext
    <3>2. Sent(c) = Replay(FALSE, db, buffer[c]) BY DEF Sent
    <3>3. Replay(FALSE, db, Append(buffer[c], b)) = After(FALSE, Replay(FALSE, db, buffer[c]), b)
      BY <1>1, ReplayAppends
    <3>4. After(FALSE, Sent(c), b) = Run(Sent(c), b) BY DEF After
    <3> QED BY <3>1, <3>2, <3>3, <3>4
  <2> QED BY <1>1, <1>2, <1>3, <2>1, <2>2, <2>3, RunIs
<1>4. CASE ~inTx[c]
  <2>1. buffer'[c] = <<>> /\ db' = Run(db, b) BY <1>1, <1>4 DEF Emit
  <2>2. View(c)' = db' /\ Sent(c)' = db'
    <3>1. View(c)' = db' /\ Sent(c)' = Replay(FALSE, db', <<>>) BY <1>4, <2>1, ViewNext
    <3> QED BY <3>1, ReplayNone
  <2>3. View(c) = db /\ Sent(c) = db BY <1>4, InView DEF Viewed
  <2> QED BY <1>1, <1>4, <2>1, <2>2, <2>3, RunIs
<1> QED BY <1>3, <1>4

(* When the server loses what lifetimes take, so does what is read of it.  *)
LEMMA ViewsFade ==
  ASSUME IInv, IInv', UNCHANGED <<buffer>>, NEW emails, Fades(db, db', emails), NEW c \in Clients
  PROVE  Fades(View(c), View(c)', emails) /\ Fades(Sent(c), Sent(c)', emails)
<1>1. buffer[c] \in Seq(Bursts) BY DEF IInv, Storing
<1>2. PICK g : Path(db, View(c), buffer[c], TRUE, g) BY ViewPaths DEF Pathed
<1>3. PICK h : Path(db, Sent(c), buffer[c], FALSE, h) BY ViewPaths DEF Pathed
<1>4. Pathed(c)' BY AllPathedNext
<1>5. /\ \E k : Path(db', View(c)', buffer[c], TRUE, k)
      /\ \E k : Path(db', Sent(c)', buffer[c], FALSE, k)
  BY <1>4 DEF Pathed, Path
<1>6. PICK p : Path(db', View(c)', buffer[c], TRUE, p) BY <1>5
<1>7. PICK q : Path(db', Sent(c)', buffer[c], FALSE, q) BY <1>5
<1>8. Fades(View(c), View(c)', emails) BY <1>1, <1>2, <1>6, PathFades
<1>9. Fades(Sent(c), Sent(c)', emails) BY <1>1, <1>3, <1>7, PathFades
<1> QED BY <1>8, <1>9

-----------------------------------------------------------------------------
(* What holds of a store holds of what lifetimes leave of it.              *)

LEMMA FadeHolds ==
  ASSUME NEW V, NEW W, NEW L, NEW M, L \subseteq M, Fades(V, W, M),
         NEW i, NEW a \in Emails, Holds(V, L, i, a)
  PROVE  Holds(W, M, i, a)
BY DEF Fades, Holds

LEMMA FadeTidy ==
  ASSUME NEW V, NEW W, NEW M, Fades(V, W, M), NEW i \in Ids, NEW row, Tidy(V, i, row)
  PROVE  Tidy(W, i, row)
BY KeysApart DEF Fades, Tidy

LEMMA FadeStore ==
  ASSUME NEW V \in Stores, NEW W \in Stores, NEW L, NEW M, L \subseteq M, Fades(V, W, M), V.seq <= W.seq
  PROVE  /\ Clean(V, L) => Clean(W, M)
         /\ Fresh(V) => Fresh(W)
         /\ Full(V) => Full(W)
         /\ Claims(V, L) => Claims(W, M)
         /\ \A X : Even(V, X) => Even(W, X)
<1>1. \A i \in Ids : Exists(W, i) =>
        Exists(V, i) /\ W.obj[i].row = V.obj[i].row /\ V.obj[i].row \in Rows
  BY StoreFields DEF Fades
<1>2. ASSUME Clean(V, L) PROVE Clean(W, M)
  <2> SUFFICES ASSUME NEW i \in Ids, Exists(W, i)
               PROVE  Tidy(W, i, W.obj[i].row) /\ Holds(W, M, i, W.obj[i].row.email)
    BY DEF Clean
  <2>1. Tidy(V, i, W.obj[i].row) /\ Holds(V, L, i, W.obj[i].row.email) BY <1>1, <1>2 DEF Clean
  <2>2. W.obj[i].row.email \in Emails BY <1>1, KeysApart
  <2> QED BY <2>1, <2>2, FadeHolds, FadeTidy
<1>3. ASSUME Fresh(V) PROVE Fresh(W)
  <2> SUFFICES ASSUME NEW i \in Ids, i > W.seq
               PROVE  ~ Exists(W, i) /\ W.m[i] = {} /\ \A k \in EqualityKeys : W.z[k][i] = 0
    BY DEF Fresh
  <2>1. i > V.seq BY StoreFields, Numbers
  <2>2. ~ Exists(V, i) /\ V.m[i] = {} /\ \A k \in EqualityKeys : V.z[k][i] = 0 BY <1>3, <2>1 DEF Fresh
  <2> QED BY <1>1, <2>2, KeysApart DEF Fades
<1>4. ASSUME Full(V) PROVE Full(W) BY <1>1, <1>4 DEF Full, Fades
<1>5. ASSUME Claims(V, L) PROVE Claims(W, M)
  <2> SUFFICES ASSUME NEW i \in Ids, NEW a \in Emails, <<"u", a>> \in W.m[i] PROVE Holds(W, M, i, a)
    BY DEF Claims, Reserved
  <2>1. <<"u", a>> \in V.m[i] BY DEF Fades
  <2>2. Holds(V, L, i, a) BY <1>5, <2>1 DEF Claims, Reserved
  <2> QED BY <2>2, FadeHolds
<1>6. ASSUME NEW X, Even(V, X) PROVE Even(W, X)
  <2> SUFFICES ASSUME NEW i \in Ids \ X, Exists(W, i), NEW k \in Equality(W.obj[i].row)
               PROVE  W.z[k][i] = W.z[IdsKey][i]
    BY DEF Even
  <2>1. V.z[k][i] = V.z[IdsKey][i] BY <1>1, <1>6 DEF Even
  <2>2. k \in ZKeys /\ IdsKey \in ZKeys BY <1>1, KeysApart
  <2> QED BY <2>1, <2>2 DEF Fades
<1> QED BY <1>2, <1>3, <1>4, <1>5, <1>6

LEMMA FadeSettles ==
  ASSUME NEW V \in Stores, NEW W \in Stores, NEW S \in Stores, NEW T \in Stores,
         NEW L, NEW M, L \subseteq M, Fades(V, W, M), V.seq <= W.seq, Fades(S, T, M), S.seq <= T.seq,
         NEW X, Settled(V, S, L, X)
  PROVE  Settled(W, T, M, X)
<1>1. Clean(W, M) /\ Fresh(W) /\ Even(W, X) BY FadeStore DEF Settled
<1>2. Full(T) /\ Claims(T, M) BY FadeStore DEF Settled
<1> QED BY <1>1, <1>2 DEF Settled

LEMMA FadeInHand ==
  ASSUME NEW V \in Stores, NEW W \in Stores, NEW L, NEW M, L \subseteq M, Fades(V, W, M), W.seq = V.seq,
         NEW s \in Nat, NEW t \in Nat, s <= t, NEW j, NEW position, HoldsAt(j, position),
         position \in {"collect", "purge"} =>
           \A i \in Ids : W.obj[i].expires > t => V.obj[i].expires > s,
         InHand(V, L, s, position, j)
  PROVE  InHand(W, M, t, position, j)
<1> SUFFICES ASSUME position # "idle" PROVE InHand(W, M, t, position, j) BY DEF InHand
<1>1. /\ j.start \in 0..MaxTime /\ j.rows \subseteq [id : Ids, row : Rows] /\ j.expired \subseteq Ids
      /\ j.new \in Rows /\ (position \in AtARow => j.id \in Ids)
  BY DEF HoldsAt, Jobs
<1>2. /\ j.start <= s /\ RowsInHand(V, L, position, j) /\ Collecting(V, s, position, j)
      /\ Rewriting(V, L, position, j) /\ Cascading(V, position, j)
  BY DEF InHand
<1>3. j.start <= t BY <1>1, <1>2, Numbers
<1>4. RowsInHand(W, M, position, j)
  <2>1. ASSUME NEW r \in j.rows
        PROVE  r.id <= W.seq /\ Tidy(W, r.id, r.row) /\ Holds(W, M, r.id, r.row.email)
    <3>1. r.id \in Ids /\ r.row \in Rows BY <1>1
    <3>2. r.id <= V.seq /\ Tidy(V, r.id, r.row) /\ Holds(V, L, r.id, r.row.email)
      BY <1>2 DEF RowsInHand
    <3>3. r.row.email \in Emails BY <3>1, KeysApart
    <3> QED BY <3>1, <3>2, <3>3, FadeHolds, FadeTidy
  <2> QED BY <1>2, <2>1 DEF RowsInHand
<1>5. Collecting(W, t, position, j)
  <2>1. ASSUME NEW i \in Ids, position \in {"collect", "purge"},
               V.obj[i].expires > s => V.z[IdsKey][i] <= s, W.obj[i].expires > t
        PROVE  W.z[IdsKey][i] <= t
    <3>1. V.z[IdsKey][i] <= s BY <2>1
    <3>2. W.z[IdsKey][i] = V.z[IdsKey][i] /\ V.z[IdsKey][i] \in 0..Never
      BY KeysApart, StoreFields DEF Fades
    <3> QED BY <3>1, <3>2, Numbers
  <2>2. position = "purge" => j.id \in Ids BY <1>1 DEF AtARow
  <2> QED BY <1>1, <1>2, <2>1, <2>2 DEF Collecting
<1>6. Rewriting(W, M, position, j)
  <2>1. ASSUME position \in {"check", "pttl", "write", "purge", "remove"} PROVE Reserved(W, M, j.id, j.before)
    <3>1. Reserved(V, L, j.id, j.before) BY <1>2, <2>1 DEF Rewriting
    <3> QED BY <3>1, FadeHolds DEF Reserved
  <2>2. ASSUME position \in {"check", "pttl", "write"}
        PROVE  /\ j.id <= W.seq /\ W.m[j.id] \subseteq j.before
               /\ \A k \in EqualityKeys : W.z[k][j.id] > 0 => k \in j.before
    <3>1. /\ j.id <= V.seq /\ V.m[j.id] \subseteq j.before
          /\ \A k \in EqualityKeys : V.z[k][j.id] > 0 => k \in j.before
      BY <1>2, <2>2 DEF Rewriting
    <3>2. j.id \in Ids BY <1>1, <2>2 DEF AtARow
    <3> QED BY <3>1, <3>2, KeysApart DEF Fades
  <2>3. ASSUME position \in {"pttl", "write"}
        PROVE  j.new.email \in M \/ W.u[j.new.email].id \in {0, j.id}
    <3>1. j.new.email \in L \/ V.u[j.new.email].id \in {0, j.id} BY <1>2, <2>3 DEF Rewriting
    <3>2. j.new.email \in Emails BY <1>1, KeysApart
    <3> QED BY <3>1, <3>2 DEF Fades
  <2> QED BY <2>1, <2>2, <2>3 DEF Rewriting
<1>7. Cascading(W, position, j)
  <2> SUFFICES ASSUME position = "cascade" PROVE Cascading(W, position, j) BY DEF Cascading
  <2>1. j.id \in Ids BY <1>1 DEF AtARow
  <2>2. /\ Exists(V, j.id) => /\ Equality(V.obj[j.id].row) \subseteq j.before
                              /\ j.before \subseteq Plan(V.obj[j.id].row)
        /\ j.id > V.seq => j.before = {}
        /\ V.z[IdsKey][j.id] = Score(j.ttl, j.start)
    BY <1>2 DEF Cascading
  <2>3. W.z[IdsKey][j.id] = V.z[IdsKey][j.id] BY <2>1, KeysApart DEF Fades
  <2>4. Exists(W, j.id) => Exists(V, j.id) /\ W.obj[j.id].row = V.obj[j.id].row BY <2>1 DEF Fades
  <2> QED BY <2>2, <2>3, <2>4 DEF Cascading
<1> QED BY <1>3, <1>4, <1>5, <1>6, <1>7 DEF InHand

(* A row that was read stays as it was read under a burst about another.   *)
LEMMA OthersTidy ==
  ASSUME NEW V \in Stores, NEW L, NEW b \in Bursts, Fits(V, L, b), NEW W, NEW overlay \in BOOLEAN,
         Becomes(V, W, b, overlay), NEW r \in [id : Ids, row : Rows], r.id # b.id,
         Tidy(V, r.id, r.row), Holds(V, L, r.id, r.row.email)
  PROVE  Tidy(W, r.id, r.row) /\ Holds(W, L, r.id, r.row.email)
<1>1. r.id \in Ids \ {b.id} /\ r.row.email \in Emails BY KeysApart
<1>2. W.m[r.id] = V.m[r.id] /\ \A k \in ZKeys : W.z[k][r.id] = V.z[k][r.id]
  BY <1>1 DEF Becomes, Elsewhere
<1>3. Tidy(W, r.id, r.row) BY <1>2, KeysApart DEF Tidy
<1>4. Holds(W, L, r.id, r.row.email) BY <1>1, OthersHold
<1> QED BY <1>3, <1>4

-----------------------------------------------------------------------------
(* Whoever is about to take a step is alone; and what it leaves behind.    *)

Kept(d, L) == Clean(d, L) /\ Fresh(d) /\ Full(d) /\ Claims(d, L)

LEMMA Ready ==
  ASSUME IInv, Orderly, serial, NEW c \in Clients, pc[c] # "idle" \/ inTx[c] \/ MayCall(c)
  PROVE  Alone(c) /\ Facts(c)
<1>1. CASE ~ Resting(c) BY <1>1 DEF Orderly
<1>2. CASE Resting(c)
  <2>1. pc[c] = "idle" /\ ~ inTx[c] BY <1>2 DEF Resting
  <2>2. Alone(c) BY <2>1, Zenon DEF MayCall, Alone, Resting
  <2>3. \A e \in Clients : Resting(e) BY <1>2, <2>2, Zenon DEF Alone
  <2>4. View(c) = db /\ Sent(c) = db BY <2>1, InView DEF Viewed
  <2>5. Settled(db, db, lapsed, {}) BY <2>3 DEF Orderly, Settled
  <2>6. Facts(c) BY <2>1, <2>4, <2>5 DEF Facts, Midway, InHand
  <2> QED BY <2>2, <2>6
<1> QED BY <1>1, <1>2

Concluding(c) ==
  (IInv /\ Alone(c) /\ Facts(c) /\ (inTx[c] => Kept(db, lapsed))) => Orderly
LEMMA Concludes == \A c \in Clients : Concluding(c)
<1> SUFFICES ASSUME NEW c \in Clients, IInv, Alone(c), Facts(c), inTx[c] => Kept(db, lapsed)
             PROVE  Orderly
  BY DEF Concluding
<1>1. Kept(db, lapsed)
  <2>1. CASE ~ inTx[c]
    <3>1. View(c) = db /\ Sent(c) = db BY <2>1, InView DEF Viewed
    <3> QED BY <3>1 DEF Facts, Settled, Kept
  <2>2. CASE inTx[c] BY <2>2
  <2>3. inTx[c] \in BOOLEAN BY DEF IInv, Storing
  <2> QED BY <2>1, <2>2, <2>3
<1>2. ASSUME Resting(c) PROVE Even(db, {})
  <2>1. View(c) = db BY <1>2, InView DEF Viewed, Resting
  <2> QED BY <1>2, <2>1 DEF Facts, Settled, Resting, Midway
<1>3. \A e \in Clients : Resting(e) \/ (Alone(e) /\ Facts(e)) BY Zenon DEF Alone
<1> QED BY <1>1, <1>2, <1>3 DEF Orderly, Kept
LEMMA ConcludesNext == (\A c \in Clients : Concluding(c))'
BY Concludes, PTL

-----------------------------------------------------------------------------
(* The steps of one client. *)

Others(c) == \A e \in Clients \ {c} : pc'[e] = pc[e] /\ inTx'[e] = inTx[e]

LEMMA StepConcludes ==
  ASSUME IInv', NEW c \in Clients, Alone(c), Others(c), Facts(c)', inTx'[c] => Kept(db', lapsed')
  PROVE  Orderly'
<1>1. Alone(c)' BY DEF Alone, Resting, Others
<1>2. Concluding(c)' BY ConcludesNext
<1>3. (inTx[c] => Kept(db, lapsed))' BY DEF Kept, Clean, Fresh, Full, Claims, Exists, Tidy, Holds, Reserved
<1> QED BY <1>1, <1>2, <1>3 DEF Concluding

LEMMA FactsNext ==
  ASSUME NEW c \in Clients, Settled(View(c)', Sent(c)', lapsed', Midway(pc'[c], job'[c])),
         InHand(View(c)', lapsed', now', pc'[c], job'[c]),
         inTx'[c] => Even(db', {}) /\ pc'[c] \notin {"collect", "purge"}
  PROVE  Facts(c)'
<1>1. Settled(View(c), Sent(c), lapsed, Midway(pc[c], job[c]))'
  BY DEF Settled, Clean, Fresh, Full, Claims, Exists, Tidy, Holds, Reserved, Even, Midway
<1>2. InHand(View(c), lapsed, now, pc[c], job[c])'
  BY DEF InHand, RowsInHand, Collecting, Rewriting, Cascading, Exists, Tidy, Holds, Reserved
<1>3. (inTx[c] => Even(db, {}) /\ pc[c] \notin {"collect", "purge"})' BY DEF Even, Exists
<1> QED BY <1>1, <1>2, <1>3 DEF Facts

LEMMA QuietConcludes ==
  ASSUME IInv, IInv', Orderly, serial, NEW c \in Clients, Alone(c), Facts(c), Others(c),
         Quiet, UNCHANGED <<now, inTx, lapsed>>, pc[c] # "cascade", pc'[c] # "cascade",
         inTx[c] => pc'[c] \notin {"collect", "purge"},
         InHand(View(c), lapsed, now, pc'[c], job'[c])
  PROVE  Orderly'
<1>1. View(c)' = View(c) /\ Sent(c)' = Sent(c) /\ db' = db BY QuietViews DEF Quiet
<1>2. Midway(pc[c], job[c]) = {} /\ Midway(pc'[c], job'[c]) = {} BY DEF Midway
<1>3. Settled(View(c)', Sent(c)', lapsed', Midway(pc'[c], job'[c])) BY <1>1, <1>2 DEF Facts
<1>4. Facts(c)' BY <1>1, <1>3, FactsNext DEF Facts
<1>5. Kept(db', lapsed') BY <1>1 DEF Orderly, Kept
<1> QED BY <1>4, <1>5, StepConcludes

LEMMA EmitConcludes ==
  ASSUME IInv, IInv', Orderly, serial, NEW c \in Clients, Alone(c), Facts(c), Others(c),
         NEW b \in Bursts, Emit(c, b), UNCHANGED <<now, inTx, lapsed>>, Fits(View(c), lapsed, b),
         IF pc[c] = "cascade" THEN b.cmd = "cascade" /\ job[c].id = b.id ELSE b.cmd # "cascade",
         Midway(pc'[c], job'[c]) = MidwayAfter(b), inTx[c] => pc'[c] \notin {"collect", "purge"},
         \A overlay \in BOOLEAN :
           (~inTx[c] => ~overlay) /\ Becomes(View(c), View(c)', b, overlay) =>
             InHand(View(c)', lapsed, now, pc'[c], job'[c])
  PROVE  Orderly'
<1>1. Viewed(c) /\ inTx[c] \in BOOLEAN BY InView DEF IInv, Storing
<1>2. PICK overlay \in BOOLEAN : (~inTx[c] => ~overlay) /\ Becomes(View(c), View(c)', b, overlay)
  BY <1>1, Emits
<1>3. Becomes(Sent(c), Sent(c)', b, FALSE) /\ (inTx[c] => db' = db) BY Emits
<1>4. Midway(pc[c], job[c]) \subseteq {b.id} /\ (b.cmd # "cascade" => Midway(pc[c], job[c]) = {})
  BY DEF Midway
<1>5. Settled(View(c)', Sent(c)', lapsed, MidwayAfter(b))
  BY <1>1, <1>2, <1>3, <1>4, BurstSettles DEF Viewed, Facts
<1>6. Settled(View(c)', Sent(c)', lapsed', Midway(pc'[c], job'[c])) BY <1>5
<1>7. InHand(View(c)', lapsed', now', pc'[c], job'[c]) BY <1>2
<1>8. Facts(c)' BY <1>3, <1>6, <1>7, FactsNext DEF Facts
<1>9. inTx'[c] => Kept(db', lapsed') BY <1>3 DEF Orderly, Kept
<1> QED BY <1>8, <1>9, StepConcludes

LEMMA Idle == ASSUME NEW V, NEW L, NEW t, NEW j PROVE InHand(V, L, t, "idle", j)
BY DEF InHand

(* An operation that begins has no row in hand. *)
LEMMA Beginning ==
  ASSUME NEW V, NEW L, NEW t \in Nat, NEW j, j.rows = {}, j.start = t, NEW position \in {"resolve", "next"}
  PROVE  InHand(V, L, t, position, j)
BY DEF InHand, RowsInHand, Collecting, Rewriting, Cascading

LEMMA TheOthers ==
  ASSUME IInv, NEW c \in Clients, NEW to, Goto(c, to), UNCHANGED inTx
  PROVE  Others(c) /\ pc'[c] = to
BY DEF Goto, Others, IInv, Working

(* What an operation knows when it takes a step. *)
LEMMA Hands ==
  ASSUME IInv, NEW c \in Clients, Facts(c), pc[c] # "idle"
  PROVE  /\ job[c].start <= now /\ RowsInHand(View(c), lapsed, pc[c], job[c])
         /\ Collecting(View(c), now, pc[c], job[c])
         /\ Rewriting(View(c), lapsed, pc[c], job[c]) /\ Cascading(View(c), pc[c], job[c])
         /\ job[c] \in Jobs /\ HoldsAt(job[c], pc[c]) /\ now \in Nat
         /\ Viewed(c) /\ inTx[c] \in BOOLEAN
         /\ Clean(View(c), lapsed) /\ Fresh(View(c)) /\ Full(Sent(c)) /\ Claims(Sent(c), lapsed)
<1>1. HoldsAt(job[c], pc[c]) /\ job[c] \in Jobs /\ inTx[c] \in BOOLEAN BY DEF IInv, Working, HoldsAt, Storing
<1>2. now \in Nat BY Numbers DEF IInv, Storing
<1> QED BY <1>1, <1>2, InView DEF Facts, Settled, InHand

LEMMA ResolveKeeps ==
  ASSUME IInv, IInv', Orderly, serial, NEW c \in Clients, Alone(c), Facts(c), Resolve(c)
  PROVE  Orderly'
<1> DEFINE j == job[c]
           V == View(c)
<1>1. pc[c] = "resolve" /\ Quiet /\ Steady BY DEF Resolve
<1>2. PICK k \in j.conds :
       /\ job' = [job EXCEPT ![c].conds = @ \ {k}, ![c].ids = @ \cap EqualitySet(c, k),
                             ![c].expired = Expired(c, k)]
       /\ Goto(c, IF Expired(c, k) = {} THEN "resolve" ELSE "collect")
  BY Zenon DEF Resolve
<1>3. job[c] \in Jobs /\ job \in [Clients -> Jobs] BY DEF IInv, Working
<1>4. /\ job'[c].rows = j.rows /\ job'[c].start = j.start /\ job'[c].op = j.op
      /\ job'[c].expired = Expired(c, k)
  BY <1>2, <1>3 DEF Jobs
<1>5. Others(c) /\ pc'[c] = (IF Expired(c, k) = {} THEN "resolve" ELSE "collect")
  BY <1>1, <1>2, TheOthers DEF Steady
<1>6. /\ j.start <= now /\ j.start \in Nat /\ now \in Nat /\ j.rows = {} /\ Clean(V, lapsed)
      /\ V \in Stores /\ Even(V, {})
  <2>1. Even(V, {}) BY <1>1 DEF Facts, Settled, Midway
  <2>2. j.start \in Nat BY <1>3, Numbers DEF Jobs
  <2> QED BY <1>1, <2>1, <2>2, Hands DEF RowsInHand, Viewed
<1>7. Expired(c, k) # {} => ~inTx[c] BY DEF Expired
<1>8. ASSUME NEW i \in Expired(c, k), V.obj[i].expires > now PROVE V.z[IdsKey][i] <= now
  <2>1. i \in Ids /\ k \in ZKeys /\ k[1] # "email" /\ V.z[k][i] \in 1..j.start BY DEF Expired, ScoreOf
  <2>2. V.obj[i].expires > 0 /\ V.obj[i].row \in Rows BY <1>6, <1>8, <2>1, StoreFields, Numbers
  <2>3. V.z[IdsKey][i] = V.z[k][i]
    <3>1. CASE k = IdsKey BY <3>1
    <3>2. CASE k \in EqualityKeys
      <4>1. V.z[k][i] > 0 BY <1>6, <2>1
      <4>2. k \in Equality(V.obj[i].row) BY <1>6, <2>1, <2>2, <3>2, <4>1 DEF Clean, Tidy, Exists
      <4> QED BY <1>6, <2>1, <2>2, <4>2 DEF Even, Exists
    <3> QED BY <2>1, <3>1, <3>2 DEF ZKeys
  <2> QED BY <1>6, <2>1, <2>3
<1> HIDE DEF V, j
<1>9. InHand(V, lapsed, now, pc'[c], job'[c])
  <2>1. RowsInHand(V, lapsed, pc'[c], job'[c]) BY <1>4, <1>6 DEF RowsInHand
  <2>2. Collecting(V, now, pc'[c], job'[c]) BY <1>4, <1>5, <1>8 DEF Collecting
  <2>3. Rewriting(V, lapsed, pc'[c], job'[c]) /\ Cascading(V, pc'[c], job'[c])
    BY <1>5 DEF Rewriting, Cascading
  <2>4. job'[c].start <= now BY <1>4, <1>6
  <2> QED BY <2>1, <2>2, <2>3, <2>4 DEF InHand
<1>10. pc'[c] # "cascade" /\ (inTx[c] => pc'[c] \notin {"collect", "purge"}) BY <1>5, <1>7
<1> QED BY <1>1, <1>5, <1>9, <1>10, QuietConcludes DEF Steady, V

LEMMA CollectKeeps ==
  ASSUME IInv, IInv', Orderly, serial, NEW c \in Clients, Alone(c), Facts(c), Collect(c)
  PROVE  Orderly'
<1> DEFINE j == job[c]
           V == View(c)
<1>1. pc[c] = "collect" /\ Quiet /\ Steady /\ Goto(c, "purge") BY DEF Collect
<1>2. PICK i \in j.expired :
       job' = [job EXCEPT ![c].id = i, ![c].expired = @ \ {i}, ![c].before = View(c).m[i]]
  BY Zenon DEF Collect
<1>3. job[c] \in Jobs /\ job \in [Clients -> Jobs] BY DEF IInv, Working
<1>4. /\ job'[c].rows = j.rows /\ job'[c].start = j.start /\ job'[c].op = j.op
      /\ job'[c].expired = j.expired \ {i} /\ job'[c].id = i /\ job'[c].before = V.m[i]
  BY <1>2, <1>3 DEF Jobs
<1>5. Others(c) /\ pc'[c] = "purge" BY <1>1, TheOthers DEF Steady
<1>6. i \in Ids BY <1>2, <1>3 DEF Jobs
<1>7. j.start <= now /\ j.rows = {} /\ Collecting(V, now, "collect", j) BY <1>1, Hands DEF RowsInHand
<1>8. ~ inTx[c] BY <1>1 DEF Facts
<1>9. Reserved(V, lapsed, i, V.m[i])
  <2>1. V = Sent(c) BY <1>1, <1>8, Hands DEF Viewed
  <2> QED BY <1>1, <1>6, <2>1, Hands DEF Claims
<1> HIDE DEF V, j
<1>10. InHand(V, lapsed, now, pc'[c], job'[c])
  <2>1. RowsInHand(V, lapsed, "purge", job'[c]) BY <1>4, <1>7 DEF RowsInHand
  <2>2. Collecting(V, now, "purge", job'[c]) BY <1>2, <1>4, <1>7 DEF Collecting
  <2>3. Rewriting(V, lapsed, "purge", job'[c]) /\ Cascading(V, "purge", job'[c])
    BY <1>4, <1>9 DEF Rewriting, Cascading
  <2> QED BY <1>4, <1>5, <1>7, <2>1, <2>2, <2>3 DEF InHand
<1> QED BY <1>1, <1>5, <1>8, <1>10, QuietConcludes DEF Steady, V

LEMMA PurgeKeeps ==
  ASSUME IInv, IInv', Orderly, serial, NEW c \in Clients, Alone(c), Facts(c), Purge(c)
  PROVE  Orderly'
<1> DEFINE j == job[c]
           V == View(c)
           W == View(c)'
           b == [cmd |-> "remove", id |-> j.id, before |-> j.before]
           to == IF j.expired = {} THEN "resolve" ELSE "collect"
<1>1. pc[c] = "purge" /\ Emit(c, b) /\ Steady /\ Goto(c, to) /\ UNCHANGED job BY DEF Purge
<1>2. /\ j \in Jobs /\ j.id \in Ids /\ j.before \in SUBSET Keys /\ j.expired \subseteq Ids
  BY <1>1, Hands DEF HoldsAt, AtARow, Jobs
<1>3. b \in Bursts /\ b.cmd = "remove" /\ b.id = j.id /\ b.before = j.before
  BY <1>2 DEF Bursts, Removes
<1>4. /\ j.start <= now /\ now \in Nat /\ j.rows = {} /\ Collecting(V, now, "purge", j)
      /\ Reserved(V, lapsed, j.id, j.before)
  BY <1>1, Hands DEF RowsInHand, Rewriting
<1>5. ~ inTx[c] BY <1>1 DEF Facts
<1>6. Others(c) /\ pc'[c] = to /\ job'[c] = j BY <1>1, TheOthers DEF Steady
<1> HIDE DEF b, j
<1>7. Fits(V, lapsed, b) BY <1>3, <1>4 DEF Fits
<1> HIDE DEF V, W
<1>8. ASSUME Becomes(V, W, b, FALSE) PROVE InHand(W, lapsed, now, to, j)
  <2>1. RowsInHand(W, lapsed, to, j) BY <1>4 DEF RowsInHand
  <2>2. ASSUME NEW i \in j.expired, W.obj[i].expires > now PROVE W.z[IdsKey][i] <= now
    <3>1. i \in Ids BY <1>2
    <3>2. i # b.id
      <4>1. ~ W.obj[b.id].expires > 0 BY <1>3, <1>8 DEF Becomes, RowAfter, Exists
      <4>2. W.obj[b.id].expires \in 0..Never
        <5>1. W \in Stores BY AllViewedNext DEF W, Viewed
        <5> QED BY <1>2, <1>3, <5>1, StoreFields
      <4>3. ~ W.obj[b.id].expires > now BY <1>4, <4>1, <4>2, Numbers
      <4> QED BY <2>2, <4>3
    <3>3. W.obj[i] = V.obj[i] /\ W.z[IdsKey][i] = V.z[IdsKey][i]
      BY <1>8, <3>1, <3>2, KeysApart DEF Becomes, Elsewhere
    <3> QED BY <1>4, <2>2, <3>3 DEF Collecting
  <2>3. Collecting(W, now, to, j) BY <2>2 DEF Collecting
  <2>4. Rewriting(W, lapsed, to, j) /\ Cascading(W, to, j) BY DEF Rewriting, Cascading
  <2> QED BY <1>4, <2>1, <2>3, <2>4 DEF InHand
<1>9. /\ Midway(pc'[c], job'[c]) = {} /\ MidwayAfter(b) = {}
  BY <1>3, <1>6 DEF Midway, MidwayAfter
<1>10. \A overlay \in BOOLEAN :
           (~inTx[c] => ~overlay) /\ Becomes(V, W, b, overlay) => InHand(W, lapsed, now, pc'[c], job'[c])
  BY <1>5, <1>6, <1>8
<1> QED BY <1>1, <1>3, <1>5, <1>6, <1>7, <1>9, <1>10, EmitConcludes DEF Steady, V, W

LEMMA FetchKeeps ==
  ASSUME IInv, IInv', Orderly, serial, NEW c \in Clients, Alone(c), Facts(c), Fetch(c)
  PROVE  Orderly'
<1> DEFINE j == job[c]
           V == View(c)
           found == {i \in j.ids : Alive(V, i)}
           fetched == {[id |-> i, row |-> V.obj[i].row] : i \in found}
<1>1. pc[c] = "resolve" /\ Quiet /\ Steady BY DEF Fetch
<1>2. \/ End(c)
      \/ Goto(c, "next") /\ job' = [job EXCEPT ![c].drop = found]
      \/ Goto(c, "next") /\ job' = [job EXCEPT ![c].rows = fetched] /\ j.op # "relink"
  BY Zenon DEF Fetch
<1>3. job[c] \in Jobs /\ job \in [Clients -> Jobs] BY DEF IInv, Working
<1>4. /\ j.start <= now /\ now \in Nat /\ j.rows = {} /\ Clean(V, lapsed) /\ Fresh(V) /\ V \in Stores
  BY <1>1, Hands DEF RowsInHand, Viewed
<1>5. ASSUME Goto(c, "next"), InHand(V, lapsed, now, "next", job'[c]) PROVE Orderly'
  <2>1. Others(c) /\ pc'[c] = "next" BY <1>1, <1>5, TheOthers DEF Steady
  <2> QED BY <1>1, <1>5, <2>1, QuietConcludes DEF Steady
<1>6. CASE End(c)
  <2>1. Others(c) /\ pc'[c] = "idle" BY <1>1, <1>6, TheOthers DEF Steady, End
  <2>2. InHand(V, lapsed, now, "idle", job'[c]) BY Idle
  <2> QED BY <1>1, <2>1, <2>2, QuietConcludes DEF Steady
<1>7. \A i \in found : i \in Ids /\ Exists(V, i)
  <2>1. ASSUME NEW i \in found PROVE i \in Ids /\ Exists(V, i)
    <3>1. i \in Ids /\ V.obj[i].expires > now BY <1>3 DEF Jobs, Alive
    <3> QED BY <1>4, <3>1, StoreFields, Numbers DEF Exists
  <2> QED BY <2>1
<1> HIDE DEF found, V, j
<1>8. CASE Goto(c, "next") /\ job' = [job EXCEPT ![c].drop = found]
  <2>1. job'[c].rows = {} /\ job'[c].start = j.start BY <1>3, <1>4, <1>8 DEF Jobs, j
  <2>2. InHand(V, lapsed, now, "next", job'[c])
    BY <1>4, <2>1 DEF InHand, RowsInHand, Collecting, Rewriting, Cascading
  <2> QED BY <1>5, <1>8, <2>2
<1>9. CASE Goto(c, "next") /\ job' = [job EXCEPT ![c].rows = fetched] /\ j.op # "relink"
  <2>1. job'[c].rows = fetched /\ job'[c].start = j.start /\ job'[c].op # "relink"
    <3> HIDE DEF fetched
    <3> QED BY <1>3, <1>9 DEF Jobs, j
  <2>2. ASSUME NEW r \in fetched
        PROVE  r.id <= V.seq /\ Tidy(V, r.id, r.row) /\ Holds(V, lapsed, r.id, r.row.email)
    <3>1. PICK i \in found : r = [id |-> i, row |-> V.obj[i].row] BY <2>2
    <3>2. i \in Ids /\ Exists(V, i) BY <1>7
    <3>3. i <= V.seq BY <1>4, <3>2, StoreFields, Numbers DEF Fresh
    <3> QED BY <1>4, <3>1, <3>2, <3>3 DEF Clean
  <2>3. \A r, s \in fetched : r.id = s.id => r = s OBVIOUS
  <2> HIDE DEF fetched
  <2>4. RowsInHand(V, lapsed, "next", job'[c]) BY <2>1, <2>2, <2>3 DEF RowsInHand
  <2>5. InHand(V, lapsed, now, "next", job'[c])
    BY <1>4, <2>1, <2>4 DEF InHand, Collecting, Rewriting, Cascading
  <2> QED BY <1>5, <1>9, <2>5
<1> QED BY <1>2, <1>6, <1>8, <1>9

(* The row of which the keys are read: what is held of it is in them.      *)
LEMMA KeysOfRow ==
  ASSUME NEW V \in Stores, NEW L, NEW i \in Ids, NEW row \in Rows, Tidy(V, i, row), Holds(V, L, i, row.email)
  PROVE  /\ Reserved(V, L, i, Plan(row)) /\ V.m[i] \subseteq Plan(row)
         /\ \A k \in EqualityKeys : V.z[k][i] > 0 => k \in Plan(row)
BY KeysApart DEF Tidy, Reserved

LEMMA NextUpdateKeeps ==
  ASSUME IInv, IInv', Orderly, serial, NEW c \in Clients, Alone(c), Facts(c), NextUpdate(c)
  PROVE  Orderly'
<1> DEFINE j == job[c]
           V == View(c)
<1>1. pc[c] = "next" /\ Quiet /\ Steady /\ Goto(c, "check") BY DEF NextUpdate
<1>2. PICK r \in j.rows :
       job' = [job EXCEPT ![c].rows = @ \ {r}, ![c].id = r.id, ![c].before = Plan(r.row),
                         ![c].new = Patched(r.row, job[c].patch)]
  BY Zenon DEF NextUpdate
<1>3. job[c] \in Jobs /\ job \in [Clients -> Jobs] BY DEF IInv, Working
<1>4. /\ job'[c].rows = j.rows \ {r} /\ job'[c].start = j.start /\ job'[c].op = j.op
      /\ job'[c].id = r.id /\ job'[c].before = Plan(r.row)
  BY <1>2, <1>3 DEF Jobs
<1>5. j.start <= now /\ V \in Stores /\ RowsInHand(V, lapsed, "next", j) BY <1>1, Hands DEF Viewed
<1>6. r.id \in Ids /\ r.row \in Rows BY <1>2, <1>3 DEF Jobs
<1>7. r.id <= V.seq /\ Tidy(V, r.id, r.row) /\ Holds(V, lapsed, r.id, r.row.email)
  BY <1>2, <1>5 DEF RowsInHand
<1> HIDE DEF V, j
<1>8. RowsInHand(V, lapsed, "check", job'[c]) BY <1>2, <1>4, <1>5 DEF RowsInHand
<1>9. Rewriting(V, lapsed, "check", job'[c]) BY <1>4, <1>5, <1>6, <1>7, KeysOfRow DEF Rewriting
<1>10. InHand(V, lapsed, now, "check", job'[c])
  BY <1>4, <1>5, <1>8, <1>9 DEF InHand, Collecting, Cascading
<1>11. Others(c) /\ pc'[c] = "check" BY <1>1, TheOthers DEF Steady
<1> QED BY <1>1, <1>10, <1>11, QuietConcludes DEF Steady, V

LEMMA NextDeleteKeeps ==
  ASSUME IInv, IInv', Orderly, serial, NEW c \in Clients, Alone(c), Facts(c), NextDelete(c)
  PROVE  Orderly'
<1> DEFINE j == job[c]
           V == View(c)
<1>1. pc[c] = "next" /\ Quiet /\ Steady /\ Goto(c, "remove") BY DEF NextDelete
<1>2. PICK r \in j.rows :
       job' = [job EXCEPT ![c].rows = @ \ {r}, ![c].id = r.id, ![c].before = View(c).m[r.id]]
  BY Zenon DEF NextDelete
<1>3. job[c] \in Jobs /\ job \in [Clients -> Jobs] BY DEF IInv, Working
<1>4. /\ job'[c].rows = j.rows \ {r} /\ job'[c].start = j.start /\ job'[c].op = j.op
      /\ job'[c].id = r.id /\ job'[c].before = V.m[r.id]
  BY <1>2, <1>3 DEF Jobs
<1>5. j.start <= now /\ V \in Stores /\ RowsInHand(V, lapsed, "next", j) BY <1>1, Hands DEF Viewed
<1>6. r.id \in Ids /\ r.row \in Rows BY <1>2, <1>3 DEF Jobs
<1>7. Tidy(V, r.id, r.row) /\ Holds(V, lapsed, r.id, r.row.email) BY <1>2, <1>5 DEF RowsInHand
<1> HIDE DEF V, j
<1>8. RowsInHand(V, lapsed, "remove", job'[c]) BY <1>2, <1>4, <1>5 DEF RowsInHand
<1>9. Rewriting(V, lapsed, "remove", job'[c])
  <2>1. Reserved(V, lapsed, r.id, Plan(r.row)) /\ V.m[r.id] \subseteq Plan(r.row)
    BY <1>5, <1>6, <1>7, KeysOfRow
  <2> QED BY <1>4, <2>1 DEF Rewriting, Reserved
<1>10. InHand(V, lapsed, now, "remove", job'[c])
  BY <1>4, <1>5, <1>8, <1>9 DEF InHand, Collecting, Cascading
<1>11. Others(c) /\ pc'[c] = "remove" BY <1>1, TheOthers DEF Steady
<1> QED BY <1>1, <1>10, <1>11, QuietConcludes DEF Steady, V

LEMMA NextPatchKeeps ==
  ASSUME IInv, IInv', Orderly, serial, NEW c \in Clients, Alone(c), Facts(c), NextPatch(c)
  PROVE  Orderly'
<1> DEFINE j == job[c]
           V == View(c)
           dropping == j.drop # {}
           o == IF dropping THEN Nobody ELSE j.owner
<1>1. pc[c] = "next" /\ j.op = "relink" /\ Quiet /\ Steady BY DEF NextPatch
<1>2. PICK i \in IF dropping THEN j.drop ELSE j.link :
       LET row == V.obj[i].row
           rest == [j EXCEPT !.drop = @ \ {i}, !.link = IF dropping THEN @ ELSE @ \ {i}]
       IN IF Alive(V, i)
          THEN /\ job' = [job EXCEPT ![c] = [rest EXCEPT !.id = i, !.before = Plan(row),
                                              !.new = [row EXCEPT !.owner = o]]]
               /\ Goto(c, "check")
          ELSE job' = [job EXCEPT ![c] = rest] /\ UNCHANGED pc
  BY Zenon DEF NextPatch
<1> DEFINE row == V.obj[i].row
           before == Plan(row)
           new == [row EXCEPT !.owner = o]
           link == IF dropping THEN j.link ELSE j.link \ {i}
           rest == [j EXCEPT !.drop = @ \ {i}, !.link = link]
           n == [rest EXCEPT !.id = i, !.before = before, !.new = new]
<1>3. job[c] \in Jobs /\ job \in [Clients -> Jobs] BY DEF IInv, Working
<1>4. /\ j.start <= now /\ now \in Nat /\ V \in Stores /\ j.rows = {} /\ Clean(V, lapsed) /\ Fresh(V)
      /\ j.op = "relink"
  BY <1>1, Hands DEF Viewed, RowsInHand
<1>5. i \in Ids BY <1>2, <1>3 DEF Jobs
<1>6. \/ Alive(V, i) /\ job' = [job EXCEPT ![c] = n] /\ Goto(c, "check")
      \/ job' = [job EXCEPT ![c] = rest] /\ UNCHANGED pc
  <2>1. rest = [j EXCEPT !.drop = @ \ {i}, !.link = IF dropping THEN @ ELSE @ \ {i}] OBVIOUS
  <2> QED BY <1>2, <2>1, Zenon
<1> HIDE DEF o, row, before, new, link, dropping, V
<1>7. rest.rows = {} /\ rest.start = j.start /\ rest.op = "relink"
      /\ DOMAIN rest = DOMAIN NoJob
  <2> HIDE DEF j
  <2> QED BY <1>3, <1>4 DEF Jobs, j, NoJob
<1> HIDE DEF rest
<1>8. CASE Alive(V, i) /\ job' = [job EXCEPT ![c] = n] /\ Goto(c, "check")
  <2>1. /\ job'[c] = n /\ n.rows = {} /\ n.start = j.start /\ n.op = "relink" /\ n.id = i /\ n.before = before
    BY <1>3, <1>7, <1>8 DEF NoJob
  <2>2. Exists(V, i) /\ row \in Rows
    BY <1>4, <1>5, <1>8, StoreFields, Numbers DEF Alive, Exists, row
  <2>3. i <= V.seq BY <1>4, <1>5, <2>2, StoreFields, Numbers DEF Fresh
  <2>4. Tidy(V, i, row) /\ Holds(V, lapsed, i, row.email) BY <1>4, <1>5, <2>2 DEF Clean, row
  <2> HIDE DEF n
  <2>5. RowsInHand(V, lapsed, "check", n) BY <2>1 DEF RowsInHand
  <2>6. Rewriting(V, lapsed, "check", n)
    BY <1>4, <1>5, <2>1, <2>2, <2>3, <2>4, KeysOfRow DEF Rewriting, before
  <2>7. InHand(V, lapsed, now, "check", n)
    BY <1>4, <2>1, <2>5, <2>6 DEF InHand, Collecting, Cascading
  <2>8. Others(c) /\ pc'[c] = "check" BY <1>1, <1>8, TheOthers DEF Steady
  <2> QED BY <1>1, <2>1, <2>7, <2>8, QuietConcludes DEF Steady, V
<1>9. CASE job' = [job EXCEPT ![c] = rest] /\ UNCHANGED pc
  <2>1. job'[c] = rest /\ pc'[c] = "next" /\ Others(c) BY <1>1, <1>3, <1>9 DEF Others, Steady
  <2>2. InHand(V, lapsed, now, "next", rest)
    BY <1>4, <1>7 DEF InHand, RowsInHand, Collecting, Rewriting, Cascading
  <2> QED BY <1>1, <2>1, <2>2, QuietConcludes DEF Steady, V
<1> QED BY <1>6, <1>8, <1>9

(* The rows in hand after a burst about another row. *)
LEMMA RowsStay ==
  ASSUME NEW V \in Stores, NEW L, NEW b \in Bursts, Fits(V, L, b), NEW W, NEW overlay \in BOOLEAN,
         Becomes(V, W, b, overlay), NEW j \in Jobs, NEW position \in {"write", "remove"},
         RowsInHand(V, L, position, j), j.id = b.id
  PROVE  RowsInHand(W, L, "next", j)
<1>1. ASSUME NEW r \in j.rows
      PROVE  r.id <= W.seq /\ Tidy(W, r.id, r.row) /\ Holds(W, L, r.id, r.row.email)
  <2>1. r \in [id : Ids, row : Rows] BY DEF Jobs
  <2>2. r.id <= V.seq /\ Tidy(V, r.id, r.row) /\ Holds(V, L, r.id, r.row.email) /\ r.id # b.id
    BY DEF RowsInHand
  <2>3. W.seq = V.seq BY DEF Becomes
  <2> QED BY <2>1, <2>2, <2>3, OthersTidy
<1> QED BY <1>1 DEF RowsInHand

LEMMA RemoveRowKeeps ==
  ASSUME IInv, IInv', Orderly, serial, NEW c \in Clients, Alone(c), Facts(c), RemoveRow(c)
  PROVE  Orderly'
<1> DEFINE j == job[c]
           V == View(c)
           W == View(c)'
           b == [cmd |-> "remove", id |-> j.id, before |-> j.before]
<1>1. pc[c] = "remove" /\ Emit(c, b) /\ Steady /\ Goto(c, "next") /\ UNCHANGED job BY DEF RemoveRow
<1>2. j \in Jobs /\ j.id \in Ids /\ j.before \in SUBSET Keys BY <1>1, Hands DEF HoldsAt, AtARow, Jobs
<1>3. b \in Bursts /\ b.cmd = "remove" /\ b.id = j.id /\ b.before = j.before
  BY <1>2 DEF Bursts, Removes
<1>4. /\ j.start <= now /\ V \in Stores /\ RowsInHand(V, lapsed, "remove", j)
      /\ Reserved(V, lapsed, j.id, j.before)
  BY <1>1, Hands DEF Rewriting, Viewed
<1>5. Others(c) /\ pc'[c] = "next" /\ job'[c] = j BY <1>1, TheOthers DEF Steady
<1> HIDE DEF b, j, V, W
<1>6. Fits(V, lapsed, b) BY <1>3, <1>4 DEF Fits
<1>7. ASSUME NEW overlay \in BOOLEAN, Becomes(V, W, b, overlay) PROVE InHand(W, lapsed, now, "next", j)
  <2>1. RowsInHand(W, lapsed, "next", j) BY <1>2, <1>3, <1>4, <1>6, <1>7, RowsStay
  <2> QED BY <1>4, <2>1 DEF InHand, Collecting, Rewriting, Cascading
<1>8. Midway(pc'[c], job'[c]) = {} /\ MidwayAfter(b) = {} BY <1>3, <1>5 DEF Midway, MidwayAfter
<1> QED BY <1>1, <1>3, <1>5, <1>6, <1>7, <1>8, EmitConcludes DEF Steady, V, W

LEMMA NothingLeftKeeps ==
  ASSUME IInv, IInv', Orderly, serial, NEW c \in Clients, Alone(c), Facts(c), NothingLeft(c)
  PROVE  Orderly'
<1>1. pc[c] = "next" /\ End(c) /\ Quiet /\ Steady BY DEF NothingLeft
<1>2. Others(c) /\ pc'[c] = "idle" BY <1>1, TheOthers DEF Steady, End
<1>3. InHand(View(c), lapsed, now, "idle", job'[c]) BY Idle
<1> QED BY <1>1, <1>2, <1>3, QuietConcludes DEF Steady

LEMMA EnforceUniqueKeeps ==
  ASSUME IInv, IInv', Orderly, serial, NEW c \in Clients, Alone(c), Facts(c), EnforceUnique(c)
  PROVE  Orderly'
<1> DEFINE j == job[c]
           V == View(c)
<1>1. pc[c] = "check" /\ Quiet /\ Steady BY DEF EnforceUnique
<1>2. \/ End(c)
      \/ V.u[j.new.email].id \in {0, j.id} /\ UNCHANGED job /\ \E to \in {"write", "pttl"} : Goto(c, to)
  BY DEF EnforceUnique
<1>3. CASE End(c)
  <2>1. Others(c) /\ pc'[c] = "idle" BY <1>1, <1>3, TheOthers DEF Steady, End
  <2>2. InHand(View(c), lapsed, now, "idle", job'[c]) BY Idle
  <2> QED BY <1>1, <2>1, <2>2, QuietConcludes DEF Steady
<1>4. ASSUME V.u[j.new.email].id \in {0, j.id}, UNCHANGED job, NEW to \in {"write", "pttl"}, Goto(c, to)
      PROVE  Orderly'
  <2>1. Others(c) /\ pc'[c] = to /\ job'[c] = j BY <1>1, <1>4, TheOthers DEF Steady
  <2>2. j.start <= now /\ RowsInHand(V, lapsed, "check", j) /\ Rewriting(V, lapsed, "check", j)
    BY <1>1, Hands
  <2> HIDE DEF V, j
  <2>3. RowsInHand(V, lapsed, to, j) BY <2>2 DEF RowsInHand
  <2>4. Rewriting(V, lapsed, to, j) BY <1>4, <2>2 DEF Rewriting
  <2>5. InHand(V, lapsed, now, to, j) BY <2>2, <2>3, <2>4 DEF InHand, Collecting, Cascading
  <2> QED BY <1>1, <2>1, <2>5, QuietConcludes DEF Steady, V
<1> QED BY <1>2, <1>3, <1>4

LEMMA ReadTtlKeeps ==
  ASSUME IInv, IInv', Orderly, serial, NEW c \in Clients, Alone(c), Facts(c), ReadTtl(c)
  PROVE  Orderly'
<1> DEFINE j == job[c]
           V == View(c)
           keep == IF job[c].ttl > 0 THEN job[c].ttl ELSE Pttl(job[c].id)
<1>1. pc[c] = "pttl" /\ Quiet /\ Steady /\ Goto(c, "write") /\ job' = [job EXCEPT ![c].keep = keep]
  BY DEF ReadTtl
<1>2. job[c] \in Jobs /\ job \in [Clients -> Jobs] BY DEF IInv, Working
<1> HIDE DEF keep
<1>3. /\ job'[c].rows = j.rows /\ job'[c].start = j.start /\ job'[c].op = j.op
      /\ job'[c].id = j.id /\ job'[c].before = j.before /\ job'[c].new = j.new
  BY <1>1, <1>2 DEF Jobs
<1>4. j.start <= now /\ RowsInHand(V, lapsed, "pttl", j) /\ Rewriting(V, lapsed, "pttl", j)
  BY <1>1, Hands
<1> HIDE DEF V, j
<1>5. RowsInHand(V, lapsed, "write", job'[c]) BY <1>3, <1>4 DEF RowsInHand
<1>6. Rewriting(V, lapsed, "write", job'[c]) BY <1>3, <1>4 DEF Rewriting
<1>7. InHand(V, lapsed, now, "write", job'[c])
  BY <1>3, <1>4, <1>5, <1>6 DEF InHand, Collecting, Cascading
<1>8. Others(c) /\ pc'[c] = "write" BY <1>1, TheOthers DEF Steady
<1> QED BY <1>1, <1>7, <1>8, QuietConcludes DEF Steady, V

LEMMA WriteRowKeeps ==
  ASSUME IInv, IInv', Orderly, serial, NEW c \in Clients, Alone(c), Facts(c), WriteRow(c)
  PROVE  Orderly'
<1> DEFINE j == job[c]
           V == View(c)
           W == View(c)'
           b == [cmd |-> "put", id |-> j.id, row |-> j.new, before |-> j.before,
                 ttl |-> j.keep, score |-> Score(j.keep, j.start)]
<1>1. /\ pc[c] = "write" /\ Emit(c, b) /\ Steady
      /\ End(c) \/ (Goto(c, "next") /\ UNCHANGED job)
  BY DEF WriteRow
<1>2. /\ j \in Jobs /\ j.id \in Ids /\ j.before \in SUBSET Keys /\ j.new \in Rows
      /\ j.keep \in TTLs /\ Score(j.keep, j.start) \in 1..Never
  BY <1>1, Hands, ScoreIsPositive DEF HoldsAt, AtARow, Jobs
<1>3. b \in Bursts /\ b.cmd = "put" /\ b.id = j.id /\ b.before = j.before /\ b.row = j.new
  BY <1>2 DEF Bursts, Puts
<1>4. /\ j.start <= now /\ V \in Stores /\ RowsInHand(V, lapsed, "write", j)
      /\ Rewriting(V, lapsed, "write", j)
  BY <1>1, Hands DEF Viewed
<1>5. Others(c) /\ (pc'[c] = "idle" \/ (pc'[c] = "next" /\ job'[c] = j))
  BY <1>1, TheOthers DEF Steady, End
<1> HIDE DEF b, j, V, W
<1>6. Fits(V, lapsed, b) BY <1>3, <1>4 DEF Fits, Rewriting
<1>7. ASSUME NEW overlay \in BOOLEAN, Becomes(V, W, b, overlay)
      PROVE  InHand(W, lapsed, now, pc'[c], job'[c])
  <2>1. RowsInHand(W, lapsed, "next", j) BY <1>2, <1>3, <1>4, <1>6, <1>7, RowsStay
  <2>2. InHand(W, lapsed, now, "next", j) BY <1>4, <2>1 DEF InHand, Collecting, Rewriting, Cascading
  <2> QED BY <1>5, <2>2, Idle
<1>8. Midway(pc'[c], job'[c]) = {} /\ MidwayAfter(b) = {} BY <1>3, <1>5 DEF Midway, MidwayAfter
<1>9. pc'[c] \notin {"collect", "purge"} BY <1>5
<1> QED BY <1>1, <1>3, <1>5, <1>6, <1>7, <1>8, <1>9, EmitConcludes DEF Steady, V, W

LEMMA CascadesKeeps ==
  ASSUME IInv, IInv', Orderly, serial, NEW c \in Clients, Alone(c), Facts(c), Cascades(c)
  PROVE  Orderly'
<1> DEFINE j == job[c]
           V == View(c)
           b == [cmd |-> "cascade", id |-> j.id, before |-> j.before, ttl |-> j.ttl,
                 score |-> Score(j.ttl, j.start)]
<1>1. pc[c] = "cascade" /\ Emit(c, b) /\ Steady /\ End(c) BY DEF Cascades
<1>2. /\ j \in Jobs /\ j.id \in Ids /\ j.before \in SUBSET Keys /\ j.ttl \in TTLs
      /\ Score(j.ttl, j.start) \in 1..Never
  BY <1>1, Hands, ScoreIsPositive DEF HoldsAt, AtARow, Jobs
<1>3. /\ b \in Bursts /\ b.cmd = "cascade" /\ b.id = j.id /\ b.before = j.before
      /\ b.score = Score(j.ttl, j.start)
  BY <1>2 DEF Bursts, CascadeBursts
<1>4. Cascading(V, "cascade", j) BY <1>1, Hands
<1>5. Others(c) /\ pc'[c] = "idle" BY <1>1, TheOthers DEF Steady, End
<1> HIDE DEF b, V
<1>6. Fits(V, lapsed, b) BY <1>3, <1>4 DEF Fits, Cascading
<1>7. Midway(pc'[c], job'[c]) = {} /\ MidwayAfter(b) = {} BY <1>3, <1>5 DEF Midway, MidwayAfter
<1>8. InHand(View(c)', lapsed, now, pc'[c], job'[c]) BY <1>5, Idle
<1> QED BY <1>1, <1>3, <1>5, <1>6, <1>7, <1>8, EmitConcludes DEF Steady, V

LEMMA StepOrderly ==
  ASSUME IInv, IInv', Orderly, serial, NEW c \in Clients, Step(c) PROVE Orderly'
<1>1. pc[c] # "idle"
  BY Zenon DEF Step, Cascades, Resolve, Collect, Purge, Fetch, NextUpdate, NextDelete, RemoveRow,
         NextPatch, NothingLeft, EnforceUnique, ReadTtl, WriteRow
<1>2. Alone(c) /\ Facts(c) BY <1>1, Ready
<1> QED
  BY <1>2, ResolveKeeps, CollectKeeps, PurgeKeeps, FetchKeeps, NextUpdateKeeps, NextDeleteKeeps,
     RemoveRowKeeps, NextPatchKeeps, NothingLeftKeeps, EnforceUniqueKeeps, ReadTtlKeeps,
     WriteRowKeeps, CascadesKeeps DEF Step

-----------------------------------------------------------------------------
(* The steps in which an operation begins. *)

LEMMA Begins ==
  ASSUME IInv, Orderly, serial, NEW c \in Clients, NEW position, NEW j, j \in Jobs, Begin(c, position, j)
  PROVE  /\ Alone(c) /\ Facts(c) /\ Others(c) /\ pc[c] = "idle" /\ pc'[c] = position
         /\ job'[c] = [j EXCEPT !.start = now] /\ UNCHANGED <<now, inTx, lapsed>>
         /\ now \in Nat /\ now \in 0..MaxTime
<1>1. MayCall(c) /\ Goto(c, position) /\ job' = [job EXCEPT ![c] = [j EXCEPT !.start = now]]
      /\ UNCHANGED <<now, inTx, lapsed>>
  BY DEF Begin
<1>2. Alone(c) /\ Facts(c) BY <1>1, Ready
<1>3. Others(c) /\ pc'[c] = position BY <1>1, TheOthers
<1>4. now \in Nat /\ now \in 0..MaxTime BY Numbers DEF IInv, Storing
<1>5. job'[c] = [j EXCEPT !.start = now] BY <1>1 DEF IInv, Working
<1>6. pc[c] = "idle" BY <1>1 DEF MayCall
<1> QED BY <1>1, <1>2, <1>3, <1>4, <1>5, <1>6

(* Calls that issue no command. *)
LEMMA QuietCall ==
  ASSUME IInv, IInv', Orderly, serial, NEW c \in Clients, NEW position \in {"resolve", "next"},
         NEW j \in Jobs, j.rows = {}, Begin(c, position, j), Quiet
  PROVE  Orderly'
<1>1. /\ Alone(c) /\ Facts(c) /\ Others(c) /\ pc[c] = "idle" /\ pc'[c] = position /\ now \in Nat
      /\ job'[c] = [j EXCEPT !.start = now] /\ UNCHANGED <<now, inTx, lapsed>>
  BY Begins
<1> DEFINE n == [j EXCEPT !.start = now]
<1>2. n.rows = {} /\ n.start = now BY DEF Jobs
<1> HIDE DEF n
<1>3. InHand(View(c), lapsed, now, position, n) BY <1>1, <1>2, Beginning
<1>4. InHand(View(c), lapsed, now, pc'[c], job'[c]) BY <1>1, <1>3 DEF n
<1>5. pc[c] # "cascade" /\ pc'[c] # "cascade" /\ (inTx[c] => pc'[c] \notin {"collect", "purge"})
  BY <1>1
<1> QED BY <1>1, <1>4, <1>5, QuietConcludes

LEMMA FindsKeep ==
  ASSUME IInv, IInv', Orderly, serial, NEW c \in Clients, Find(c) \/ Update(c) \/ Delete(c) \/ Accessor(c)
  PROVE  Orderly'
<1>0. NoJob \in Jobs /\ NoJob.rows = {}
  <2>1. NoJob \in Jobs BY NoJobHolds DEF HoldsAt
  <2>2. NoJob.rows = {} BY DEF NoJob
  <2> QED BY <2>1, <2>2
<1> USE DEF Ops
<1>1. CASE Find(c)
  <2>1. PICK w \in Wheres :
          Begin(c, "resolve", [NoJob EXCEPT !.op = "find", !.conds = w, !.ids = Ids])
    BY <1>1, Zenon DEF Find
  <2> DEFINE j == [NoJob EXCEPT !.op = "find", !.conds = w, !.ids = Ids]
  <2>2. w \in SUBSET Conds BY DEF Conds
  <2>3. j \in Jobs /\ j.rows = {} BY <1>0, <2>2 DEF Jobs
  <2>4. Begin(c, "resolve", j) BY <2>1
  <2>5. Quiet BY <1>1, Zenon DEF Find
  <2> HIDE DEF j
  <2> QED BY <2>3, <2>4, <2>5, QuietCall
<1>2. CASE Update(c)
  <2>1. PICK w \in Wheres, p \in Patches, ttl \in TTLs :
          Begin(c, "resolve", [NoJob EXCEPT !.op = "update", !.conds = w, !.ids = Ids, !.patch = p, !.ttl = ttl])
    BY <1>2, Zenon DEF Update
  <2> DEFINE j == [NoJob EXCEPT !.op = "update", !.conds = w, !.ids = Ids, !.patch = p, !.ttl = ttl]
  <2>2. w \in SUBSET Conds BY DEF Conds
  <2>3. j \in Jobs /\ j.rows = {} BY <1>0, <2>2 DEF Jobs
  <2>4. Begin(c, "resolve", j) BY <2>1
  <2>5. Quiet BY <1>2, Zenon DEF Update
  <2> HIDE DEF j
  <2> QED BY <2>3, <2>4, <2>5, QuietCall
<1>3. CASE Delete(c)
  <2>1. PICK w \in Wheres :
          Begin(c, "resolve", [NoJob EXCEPT !.op = "delete", !.conds = w, !.ids = Ids])
    BY <1>3, Zenon DEF Delete
  <2> DEFINE j == [NoJob EXCEPT !.op = "delete", !.conds = w, !.ids = Ids]
  <2>2. w \in SUBSET Conds BY DEF Conds
  <2>3. j \in Jobs /\ j.rows = {} BY <1>0, <2>2 DEF Jobs
  <2>4. Begin(c, "resolve", j) BY <2>1
  <2>5. Quiet BY <1>3, Zenon DEF Delete
  <2> HIDE DEF j
  <2> QED BY <2>3, <2>4, <2>5, QuietCall
<1>4. CASE Accessor(c)
  <2>1. PICK o \in Owners \ {Nobody}, ts \in SUBSET Ids, way \in {"add", "remove", "set"} :
       Begin(c, IF way = "set" THEN "resolve" ELSE "next",
         [NoJob EXCEPT !.op = "relink", !.owner = o, !.ids = Ids,
           !.conds = IF way = "set" THEN {<<"owner", o>>} ELSE {},
           !.drop = IF way = "remove" THEN ts ELSE {}, !.link = IF way = "remove" THEN {} ELSE ts])
    BY <1>4, Zenon DEF Accessor
  <2> DEFINE conds == IF way = "set" THEN {<<"owner", o>>} ELSE {}
             drop == IF way = "remove" THEN ts ELSE {}
             link == IF way = "remove" THEN {} ELSE ts
             j == [NoJob EXCEPT !.op = "relink", !.owner = o, !.ids = Ids, !.conds = conds,
                                !.drop = drop, !.link = link]
             position == IF way = "set" THEN "resolve" ELSE "next"
  <2>2. conds \in SUBSET Conds /\ drop \in SUBSET Ids /\ link \in SUBSET Ids BY DEF Conds
  <2>3. j \in Jobs /\ j.rows = {}
    <3> HIDE DEF conds, drop, link
    <3> QED BY <1>0, <2>2 DEF Jobs
  <2>4. Begin(c, position, j) BY <2>1
  <2>6. Quiet BY <1>4, Zenon DEF Accessor
  <2>5. position \in {"resolve", "next"} OBVIOUS
  <2> HIDE DEF j, position
  <2> QED BY <2>3, <2>4, <2>5, <2>6, QuietCall
<1> QED BY <1>1, <1>2, <1>3, <1>4

(* The id that a create draws is above all those in use. *)
LEMMA CreateKeeps ==
  ASSUME IInv, IInv', Orderly, serial, NEW c \in Clients, Create(c)
  PROVE  Orderly'
<1>1. PICK row \in Rows, ttl \in TTLs :
        Begin(c, "check", [NoJob EXCEPT !.op = "create", !.id = db.seq + 1, !.new = row, !.keep = ttl])
  BY Zenon DEF Create
<1> DEFINE n == [NoJob EXCEPT !.op = "create", !.id = db.seq + 1, !.new = row, !.keep = ttl]
           j == job'[c]
           V == View(c)
           W == View(c)'
           S == Sent(c)
           T == Sent(c)'
<1>2. db' = [db EXCEPT !.seq = @ + 1] /\ UNCHANGED buffer /\ db.seq < MaxIds BY DEF Create
<1>3. NoJob \in Jobs /\ NoJob.rows = {} /\ NoJob.before = {}
  <2>1. NoJob \in Jobs BY NoJobHolds DEF HoldsAt
  <2>2. NoJob.rows = {} /\ NoJob.before = {} BY DEF NoJob
  <2> QED BY <2>1, <2>2
<1>4. /\ Viewed(c) /\ Viewed(c)' /\ inTx[c] \in BOOLEAN
  BY InView, AllViewedNext DEF IInv, Storing
<1>5. db.seq \in 0..MaxIds /\ db \in Stores BY DEF IInv, Storing, Sound, Stores
<1>6. db.seq + 1 \in Ids /\ db.seq + 1 > db.seq /\ db.seq <= db.seq + 1 BY <1>2, <1>5, Numbers DEF Ids
<1>7. n \in Jobs /\ n.rows = {} /\ n.before = {} /\ n.id = db.seq + 1 /\ Begin(c, "check", n)
  BY <1>1, <1>3, <1>6 DEF Jobs, Ops
<1> HIDE DEF n
<1>8. /\ Alone(c) /\ Facts(c) /\ Others(c) /\ pc[c] = "idle" /\ pc'[c] = "check" /\ now \in Nat
      /\ j = [n EXCEPT !.start = now] /\ UNCHANGED <<now, inTx, lapsed>>
  BY <1>7, Begins
<1>9. j.rows = {} /\ j.before = {} /\ j.id = db.seq + 1 /\ j.start = now BY <1>7, <1>8 DEF Jobs
<1> HIDE DEF j
<1>10. Fades(db, db', lapsed) /\ db' \in Stores /\ db'.seq = db.seq + 1
  BY <1>2, <1>4, <1>5 DEF Fades, Exists, Viewed, Stores
<1>11. Fades(V, W, lapsed) /\ Fades(S, T, lapsed) BY <1>2, <1>10, ViewsFade
<1>12. /\ V \in Stores /\ S \in Stores /\ W \in Stores /\ T \in Stores
       /\ V.seq = db.seq /\ S.seq = db.seq /\ W.seq = db.seq + 1 /\ T.seq = db.seq + 1
  BY <1>4, <1>10 DEF Viewed, Shadows
<1>13. Settled(V, S, lapsed, {}) BY <1>8 DEF Facts, Midway
<1> HIDE DEF V, W, S, T
<1>14. Settled(W, T, lapsed, {}) BY <1>6, <1>11, <1>12, <1>13, FadeSettles
<1>15. InHand(W, lapsed, now, "check", j)
  <2>1. V.m[j.id] = {} /\ \A k \in EqualityKeys : V.z[k][j.id] = 0
    BY <1>6, <1>9, <1>12, <1>13 DEF Settled, Fresh
  <2>2. W.m[j.id] = {} /\ \A k \in EqualityKeys : W.z[k][j.id] = 0
    BY <1>6, <1>9, <1>11, <2>1, KeysApart DEF Fades
  <2>3. j.id <= W.seq BY <1>6, <1>9, <1>12, <1>5, Numbers
  <2>4. RowsInHand(W, lapsed, "check", j) BY <1>9 DEF RowsInHand
  <2>5. Rewriting(W, lapsed, "check", j) BY <1>9, <2>2, <2>3 DEF Rewriting, Reserved
  <2>6. j.start <= now BY <1>8, <1>9
  <2> QED BY <2>4, <2>5, <2>6 DEF InHand, Collecting, Cascading
<1>16. ASSUME inTx[c] PROVE Even(db', {}) /\ Kept(db', lapsed')
  <2>1. Even(db, {}) /\ Kept(db, lapsed) BY <1>8, <1>16 DEF Facts, Orderly, Kept
  <2> QED BY <1>5, <1>6, <1>8, <1>10, <2>1, FadeStore DEF Kept
<1>17. Facts(c)' 
  <2>1. Settled(View(c)', Sent(c)', lapsed', Midway(pc'[c], job'[c])) BY <1>8, <1>14 DEF Midway, W, T
  <2>2. InHand(View(c)', lapsed', now', pc'[c], job'[c]) BY <1>8, <1>15 DEF W, j
  <2>3. inTx'[c] => Even(db', {}) /\ pc'[c] \notin {"collect", "purge"} BY <1>8, <1>16
  <2> QED BY <2>1, <2>2, <2>3, FactsNext
<1> QED BY <1>8, <1>16, <1>17, StepConcludes

(* From the moment at which a lifetime is sent until it has cascaded, the  *)
(* row differs from its indexes in the score among the ids only.           *)
LEMMA SetExpiryKeeps ==
  ASSUME IInv, IInv', Orderly, serial, NEW c \in Clients, SetExpiry(c)
  PROVE  Orderly'
<1>1. PICK i \in Ids, ttl \in TTLs :
    /\ Begin(c, "cascade", [NoJob EXCEPT !.op = "expiry", !.id = i, !.ttl = ttl, !.before = View(c).m[i]])
    /\ Emit(c, [cmd |-> "lifetime", id |-> i, ttl |-> ttl, score |-> Score(ttl, now)])
  BY Zenon DEF SetExpiry
<1> DEFINE V == View(c)
           W == View(c)'
           S == Sent(c)
           n == [NoJob EXCEPT !.op = "expiry", !.id = i, !.ttl = ttl, !.before = V.m[i]]
           j == job'[c]
           b == [cmd |-> "lifetime", id |-> i, ttl |-> ttl, score |-> Score(ttl, now)]
<1>2. Begin(c, "cascade", n) /\ Emit(c, b) BY <1>1
<1>3. NoJob \in Jobs /\ NoJob.rows = {}
  <2>1. NoJob \in Jobs BY NoJobHolds DEF HoldsAt
  <2>2. NoJob.rows = {} BY DEF NoJob
  <2> QED BY <2>1, <2>2
<1>4. Viewed(c) /\ Score(ttl, now) \in 1..Never BY InView, ScoreIsPositive DEF IInv, Storing
<1>5. b \in Bursts /\ b.cmd = "lifetime" /\ b.id = i /\ b.score = Score(ttl, now)
  BY <1>4 DEF Bursts, Lifetimes
<1> HIDE DEF b
<1>6. V \in Stores /\ S \in Stores /\ Shadows(V, S) BY <1>4 DEF Viewed
<1> HIDE DEF V, S, W
<1>7. V.m[i] \in SUBSET Keys BY <1>6, StoreFields
<1>8. n \in Jobs /\ n.rows = {} /\ n.id = i /\ n.ttl = ttl /\ n.before = V.m[i]
  BY <1>3, <1>7 DEF Jobs, Ops
<1> HIDE DEF n
<1>9. /\ Alone(c) /\ Facts(c) /\ Others(c) /\ pc[c] = "idle" /\ pc'[c] = "cascade" /\ now \in Nat
      /\ j = [n EXCEPT !.start = now] /\ UNCHANGED <<now, inTx, lapsed>>
  BY <1>2, <1>8, Begins
<1>10. j.rows = {} /\ j.before = V.m[i] /\ j.id = i /\ j.ttl = ttl /\ j.start = now BY <1>8, <1>9 DEF Jobs
<1>11. Midway(pc'[c], j) = MidwayAfter(b) BY <1>5, <1>9, <1>10 DEF Midway, MidwayAfter
<1>12. Fits(V, lapsed, b) BY <1>5 DEF Fits
<1>13. Clean(V, lapsed) /\ Fresh(V) /\ Full(S) BY <1>9 DEF Facts, Settled, V, S
<1> HIDE DEF j
<1>14. ASSUME NEW overlay \in BOOLEAN, Becomes(V, W, b, overlay) PROVE InHand(W, lapsed, now, pc'[c], j)
  <2>1. W.seq = V.seq /\ W.z[IdsKey][i] = Score(ttl, now) /\ (Exists(W, i) <=> Exists(V, i))
        /\ W.obj[i].row = V.obj[i].row
    BY <1>5, <1>14, KeysApart DEF Becomes, RowAfter, ScoreAfter
  <2>2. ASSUME Exists(V, i)
        PROVE  Equality(V.obj[i].row) \subseteq V.m[i] /\ V.m[i] \subseteq Plan(V.obj[i].row)
    <3>1. V.obj[i].row \in Rows BY <1>6, StoreFields
    <3>2. V.m[i] \subseteq Plan(V.obj[i].row) BY <1>13, <2>2 DEF Clean, Tidy
    <3>3. Exists(S, i) /\ S.obj[i].row = V.obj[i].row /\ S.m[i] \subseteq V.m[i] BY <1>6, <2>2 DEF Shadows
    <3>4. Plan(V.obj[i].row) \subseteq V.m[i] BY <1>13, <3>3 DEF Full
    <3> QED BY <3>1, <3>2, <3>4, KeysApart
  <2>3. i > V.seq => V.m[i] = {} BY <1>13 DEF Fresh
  <2>4. Cascading(W, "cascade", j) BY <1>10, <2>1, <2>2, <2>3 DEF Cascading
  <2>5. RowsInHand(W, lapsed, "cascade", j) BY <1>10 DEF RowsInHand
  <2>6. InHand(W, lapsed, now, "cascade", j)
    BY <1>9, <1>10, <2>4, <2>5 DEF InHand, Collecting, Rewriting
  <2> QED BY <1>9, <2>6
<1> QED BY <1>2, <1>5, <1>9, <1>11, <1>12, <1>14, EmitConcludes DEF V, W, j

LEMMA CallOrderly ==
  ASSUME IInv, IInv', Orderly, serial, NEW c \in Clients, Call(c) PROVE Orderly'
BY CreateKeeps, FindsKeep, SetExpiryKeeps DEF Call

-----------------------------------------------------------------------------
(* Transactions. *)

(* What EXEC leaves is what the transaction read, in order. *)
LEMMA ShadowSettles ==
  ASSUME NEW V \in Stores, NEW S \in Stores, Shadows(V, S), NEW L, NEW X, Settled(V, S, L, X)
  PROVE  Settled(S, S, L, X)
<1>1. ASSUME NEW i \in Ids, Exists(S, i)
      PROVE  Tidy(S, i, S.obj[i].row) /\ Holds(S, L, i, S.obj[i].row.email)
  <2>1. Exists(V, i) /\ S.obj[i].row = V.obj[i].row /\ V.obj[i].row \in Rows
    BY <1>1, StoreFields DEF Shadows
  <2>2. Tidy(V, i, V.obj[i].row) /\ Holds(V, L, i, V.obj[i].row.email) BY <2>1 DEF Settled, Clean
  <2> QED BY <2>1, <2>2, KeysApart DEF Shadows, Tidy, Holds
<1>2. Fresh(S) BY KeysApart, Zenon DEF Settled, Fresh, Shadows
<1>3. Even(S, X)
  <2> SUFFICES ASSUME NEW i \in Ids \ X, Exists(S, i), NEW k \in Equality(S.obj[i].row)
               PROVE  S.z[k][i] = S.z[IdsKey][i]
    BY DEF Even
  <2>1. Exists(V, i) /\ S.obj[i].row = V.obj[i].row /\ V.obj[i].row \in Rows BY StoreFields DEF Shadows
  <2>2. k \in ZKeys /\ IdsKey \in ZKeys BY <2>1, KeysApart
  <2>3. V.z[k][i] = V.z[IdsKey][i] BY <2>1 DEF Settled, Even
  <2> QED BY <2>2, <2>3 DEF Shadows
<1> QED BY <1>1, <1>2, <1>3 DEF Settled, Clean

LEMMA BeginTransactionKeeps ==
  ASSUME IInv, IInv', Orderly, serial, NEW c \in Clients, BeginTransaction(c)
  PROVE  Orderly'
<1>1. /\ MayCall(c) /\ ~ inTx[c] /\ inTx' = [inTx EXCEPT ![c] = TRUE]
      /\ UNCHANGED <<db, now, serial, pc, job, buffer, jobs, lapsed>>
  BY DEF BeginTransaction
<1>2. Alone(c) /\ Facts(c) /\ pc[c] = "idle" BY <1>1, Ready DEF MayCall
<1>3. inTx'[c] /\ Others(c) /\ buffer[c] = <<>> BY <1>1 DEF Others, IInv, Storing
<1>4. View(c) = db /\ Sent(c) = db BY <1>1, InView DEF Viewed
<1>5. View(c)' = db /\ Sent(c)' = db BY <1>1, <1>3, ViewNext, ReplayNone
<1>6. Settled(db, db, lapsed, {}) BY <1>2, <1>4 DEF Facts, Midway
<1>7. Settled(View(c)', Sent(c)', lapsed', Midway(pc'[c], job'[c])) BY <1>1, <1>2, <1>5, <1>6 DEF Midway
<1>8. InHand(View(c)', lapsed', now', pc'[c], job'[c]) BY <1>1, <1>2, Idle
<1>9. Facts(c)' BY <1>1, <1>2, <1>6, <1>7, <1>8, FactsNext DEF Settled
<1>10. Kept(db', lapsed') BY <1>1 DEF Orderly, Kept
<1> QED BY <1>2, <1>3, <1>9, <1>10, StepConcludes

LEMMA EndKeepsOrder ==
  ASSUME IInv, IInv', Orderly, serial, NEW c \in Clients, Commit(c) \/ Rollback(c)
  PROVE  Orderly'
<1>1. /\ pc[c] = "idle" /\ inTx[c] /\ inTx' = [inTx EXCEPT ![c] = FALSE]
      /\ buffer' = [buffer EXCEPT ![c] = <<>>] /\ UNCHANGED <<now, pc, job, lapsed>>
      /\ db' = Sent(c) \/ db' = db
  BY DEF Commit, Rollback, Sent
<1>2. Alone(c) /\ Facts(c) BY <1>1, Ready
<1>3. ~ inTx'[c] /\ Others(c) /\ buffer'[c] = <<>> BY <1>1 DEF Others, IInv, Storing
<1>4. View(c)' = db' /\ Sent(c)' = db' BY <1>1, <1>3, ViewNext, ReplayNone
<1>5. Settled(db', db', lapsed, {})
  <2>1. CASE db' = db
    <3>1. Even(db, {}) BY <1>1, <1>2 DEF Facts
    <3> QED BY <2>1, <3>1 DEF Orderly, Settled
  <2>2. CASE db' = Sent(c)
    <3>1. Settled(View(c), Sent(c), lapsed, {}) BY <1>1, <1>2 DEF Facts, Midway
    <3>2. View(c) \in Stores /\ Sent(c) \in Stores /\ Shadows(View(c), Sent(c)) BY InView DEF Viewed
    <3> QED BY <2>2, <3>1, <3>2, ShadowSettles
  <2> QED BY <1>1, <2>1, <2>2
<1>6. Settled(View(c)', Sent(c)', lapsed', Midway(pc'[c], job'[c])) BY <1>1, <1>4, <1>5 DEF Midway
<1>7. InHand(View(c)', lapsed', now', pc'[c], job'[c]) BY <1>1, Idle
<1>8. Facts(c)' BY <1>3, <1>6, <1>7, FactsNext
<1> QED BY <1>2, <1>3, <1>8, StepConcludes

-----------------------------------------------------------------------------
(* The clock, the initial states, and all steps. *)

LEMMA OrderlyAtRest == (\A c \in Clients : Resting(c)) /\ Kept(db, lapsed) /\ Even(db, {}) => Orderly
BY Zenon DEF Orderly, Kept
LEMMA OrderlyAtRestNext ==
  ((\A c \in Clients : Resting(c)) /\ Kept(db, lapsed) /\ Even(db, {}) => Orderly)'
BY OrderlyAtRest, PTL

(* Whatever changes the store for nobody in particular. *)
LEMMA EveryoneConcludes ==
  ASSUME IInv', Orderly, serial, UNCHANGED <<pc, inTx>>, Kept(db', lapsed'), Even(db, {}) => Even(db', {}),
         \A c \in Clients : Alone(c) /\ Facts(c) => Facts(c)'
  PROVE  Orderly'
<1>1. CASE \A c \in Clients : Resting(c)
  <2>1. \A c \in Clients : pc[c] = "idle" /\ ~ inTx[c] BY <1>1, Zenon DEF Resting
  <2>2. \A c \in Clients : pc'[c] = "idle" /\ ~ inTx'[c] BY <2>1
  <2>3. (\A c \in Clients : Resting(c))' BY <2>2, Zenon DEF Resting
  <2>4. Even(db, {}) BY <1>1, Zenon DEF Orderly
  <2>5. (Kept(db, lapsed) /\ Even(db, {}))'
    BY <2>4 DEF Kept, Clean, Fresh, Full, Claims, Exists, Tidy, Holds, Reserved, Even
  <2> QED BY <2>3, <2>5, OrderlyAtRestNext
<1>2. CASE \E c \in Clients : ~ Resting(c)
  <2>1. PICK c \in Clients : ~ Resting(c) BY <1>2, Zenon
  <2>2. Alone(c) /\ Facts(c) BY <2>1, Zenon DEF Orderly
  <2>3. Facts(c)' BY <2>2, Zenon
  <2>4. Others(c) BY DEF Others
  <2> QED BY <2>2, <2>3, <2>4, StepConcludes
<1> QED BY <1>1, <1>2, Zenon

LEMMA StillOrderly ==
  ASSUME IInv', Orderly, serial, UNCHANGED vars PROVE Orderly'
<1>1. UNCHANGED <<db, now, pc, job, inTx, buffer, lapsed>> /\ Quiet BY DEF vars, Quiet
<1>2. ASSUME NEW c \in Clients, Alone(c), Facts(c) PROVE Facts(c)'
  <2>1. View(c)' = View(c) /\ Sent(c)' = Sent(c) BY <1>1, QuietViews
  <2> QED BY <1>1, <1>2, <2>1, FactsNext DEF Facts
<1>3. Kept(db', lapsed') BY <1>1 DEF Orderly, Kept
<1> QED BY <1>1, <1>2, <1>3, EveryoneConcludes

LEMMA SerialStays == [Next]_vars => serial' = serial
<1> SUFFICES ASSUME [Next]_vars PROVE serial' = serial OBVIOUS
<1>1. CASE UNCHANGED vars BY <1>1 DEF vars
<1>2. CASE Tick \/ Over BY <1>2, Zenon DEF Tick, Over, vars
<1>3. ASSUME NEW c \in Clients, Call(c) PROVE serial' = serial
  BY <1>3, Zenon DEF Call, Create, Find, Update, Delete, Accessor, SetExpiry, Begin
<1>4. ASSUME NEW c \in Clients, Step(c) PROVE serial' = serial
  BY <1>4, Zenon DEF Step, Cascades, Resolve, Collect, Purge, Fetch, NextUpdate, NextDelete, RemoveRow,
       NextPatch, NothingLeft, EnforceUnique, ReadTtl, WriteRow, Steady
<1>5. ASSUME NEW c \in Clients, BeginTransaction(c) \/ Commit(c) \/ Rollback(c) PROVE serial' = serial
  BY <1>5, Zenon DEF BeginTransaction, Commit, Rollback
<1> QED BY <1>1, <1>2, <1>3, <1>4, <1>5, Zenon DEF Next

LEMMA ServerFades ==
  ASSUME IInv, Tick
  PROVE  /\ Fades(db, db', lapsed') /\ db'.seq = db.seq /\ lapsed \subseteq lapsed' /\ now' = now + 1
         /\ \A i \in Ids : db'.obj[i].expires > now' => db.obj[i].expires > now
         /\ UNCHANGED <<serial, pc, job, inTx, buffer>>
<1> DEFINE Ended(x) == x.expires <= now + 1
           obj == [i \in Ids |-> IF Ended(db.obj[i]) THEN Gone ELSE db.obj[i]]
           u == [a \in Emails |-> IF Ended(db.u[a]) THEN Free ELSE db.u[a]]
<1>1. /\ now' = now + 1 /\ db' = [db EXCEPT !.obj = obj, !.u = u]
      /\ lapsed' = lapsed \cup {a \in Emails : db.u[a] # Free /\ Ended(db.u[a])}
      /\ UNCHANGED <<serial, pc, job, inTx, buffer>>
  BY DEF Tick
<1>2. db \in Stores /\ now \in Nat BY Numbers DEF IInv, Storing, Sound
<1>3. db'.obj = obj /\ db'.u = u /\ db'.m = db.m /\ db'.z = db.z /\ db'.seq = db.seq
  <2> HIDE DEF obj, u
  <2> QED BY <1>1, <1>2 DEF Stores
<1>4. \A i \in Ids : obj[i] = db.obj[i] \/ obj[i] = Gone OBVIOUS
<1>5. \A a \in Emails : a \in lapsed' \/ u[a].id = db.u[a].id BY <1>1
<1>6. \A i \in Ids : db.obj[i].expires \in 0..Never BY <1>2, StoreFields
<1> HIDE DEF obj, u
<1>7. \A i \in Ids : obj[i].expires > 0 => obj[i] = db.obj[i] BY <1>4, GoneIsARow
<1>8. Fades(db, db', lapsed') BY <1>3, <1>5, <1>7 DEF Fades, Exists
<1>9. \A i \in Ids : obj[i].expires > now' => db.obj[i].expires > now
  BY <1>1, <1>2, <1>4, <1>6, GoneIsARow, Numbers
<1> QED BY <1>1, <1>3, <1>8, <1>9

LEMMA TickOrderly ==
  ASSUME IInv, IInv', Orderly, serial, Tick PROVE Orderly'
<1>1. /\ Fades(db, db', lapsed') /\ db'.seq = db.seq /\ lapsed \subseteq lapsed' /\ now' = now + 1
      /\ \A i \in Ids : db'.obj[i].expires > now' => db.obj[i].expires > now
      /\ UNCHANGED <<serial, pc, job, inTx, buffer>>
  BY ServerFades
<1>2. /\ db \in Stores /\ db' \in Stores /\ db.seq <= db'.seq /\ now \in Nat /\ now' \in Nat /\ now <= now'
  BY <1>1, Numbers, StoreFields DEF IInv, Storing, Sound
<1>3. Kept(db', lapsed') /\ \A X : Even(db, X) => Even(db', X)
  BY <1>1, <1>2, FadeStore DEF Orderly, Kept
<1>4. ASSUME NEW c \in Clients, Alone(c), Facts(c) PROVE Facts(c)'
  <2> DEFINE V == View(c)
             W == View(c)'
             S == Sent(c)
             T == Sent(c)'
  <2>1. Viewed(c) /\ Viewed(c)' BY InView, AllViewedNext
  <2>2. Fades(V, W, lapsed') /\ Fades(S, T, lapsed') BY <1>1, ViewsFade
  <2>3. /\ V \in Stores /\ W \in Stores /\ S \in Stores /\ T \in Stores
        /\ V.seq = db.seq /\ W.seq = db.seq /\ S.seq = db.seq /\ T.seq = db.seq
        /\ ~ inTx[c] => V = db /\ W = db'
    BY <1>1, <2>1 DEF Viewed, Shadows
  <2>4. /\ Settled(V, S, lapsed, Midway(pc[c], job[c])) /\ InHand(V, lapsed, now, pc[c], job[c])
        /\ inTx[c] => Even(db, {}) /\ pc[c] \notin {"collect", "purge"}
    BY <1>4 DEF Facts
  <2>5. HoldsAt(job[c], pc[c]) BY DEF IInv, Working
  <2> HIDE DEF V, W, S, T
  <2>6. Settled(W, T, lapsed', Midway(pc[c], job[c]))
    BY <1>1, <1>2, <2>2, <2>3, <2>4, FadeSettles
  <2>7. pc[c] \in {"collect", "purge"} =>
          \A i \in Ids : W.obj[i].expires > now' => V.obj[i].expires > now
    BY <1>1, <2>3, <2>4
  <2>8. InHand(W, lapsed', now', pc[c], job[c]) BY <1>1, <1>2, <2>2, <2>3, <2>4, <2>5, <2>7, FadeInHand
  <2>9. Settled(View(c)', Sent(c)', lapsed', Midway(pc'[c], job'[c])) BY <1>1, <2>6 DEF W, T
  <2>10. InHand(View(c)', lapsed', now', pc'[c], job'[c]) BY <1>1, <2>8 DEF W
  <2>11. inTx'[c] => Even(db', {}) /\ pc'[c] \notin {"collect", "purge"} BY <1>1, <1>3, <2>4
  <2> QED BY <2>9, <2>10, <2>11, FactsNext
<1> QED BY <1>1, <1>3, <1>4, EveryoneConcludes

LEMMA InitOrderly ==
  ASSUME Init, IInv PROVE Orderly
<1>1. now = 0 /\ lapsed = {} /\ now \in 0..MaxTime BY Numbers DEF Init
<1>2. \A c \in Clients : Resting(c) BY Zenon DEF Init, Resting
<1>3. Empty \in Stores BY GoneIsARow, FreeIsAReservation, Numbers DEF Empty, Stores
<1>4. /\ \A i \in Ids : Empty.obj[i] = Gone /\ Empty.m[i] = {} /\ \A k \in ZKeys : Empty.z[k][i] = 0
      /\ \A a \in Emails : Empty.u[a].id = 0
  BY DEF Empty, Free
<1> DEFINE d == [Empty EXCEPT !.seq = 1]
<1>5. d \in Stores /\ d.obj = Empty.obj /\ d.z = Empty.z /\ d.m = Empty.m /\ d.u = Empty.u /\ d.seq = 1
  <2>1. 1 \in 0..MaxIds BY Numbers
  <2> QED BY <1>3, <2>1 DEF Stores
<1> HIDE DEF d
<1>6. ASSUME NEW e, e.obj = Empty.obj, e.z = Empty.z, e.m = Empty.m, e.u = Empty.u
      PROVE  Settled(e, e, {}, {})
  <2>1. \A i \in Ids : ~ Exists(e, i) /\ e.m[i] = {} /\ \A k \in EqualityKeys : e.z[k][i] = 0
    BY <1>4, <1>6, GoneIsARow, KeysApart DEF Exists
  <2> QED BY <2>1 DEF Settled, Clean, Fresh, Even, Full, Claims, Reserved
<1>7. Settled(db, db, {}, {})
  <2>1. CASE db = Empty BY <1>6, <2>1
  <2>2. ASSUME NEW row \in Residents, NEW ttl \in TTLs,
               db = Put(d, [cmd |-> "put", id |-> 1, row |-> row, before |-> {}, ttl |-> ttl, score |-> Score(ttl, now)])
        PROVE  Settled(db, db, {}, {})
    <3> DEFINE b == [cmd |-> "put", id |-> 1, row |-> row, before |-> {}, ttl |-> ttl, score |-> Score(ttl, now)]
    <3>1. 1 \in Ids /\ row \in Rows /\ Score(ttl, now) \in 1..Never
      BY <1>1, ScoreIsPositive, ValkeyAssumption, Numbers DEF Ids
    <3>2. b \in Bursts /\ b.cmd = "put" /\ b.id = 1 /\ b.before = {} /\ b.row = row
      BY <3>1 DEF Bursts, Puts
    <3> HIDE DEF b
    <3>3. Sound(d, now)
      <4>1. \A i \in Ids : d.obj[i].expires = 0 BY <1>4, <1>5, GoneIsARow
      <4>2. now \in Nat BY <1>1
      <4> QED BY <1>1, <1>5, <4>1, <4>2, Numbers DEF Sound, Lasting, Listed
    <3>4. db = Run(d, b) BY <2>2, <3>2 DEF Run, b
    <3>5. Becomes(d, db, b, FALSE) BY <1>1, <3>2, <3>3, <3>4, RunIs
    <3>6. Settled(d, d, {}, {}) BY <1>5, <1>6
    <3>7. Fits(d, {}, b)
      <4>1. row.email \in Emails BY <3>1, KeysApart
      <4> QED BY <1>4, <1>5, <3>1, <3>2, <4>1, KeysApart DEF Fits, Reserved
    <3>8. Shadows(d, d) BY DEF Shadows
    <3>9. Settled(db, db, {}, MidwayAfter(b)) BY <1>5, <3>2, <3>5, <3>6, <3>7, <3>8, BurstSettles
    <3> QED BY <3>2, <3>9 DEF MidwayAfter
  <2> QED BY <2>1, <2>2, Zenon DEF Init, d
<1> QED BY <1>1, <1>2, <1>7 DEF Orderly, Settled

LEMMA OrderlyInductive == IInv /\ Orderly /\ [Next]_vars => Orderly'
<1> SUFFICES ASSUME IInv, Orderly, [Next]_vars PROVE Orderly' OBVIOUS
<1>1. IInv' BY Inductive
<1>3. serial' = serial BY SerialStays
<1>4. CASE ~ serial BY <1>3, <1>4 DEF Orderly
<1>5. CASE serial
  <2>0. CASE UNCHANGED vars BY <1>1, <1>5, <2>0, StillOrderly
  <2>1. CASE Tick BY <1>1, <1>5, <2>1, TickOrderly
  <2>2. ASSUME NEW c \in Clients, Call(c) PROVE Orderly' BY <1>1, <1>5, <2>2, CallOrderly
  <2>3. ASSUME NEW c \in Clients, Step(c) PROVE Orderly' BY <1>1, <1>5, <2>3, StepOrderly
  <2>4. ASSUME NEW c \in Clients, BeginTransaction(c) PROVE Orderly'
    BY <1>1, <1>5, <2>4, BeginTransactionKeeps
  <2>5. ASSUME NEW c \in Clients, Commit(c) \/ Rollback(c) PROVE Orderly'
    BY <1>1, <1>5, <2>5, EndKeepsOrder
  <2>6. CASE Over BY <2>0, <2>6 DEF Over
  <2> QED BY <2>0, <2>1, <2>2, <2>3, <2>4, <2>5, <2>6, Zenon DEF Next
<1> QED BY <1>4, <1>5

LEMMA OrderlyInvariant == Spec => [](IInv /\ Orderly)
<1>1. Init => IInv /\ Orderly BY InitHolds, InitOrderly
<1>2. IInv /\ Orderly /\ [Next]_vars => IInv' /\ Orderly' BY Inductive, OrderlyInductive
<1> QED BY <1>1, <1>2, PTL DEF Spec

(* One operation or transaction at a time, an index names a row only under *)
(* the values that it has: what updates, deletes, lifetimes and garbage    *)
(* collection leave in the ZSETs never answers a query with a row that     *)
(* does not match, in whatever order they come and whatever expires.       *)
THEOREM IndexesAreTruthful == Spec => []Truthful
<1>1. IInv /\ Orderly => Truthful
  <2> SUFFICES ASSUME IInv, Orderly, serial, NEW i \in Ids, NEW k \in EqualityKeys,
                      Alive(db, i), db.z[k][i] > now
               PROVE  k \in Equality(db.obj[i].row)
    BY DEF Truthful
  <2>1. db \in Stores /\ now \in Nat BY Numbers DEF IInv, Storing, Sound
  <2>2. db.obj[i].expires \in 0..Never /\ db.z[k][i] \in 0..Never BY <2>1, StoreFields, KeysApart
  <2>3. Exists(db, i) /\ db.z[k][i] > 0 BY <2>1, <2>2, Numbers DEF Alive, Exists
  <2> QED BY <2>3 DEF Orderly, Clean, Tidy
<1> QED BY <1>1, OrderlyInvariant, PTL

(* One operation or transaction at a time, an email is reserved for the    *)
(* row that has it, until a lifetime takes the reservation: enforceUnique  *)
(* finds whoever holds the value, and no two rows come to share one.       *)
THEOREM EmailsAreUnique == Spec => []UniqueHolds
<1>1. IInv /\ Orderly => UniqueHolds
  <2> SUFFICES ASSUME IInv, Orderly, serial, NEW i \in Ids, NEW j \in Ids, Alive(db, i), Alive(db, j),
                      i # j, db.obj[i].row.email = db.obj[j].row.email
               PROVE  db.obj[i].row.email \in lapsed
    BY DEF UniqueHolds
  <2>1. db \in Stores /\ now \in Nat BY Numbers DEF IInv, Storing, Sound
  <2>2. db.obj[i].expires \in 0..Never /\ db.obj[j].expires \in 0..Never BY <2>1, StoreFields
  <2>3. Exists(db, i) /\ Exists(db, j) BY <2>1, <2>2, Numbers DEF Alive, Exists
  <2> QED BY <2>3 DEF Orderly, Clean, Holds
<1> QED BY <1>1, OrderlyInvariant, PTL

(* One operation or transaction at a time, lazy garbage collection removes *)
(* no row whose lifetime is not over, although it decides on what it read  *)
(* of a ZSET, and removes one row after another.                           *)
THEOREM CollectionSparesTheLiving == Spec => CollectsOnlyTheDead
<1> DEFINE Spares == serial => \A c \in Clients : pc[c] = "purge" /\ pc'[c] # "purge" =>
                       (Alive(db, job[c].id) => db.z[IdsKey][job[c].id] <= now)
<1>1. IInv /\ Orderly => Spares
  <2> SUFFICES ASSUME IInv, Orderly, serial, NEW c \in Clients, pc[c] = "purge", Alive(db, job[c].id)
               PROVE  db.z[IdsKey][job[c].id] <= now
    OBVIOUS
  <2>1. Facts(c) BY Zenon DEF Orderly, Resting
  <2>2. Collecting(View(c), now, "purge", job[c]) BY <2>1, Hands
  <2>3. View(c) = db BY <2>1, InView DEF Facts, Viewed
  <2> QED BY <2>2, <2>3 DEF Collecting, Alive
<1>2. IInv /\ Orderly /\ [Next]_vars => [Spares]_vars BY <1>1
<1> QED BY <1>2, OrderlyInvariant, PTL DEF Spec, CollectsOnlyTheDead
=============================================================================
