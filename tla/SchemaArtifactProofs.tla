------------------------ MODULE SchemaArtifactProofs ------------------------
(***************************************************************************)
(* Theorems about SchemaArtifact: what readers find at an artifact's path, *)
(* and what a schema built on an orm that served other permissions is.     *)
(* Each needs something of the host that the code does not see to: one     *)
(* builder of a path, since builders share the sibling they write by way   *)
(* of, and one worker of an orm, since its adapter keeps one permission.   *)
(* And about PermissionRules: what a bag of permissions opens and closes.  *)
(***************************************************************************)
EXTENDS SchemaArtifact, PermissionRules, TLAPS

OneBuilder ==
  \A v, w \in Workers : \A s \in TasksOf[v], t \in TasksOf[w] :
    s.kind = "build" /\ t.kind = "build" /\ s.file = t.file => v = w
OwnOrms == \A v, w \in Workers : OrmOf[v] = OrmOf[w] => v = w

-----------------------------------------------------------------------------
(* What a worker is at. *)

Steps == {"idle", "reading", "loading", "compiling", "writing", "filling", "renaming"}
Writing == {"writing", "filling", "renaming"}

(* Every worker but an idle one is at a task it was asked for, which may   *)
(* have become a live build since.                                         *)
AskedFor(w, t) == /\ task[w].file = t.file /\ task[w].permission = t.permission /\ task[w].extend = t.extend
                  /\ task[w].onMismatch = t.onMismatch
                  /\ task[w].kind = "build" => t.kind = "build"
Asked ==
  /\ at \in [Workers -> Steps] /\ DOMAIN task = Workers /\ DOMAIN holds = Workers
  /\ \A w \in Workers :
       /\ at[w] # "idle" => \E t \in TasksOf[w] : AskedFor(w, t)
       /\ at[w] \in {"reading", "loading"} => task[w].kind # "live"
       /\ at[w] \in Writing => task[w].kind = "build"

Answers(w) == task[w].onMismatch \in {"throw", "rebuild", "warn"}
LEMMA AskedAnswers ==
  ASSUME Asked, NEW w \in Workers, at[w] # "idle"
  PROVE  Answers(w)
BY SchemaArtifactAssumption DEF Asked, AskedFor, Answers

LEMMA InitAsked == Init => Asked
BY DEF Init, Asked, Steps, Writing

(* A step is one worker's, or all workers of an orm start again.           *)
LEMMA StepAsked == Asked /\ [Next]_vars => Asked'
<1> SUFFICES ASSUME Asked, [Next]_vars PROVE Asked' OBVIOUS
<1> USE DEF Steps, Writing
<1>1. ASSUME NEW w \in Workers, NEW t \in TasksOf[w], Begin(w, t) PROVE Asked'
  <2>1. task' = [task EXCEPT ![w] = t] /\ holds' = [holds EXCEPT ![w] = None] BY <1>1 DEF Begin
  <2>2. at' = [at EXCEPT ![w] = IF t.kind \in {"live", "build"} THEN "compiling" ELSE "reading"]
    BY <1>1 DEF Begin, Compiling
  <2>3. task'[w] = t /\ at'[w] = IF t.kind \in {"live", "build"} THEN "compiling" ELSE "reading"
    BY <2>1, <2>2 DEF Asked
  <2> QED BY <2>1, <2>2, <2>3 DEF Asked, AskedFor
<1>2. ASSUME NEW w \in Workers, UNCHANGED task, DOMAIN holds' = Workers, NEW to \in Steps, at[w] # "idle",
             at' = [at EXCEPT ![w] = to], to \in {"reading", "loading"} => task[w].kind # "live",
             to \in Writing => task[w].kind = "build"
      PROVE  Asked'
  BY <1>2 DEF Asked, AskedFor
<1>3. ASSUME NEW w \in Workers, NEW m \in todo[w], Compile(w, m) PROVE Asked'
  BY <1>3 DEF Compile, Asked, AskedFor
<1>4. ASSUME NEW w \in Workers, Finish(w) PROVE Asked'
  <2>1. /\ at[w] = "compiling" /\ UNCHANGED task /\ DOMAIN holds' = Workers
        /\ \/ at' = [at EXCEPT ![w] = "idle"]
           \/ at' = [at EXCEPT ![w] = "writing"] /\ task[w].kind = "build"
    BY <1>4 DEF Finish, Done, Asked
  <2>2. CASE at' = [at EXCEPT ![w] = "idle"] BY <1>2, <2>1, <2>2
  <2>3. CASE at' = [at EXCEPT ![w] = "writing"] /\ task[w].kind = "build" BY <1>2, <2>1, <2>3
  <2> QED BY <2>1, <2>2, <2>3
<1>5. ASSUME NEW w \in Workers, OpenTmp(w) \/ FillTmp(w) \/ Rename(w) \/ Load(w) PROVE Asked'
  BY <1>2, <1>5 DEF OpenTmp, FillTmp, Rename, Load, Done, Asked
<1>6. ASSUME NEW w \in Workers, ReadFile(w) PROVE Asked'
  <2>1. at[w] = "reading" /\ DOMAIN holds' = Workers /\ Answers(w) BY <1>6, AskedAnswers DEF ReadFile, Asked
  <2>2. \/ UNCHANGED task /\ \E to \in {"idle", "compiling", "loading"} : at' = [at EXCEPT ![w] = to]
        \/ task' = [task EXCEPT ![w].kind = "live"] /\ at' = [at EXCEPT ![w] = "compiling"]
    BY <1>6, <2>1 DEF Answers, ReadFile, Refuses, Rebuilds, GoesOn, CheckFormat, CheckFingerprint, Done, Compiling
  <2>3. CASE UNCHANGED task BY <1>2, <2>1, <2>2, <2>3 DEF Asked
  <2>4. CASE task' = [task EXCEPT ![w].kind = "live"] /\ at' = [at EXCEPT ![w] = "compiling"]
    <3>1. /\ task'[w].file = task[w].file /\ task'[w].permission = task[w].permission
          /\ task'[w].extend = task[w].extend /\ task'[w].onMismatch = task[w].onMismatch /\ task'[w].kind \in {"live", task[w].kind}
      BY <2>4 DEF Asked
    <3>2. \A v \in Workers : v # w => task'[v] = task[v] /\ at'[v] = at[v] BY <2>4 DEF Asked
    <3>3. at' \in [Workers -> Steps] /\ at'[w] = "compiling" /\ DOMAIN task' = Workers BY <2>4 DEF Asked
    <3> QED BY <2>1, <3>1, <3>2, <3>3 DEF Asked, AskedFor
  <2> QED BY <2>2, <2>3, <2>4
<1>7. ASSUME NEW o, NEW r, Restart(o, r) PROVE Asked'
  <2>1. /\ at' = [w \in Workers |-> IF OrmOf[w] = o THEN "idle" ELSE at[w]]
        /\ task' = [w \in Workers |-> IF OrmOf[w] = o THEN NoTask ELSE task[w]]
        /\ holds' = [w \in Workers |-> IF OrmOf[w] = o THEN None ELSE holds[w]]
    BY <1>7 DEF Restart, Forgets
  <2> QED BY <2>1 DEF Asked, AskedFor
<1>8. CASE UNCHANGED vars BY <1>8 DEF vars, work, Asked, AskedFor
<1> QED BY <1>1, <1>3, <1>4, <1>5, <1>6, <1>7, <1>8 DEF Next

-----------------------------------------------------------------------------
(* What is on disk. *)

Whole(a) == \E of, profile : a = [of |-> of, profile |-> profile]
(* A builder's sibling holds what the builder does once it was filled, and *)
(* a builder holds whole artifacts only.                                   *)
OnDisk ==
  /\ DOMAIN disk = Files /\ \A f \in Files : DOMAIN disk[f] = {"main", "tmp"}
  /\ \A f \in Files : disk[f].main # None => Whole(disk[f].main)
  /\ \A w \in Workers : /\ at[w] \in Writing => Whole(holds[w])
                        /\ at[w] = "renaming" => disk[task[w].file].tmp = holds[w]

(* Of two that are writing, each writes a path of its own. *)
LEMMA PathsApart ==
  ASSUME OneBuilder, SchemaArtifactAssumption, Asked, NEW v \in Workers, NEW w \in Workers,
         at[v] \in Writing, at[w] \in Writing
  PROVE  task[v].file \in Files /\ (task[v].file = task[w].file => v = w)
<1>1. /\ \E t \in TasksOf[v] : AskedFor(v, t) /\ t.kind = "build"
      /\ \E t \in TasksOf[w] : AskedFor(w, t) /\ t.kind = "build"
  BY DEF Asked, AskedFor, Writing
<1>2. PICK s \in TasksOf[v], t \in TasksOf[w] : AskedFor(v, s) /\ s.kind = "build" /\ AskedFor(w, t) /\ t.kind = "build"
  BY <1>1
<1> QED BY <1>2 DEF AskedFor, OneBuilder, SchemaArtifactAssumption

LEMMA StepOnDisk ==
  ASSUME OneBuilder, SchemaArtifactAssumption, Asked, OnDisk, [Next]_vars
  PROVE  OnDisk'
<1> USE DEF Writing
<1>1. ASSUME NEW w \in Workers, UNCHANGED disk, \A v \in Workers : v # w => UNCHANGED <<at[v], task[v], holds[v]>>,
             at'[w] \notin Writing
      PROVE  OnDisk'
  BY <1>1 DEF OnDisk
<1>2. ASSUME NEW w \in Workers, NEW t \in TasksOf[w], Begin(w, t) PROVE OnDisk'
  BY <1>1, <1>2 DEF Begin, Compiling, Asked
<1>3. ASSUME NEW w \in Workers, NEW m \in todo[w], Compile(w, m) PROVE OnDisk'
  BY <1>3 DEF Compile, OnDisk
<1>4. ASSUME NEW w \in Workers, Finish(w) PROVE OnDisk'
  <2> DEFINE snapshot == [of |-> Recipe(w), profile |-> task[w].profile]
  <2>1. /\ UNCHANGED <<disk, task>>
        /\ \/ at' = [at EXCEPT ![w] = "idle"] /\ UNCHANGED holds
           \/ at' = [at EXCEPT ![w] = "writing"] /\ holds' = [holds EXCEPT ![w] = snapshot]
    BY <1>4 DEF Finish, Done
  <2>2. CASE at' = [at EXCEPT ![w] = "idle"] /\ UNCHANGED holds BY <1>1, <2>1, <2>2 DEF Asked
  <2>3. CASE at' = [at EXCEPT ![w] = "writing"] /\ holds' = [holds EXCEPT ![w] = snapshot]
    <3>1. at'[w] = "writing" /\ holds'[w] = snapshot BY <2>3 DEF Asked
    <3>2. \A v \in Workers : v # w => at'[v] = at[v] /\ holds'[v] = holds[v] BY <2>3 DEF Asked
    <3>3. Whole(snapshot) BY DEF Whole
    <3> HIDE DEF snapshot
    <3> QED BY <2>1, <3>1, <3>2, <3>3 DEF OnDisk
  <2> QED BY <2>1, <2>2, <2>3
<1>5. ASSUME NEW w \in Workers, OpenTmp(w) \/ FillTmp(w) PROVE OnDisk'
  <2> DEFINE f == task[w].file
  <2>1. at[w] \in Writing /\ UNCHANGED <<task, holds>> BY <1>5 DEF OpenTmp, FillTmp
  <2>2. PICK tmp : disk' = [disk EXCEPT ![f].tmp = tmp] /\ (FillTmp(w) => tmp = holds[w])
    BY <1>5 DEF OpenTmp, FillTmp
  <2>3. f \in Files BY <2>1, PathsApart
  <2>4. /\ DOMAIN disk' = Files /\ \A g \in Files : DOMAIN disk'[g] = {"main", "tmp"}
        /\ \A g \in Files : disk'[g].main = disk[g].main
        /\ \A g \in Files : g # f => disk'[g] = disk[g]
        /\ disk'[f].tmp = tmp
    BY <2>2, <2>3 DEF OnDisk
  <2>5. \/ OpenTmp(w) /\ at' = [at EXCEPT ![w] = "filling"]
        \/ FillTmp(w) /\ at' = [at EXCEPT ![w] = "renaming"]
    BY <1>5 DEF OpenTmp, FillTmp
  <2>6. \A v \in Workers : v # w => at'[v] = at[v] BY <2>5 DEF Asked
  <2>7. at'[w] \in Writing /\ (at'[w] = "renaming" => FillTmp(w)) BY <2>5 DEF Asked
  <2>8. \A v \in Workers : v # w /\ at[v] \in Writing => task[v].file \in Files /\ task[v].file # f
    BY <2>1, PathsApart
  <2>9. ASSUME NEW v \in Workers, at'[v] \in Writing
        PROVE  Whole(holds'[v]) /\ (at'[v] = "renaming" => disk'[task'[v].file].tmp = holds'[v])
    <3>1. CASE v = w BY <2>1, <2>2, <2>4, <2>7, <3>1 DEF OnDisk
    <3>2. CASE v # w BY <2>1, <2>4, <2>6, <2>8, <2>9, <3>2 DEF OnDisk
    <3> QED BY <3>1, <3>2
  <2>10. \A g \in Files : disk'[g].main # None => Whole(disk'[g].main) BY <2>4 DEF OnDisk
  <2> QED BY <2>4, <2>9, <2>10 DEF OnDisk
<1>6. ASSUME NEW w \in Workers, Rename(w) PROVE OnDisk'
  <2> DEFINE f == task[w].file
  <2>1. at[w] = "renaming" /\ UNCHANGED <<task, holds>> /\ at' = [at EXCEPT ![w] = "idle"]
        /\ disk' = [disk EXCEPT ![f] = [main |-> @.tmp, tmp |-> None]]
    BY <1>6 DEF Rename, Done
  <2>2. f \in Files /\ \A v \in Workers : v # w /\ at[v] \in Writing => task[v].file # f BY <2>1, PathsApart
  <2>3. DOMAIN disk' = Files /\ disk'[f] = [main |-> holds[w], tmp |-> None] /\ \A g \in Files : g # f => disk'[g] = disk[g]
    BY <2>1, <2>2 DEF OnDisk
  <2>4. DOMAIN disk'[f] = {"main", "tmp"} /\ disk'[f].main = holds[w] BY <2>3
  <2>5. at'[w] = "idle" /\ \A v \in Workers : v # w => at'[v] = at[v] BY <2>1 DEF Asked
  <2>6. \A v \in Workers : v # w /\ at[v] \in Writing => task[v].file \in Files BY <2>1, PathsApart
  <2>7. ASSUME NEW v \in Workers, at'[v] \in Writing
        PROVE  Whole(holds'[v]) /\ (at'[v] = "renaming" => disk'[task'[v].file].tmp = holds'[v])
    BY <2>1, <2>2, <2>3, <2>5, <2>6, <2>7 DEF OnDisk
  <2>8. Whole(holds[w]) BY <2>1 DEF OnDisk
  <2>9. ASSUME NEW g \in Files
        PROVE  DOMAIN disk'[g] = {"main", "tmp"} /\ (disk'[g].main # None => Whole(disk'[g].main))
    BY <2>3, <2>4, <2>8 DEF OnDisk
  <2> QED BY <2>3, <2>7, <2>9 DEF OnDisk
<1>7. ASSUME NEW w \in Workers, ReadFile(w) \/ Load(w) PROVE OnDisk'
  <2>0. Answers(w) BY <1>7, AskedAnswers DEF ReadFile, Load
  <2>1. UNCHANGED disk /\ \A v \in Workers : v # w => UNCHANGED <<task[v], holds[v]>>
    BY <1>7, <2>0 DEF Answers, ReadFile, Load, Refuses, Rebuilds, GoesOn, CheckFormat, CheckFingerprint, Compiling, Asked
  <2>2. \E to \in {"idle", "compiling", "loading"} : at' = [at EXCEPT ![w] = to]
    BY <1>7, <2>0 DEF Answers, ReadFile, Load, Refuses, Rebuilds, GoesOn, CheckFormat, CheckFingerprint, Done, Compiling
  <2>3. at'[w] \notin Writing /\ \A v \in Workers : v # w => at'[v] = at[v] BY <2>2 DEF Asked
  <2> QED BY <1>1, <2>1, <2>3
<1>8. ASSUME NEW o, NEW r, Restart(o, r) PROVE OnDisk'
  <2>1. /\ at' = [w \in Workers |-> IF OrmOf[w] = o THEN "idle" ELSE at[w]]
        /\ task' = [w \in Workers |-> IF OrmOf[w] = o THEN NoTask ELSE task[w]]
        /\ holds' = [w \in Workers |-> IF OrmOf[w] = o THEN None ELSE holds[w]]
        /\ UNCHANGED disk
    BY <1>8 DEF Restart, Forgets
  <2> QED BY <2>1 DEF OnDisk
<1>9. CASE UNCHANGED vars BY <1>9 DEF vars, work, OnDisk
<1> QED BY <1>2, <1>3, <1>4, <1>5, <1>6, <1>7, <1>8, <1>9 DEF Next

(* What a path holds is replaced by its builder only, with what it holds.  *)
LEMMA StepWritten ==
  ASSUME OneBuilder, SchemaArtifactAssumption, Asked, OnDisk, Next, NEW f \in Files, disk'[f].main # disk[f].main
  PROVE  \E w \in Workers : at[w] = "renaming" /\ task[w].file = f /\ disk'[f].main = holds[w]
<1>1. ASSUME NEW w \in Workers, OpenTmp(w) \/ FillTmp(w) PROVE FALSE
  <2>1. PICK tmp : disk' = [disk EXCEPT ![task[w].file].tmp = tmp] BY <1>1 DEF OpenTmp, FillTmp
  <2> QED BY <2>1 DEF OnDisk
<1>2. ASSUME NEW w \in Workers, Rename(w) PROVE at[w] = "renaming" /\ task[w].file = f /\ disk'[f].main = holds[w]
  <2>1. at[w] = "renaming" /\ disk' = [disk EXCEPT ![task[w].file] = [main |-> @.tmp, tmp |-> None]]
    BY <1>2 DEF Rename
  <2>2. task[w].file = f BY <2>1 DEF OnDisk
  <2>3. disk'[f] = [main |-> disk[f].tmp, tmp |-> None] BY <2>1, <2>2 DEF OnDisk
  <2> QED BY <2>1, <2>2, <2>3 DEF OnDisk
<1>3. UNCHANGED disk => FALSE OBVIOUS
<1> QED BY <1>1, <1>2, <1>3 DEF Next, Begin, Compile, Finish, ReadFile, Load, Restart

(* Where each path has one builder, it goes from one whole artifact to the *)
(* next, the one its builder holds: whatever workers begin, read and load  *)
(* meanwhile and wherever processes die.                                   *)
THEOREM WrittenWhole ==
  ASSUME OneBuilder
  PROVE  Spec => NeverHalfWritten /\ [](\A f \in Files : disk[f].main # None => Whole(disk[f].main))
<1>1. Init => OnDisk BY DEF Init, OnDisk, Writing
<1>2. Asked /\ OnDisk /\ [Next]_vars => OnDisk' BY StepOnDisk, SchemaArtifactAssumption
<1>3. Asked /\ OnDisk /\ [Next]_vars
      => [\A f \in Files : disk'[f].main # disk[f].main =>
            \E w \in Workers : at[w] = "renaming" /\ task[w].file = f /\ disk'[f].main = holds[w]]_vars
  BY StepWritten, SchemaArtifactAssumption
<1>4. OnDisk => \A f \in Files : disk[f].main # None => Whole(disk[f].main) BY DEF OnDisk
<1> QED BY <1>1, <1>2, <1>3, <1>4, InitAsked, StepAsked, PTL DEF Spec, NeverHalfWritten

-----------------------------------------------------------------------------
(* What a schema is built of. *)

(* The types an adapter keeps are of the permission it builds for.         *)
MemoIsOfOne(o) ==
  /\ DOMAIN adapter[o] = {"permission", "made"}
  /\ DOMAIN adapter[o].made = DOMAIN Revisions[revision[o]].def
  /\ \A m \in DOMAIN adapter[o].made : adapter[o].made[m] \in {None, adapter[o].permission}
(* While a schema is built that is the schema's, and so are the types that *)
(* were handed out.                                                        *)
OfOne(types, permission, models) == \A m \in DOMAIN types \cap models : types[m] = permission
BuildsFor(w) ==
  /\ adapter[OrmOf[w]].permission = task[w].permission
  /\ OfOne(under[w], task[w].permission, DOMAIN App(w).def)
BuiltOf(r, w) ==
  /\ r.revision = revision[OrmOf[w]] /\ r.revision \in DOMAIN Revisions
  /\ r.permission = task[w].permission /\ r.permission \in DOMAIN Permissions
  /\ r.extend = task[w].extend /\ r.extend \in BOOLEAN
  /\ OfOne(r.under, r.permission, DOMAIN Revisions[r.revision].def)
Memo ==
  /\ revision \in [Range(OrmOf) -> DOMAIN Revisions] /\ DOMAIN adapter = Range(OrmOf) /\ DOMAIN under = Workers
  /\ \A o \in Range(OrmOf) : MemoIsOfOne(o)
  /\ \A w \in Workers : at[w] = "compiling" => BuildsFor(w)
  /\ Ended({"live"}) => answer.by \in Workers /\ BuiltOf(answer.what, answer.by)

LEMMA InitMemo == SchemaArtifactAssumption /\ Init => Memo
<1> SUFFICES ASSUME SchemaArtifactAssumption, Init PROVE Memo OBVIOUS
<1>1. ASSUME NEW o \in Range(OrmOf) PROVE revision[o] = First /\ MemoIsOfOne(o)
  <2>1. revision[o] = First /\ adapter[o] = Fresh(Revisions[First]) BY DEF Init
  <2> QED BY <2>1 DEF MemoIsOfOne, Fresh
<1>2. answer.k = "none" BY DEF Init, Nothing
<1> QED BY <1>1, <1>2 DEF Memo, Init, SchemaArtifactAssumption, Ended

(* A worker's step on its own orm. *)
LEMMA OwnStep ==
  ASSUME OwnOrms, SchemaArtifactAssumption, Asked, Memo, NEW w \in Workers,
         UNCHANGED revision, DOMAIN under' = Workers,
         DOMAIN adapter' = DOMAIN adapter, \A o \in DOMAIN adapter : o # OrmOf[w] => adapter'[o] = adapter[o],
         MemoIsOfOne(OrmOf[w])',
         \A v \in Workers : v # w => UNCHANGED <<at[v], task[v], under[v]>>,
         at'[w] = "compiling" => BuildsFor(w)',
         Ended({"live"})' => answer'.by = w /\ BuiltOf(answer.what, w)'
  PROVE  Memo'
<1>1. \A v \in Workers : OrmOf[v] \in Range(OrmOf) BY DEF SchemaArtifactAssumption, Range
<1>2. \A o \in Range(OrmOf) : o # OrmOf[w] => adapter'[o] = adapter[o] BY DEF Memo
<1>3. \A o \in Range(OrmOf) : MemoIsOfOne(o)' BY <1>2 DEF Memo, MemoIsOfOne
<1>4. ASSUME NEW v \in Workers, at'[v] = "compiling" PROVE BuildsFor(v)'
  <2>1. CASE v = w BY <1>4, <2>1
  <2>2. CASE v # w
    <3>1. OrmOf[v] # OrmOf[w] BY <2>2 DEF OwnOrms
    <3>2. BuildsFor(v) /\ adapter'[OrmOf[v]] = adapter[OrmOf[v]] BY <1>1, <1>2, <1>4, <2>2, <3>1 DEF Memo
    <3> QED BY <2>2, <3>2 DEF BuildsFor, App
  <2> QED BY <2>1, <2>2
<1>5. DOMAIN adapter' = Range(OrmOf) BY DEF Memo
<1>6. Ended({"live"})' => answer'.by \in Workers /\ BuiltOf(answer.what, answer.by)'
  BY DEF BuiltOf
<1> QED BY <1>3, <1>4, <1>5, <1>6 DEF Memo

LEMMA SetsPermission ==
  ASSUME NEW o, NEW name, MemoIsOfOne(o), UNCHANGED revision, adapter'[o] = SetBuildPermission(adapter[o], name)
  PROVE  MemoIsOfOne(o)' /\ adapter'[o].permission = name
BY DEF MemoIsOfOne, SetBuildPermission

LEMMA NoAnswer == ASSUME Still PROVE ~ Ended({"live"})'
BY DEF Still, Nothing, Ended

(* Another kind of answer is not that a schema is live. *)
LEMMA OtherAnswer ==
  ASSUME NEW w, NEW a, Done(w, a), a.k # "schema" \/ task'[w].kind # "live"
  PROVE  ~ Ended({"live"})'
<1>1. answer' = [a EXCEPT !.by = w] BY DEF Done
<1>2. answer'.k = a.k BY <1>1
<1>3. Ended({"live"})' => answer'.k = "schema" /\ task'[answer'.by].kind = "live" BY DEF Ended
<1> QED BY <1>1, <1>2, <1>3

LEMMA CompilingStep ==
  ASSUME OwnOrms, SchemaArtifactAssumption, Asked, Memo, NEW w \in Workers,
         UNCHANGED revision, \A v \in Workers : v # w => UNCHANGED task[v], Compiling(w), Still
  PROVE  Memo'
<1> DEFINE o == OrmOf[w]
<1>1. /\ adapter' = [adapter EXCEPT ![o] = SetBuildPermission(adapter[o], task'[w].permission)]
      /\ at' = [at EXCEPT ![w] = "compiling"] /\ under' = [under EXCEPT ![w] = <<>>]
  BY DEF Compiling, Primed
<1>2. o \in Range(OrmOf) BY DEF SchemaArtifactAssumption, Range
<1>3. adapter'[o] = SetBuildPermission(adapter[o], task'[w].permission) BY <1>1, <1>2 DEF Memo
<1>4. MemoIsOfOne(o)' /\ adapter'[o].permission = task'[w].permission BY <1>2, <1>3, SetsPermission DEF Memo
<1>5. DOMAIN under'[w] = {} BY <1>1 DEF Memo
<1>6. BuildsFor(w)' BY <1>4, <1>5 DEF BuildsFor, OfOne
<1>7. /\ DOMAIN adapter' = DOMAIN adapter /\ \A x \in DOMAIN adapter : x # o => adapter'[x] = adapter[x]
      /\ DOMAIN under' = Workers
      /\ \A v \in Workers : v # w => at'[v] = at[v] /\ under'[v] = under[v]
  BY <1>1 DEF Memo, Asked
<1> QED BY <1>4, <1>6, <1>7, NoAnswer, OwnStep

(* The adapter is given the permission of an artifact that is loaded. *)
LEMMA PrimedStep ==
  ASSUME OwnOrms, SchemaArtifactAssumption, Asked, Memo, NEW w \in Workers, NEW name,
         UNCHANGED revision, DOMAIN under' = Workers, Primed(w, name),
         \A v \in Workers : v # w => UNCHANGED <<at[v], task[v], under[v]>>,
         at'[w] # "compiling", ~ Ended({"live"})'
  PROVE  Memo'
<1> DEFINE o == OrmOf[w]
<1>1. adapter' = [adapter EXCEPT ![o] = SetBuildPermission(adapter[o], name)] BY DEF Primed
<1>2. o \in Range(OrmOf) BY DEF SchemaArtifactAssumption, Range
<1>3. adapter'[o] = SetBuildPermission(adapter[o], name) BY <1>1, <1>2 DEF Memo
<1>4. MemoIsOfOne(o)' BY <1>2, <1>3, SetsPermission DEF Memo
<1>5. DOMAIN adapter' = DOMAIN adapter /\ \A x \in DOMAIN adapter : x # o => adapter'[x] = adapter[x]
  BY <1>1 DEF Memo
<1> QED BY <1>4, <1>5, OwnStep

(* A step that leaves the adapters alone. *)
LEMMA QuietStep ==
  ASSUME OwnOrms, SchemaArtifactAssumption, Asked, Memo, NEW w \in Workers,
         UNCHANGED <<revision, adapter>>, DOMAIN under' = Workers,
         \A v \in Workers : v # w => UNCHANGED <<at[v], task[v], under[v]>>,
         at'[w] # "compiling", Ended({"live"})' => answer'.by = w /\ BuiltOf(answer.what, w)'
  PROVE  Memo'
<1>1. MemoIsOfOne(OrmOf[w])'
  <2>1. OrmOf[w] \in Range(OrmOf) BY DEF SchemaArtifactAssumption, Range
  <2> QED BY <2>1 DEF Memo, MemoIsOfOne
<1> QED BY <1>1, OwnStep

LEMMA StepMemo ==
  ASSUME OwnOrms, SchemaArtifactAssumption, Asked, Memo, [Next]_vars
  PROVE  Memo'
<1>1. ASSUME NEW w \in Workers, NEW t \in TasksOf[w], Begin(w, t) PROVE Memo'
  <2>1. /\ UNCHANGED revision /\ Still /\ task' = [task EXCEPT ![w] = t]
        /\ \/ Compiling(w)
           \/ at' = [at EXCEPT ![w] = "reading"] /\ UNCHANGED <<adapter, under>>
    BY <1>1 DEF Begin
  <2>2. \A v \in Workers : v # w => task'[v] = task[v] BY <2>1 DEF Asked
  <2>3. CASE Compiling(w) BY <2>1, <2>2, <2>3, CompilingStep
  <2>4. CASE at' = [at EXCEPT ![w] = "reading"] /\ UNCHANGED <<adapter, under>>
    <3>1. at'[w] = "reading" /\ \A v \in Workers : v # w => at'[v] = at[v] BY <2>4 DEF Asked
    <3>2. DOMAIN under' = Workers BY <2>4 DEF Memo
    <3> QED BY <2>1, <2>2, <2>4, <3>1, <3>2, NoAnswer, QuietStep
  <2> QED BY <2>1, <2>3, <2>4
<1>2. ASSUME NEW w \in Workers, NEW m \in todo[w], Compile(w, m) PROVE Memo'
  <2> DEFINE o == OrmOf[w]
             is == IF adapter[o].made[m] = None THEN adapter[o].permission ELSE adapter[o].made[m]
  <2>1. /\ at[w] = "compiling" /\ adapter' = [adapter EXCEPT ![o].made[m] = is]
        /\ under' = [under EXCEPT ![w] = [n \in DOMAIN under[w] \cup {m} |-> IF n = m THEN is ELSE under[w][n]]]
        /\ UNCHANGED <<revision, task, at>> /\ Still
    BY <1>2 DEF Compile
  <2>2. o \in Range(OrmOf) /\ MemoIsOfOne(o) /\ BuildsFor(w) BY <2>1 DEF Memo, SchemaArtifactAssumption, Range
  <2>3. m \in DOMAIN App(w).def => is = task[w].permission BY <2>2 DEF MemoIsOfOne, BuildsFor, App
  <2>4. adapter'[o] = [adapter[o] EXCEPT !.made[m] = is] BY <2>1, <2>2 DEF Memo
  <2>5. under'[w] = [n \in DOMAIN under[w] \cup {m} |-> IF n = m THEN is ELSE under[w][n]] BY <2>1 DEF Memo
  <2> HIDE DEF is
  <2>6. /\ DOMAIN adapter'[o] = {"permission", "made"} /\ adapter'[o].permission = adapter[o].permission
        /\ DOMAIN adapter'[o].made = DOMAIN adapter[o].made
        /\ \A x \in DOMAIN adapter[o].made : adapter'[o].made[x] = IF x = m THEN is ELSE adapter[o].made[x]
    BY <2>2, <2>4 DEF MemoIsOfOne
  <2>7. MemoIsOfOne(o)' BY <2>1, <2>2, <2>3, <2>6 DEF MemoIsOfOne, BuildsFor, App
  <2>8. \A x \in DOMAIN under'[w] : x \in DOMAIN under[w] \cup {m} /\ under'[w][x] \in {is, under[w][x]}
                                    /\ (x # m => under'[w][x] = under[w][x] /\ x \in DOMAIN under[w])
                                    /\ (x = m => under'[w][x] = is)
    BY <2>5
  <2>9. BuildsFor(w)' BY <2>1, <2>2, <2>3, <2>6, <2>8 DEF BuildsFor, OfOne, App
  <2>10. /\ DOMAIN adapter' = DOMAIN adapter /\ \A x \in DOMAIN adapter : x # o => adapter'[x] = adapter[x]
         /\ DOMAIN under' = Workers /\ \A v \in Workers : v # w => under'[v] = under[v]
    BY <2>1 DEF Memo
  <2> QED BY <2>1, <2>7, <2>9, <2>10, NoAnswer, OwnStep
<1>3. ASSUME NEW w \in Workers, Finish(w) PROVE Memo'
  <2>1. /\ at[w] = "compiling" /\ UNCHANGED <<revision, task>> /\ under' = [under EXCEPT ![w] = <<>>]
        /\ BuildsFor(w)
    BY <1>3 DEF Finish, Memo
  <2>2. DOMAIN under' = Workers /\ \A v \in Workers : v # w => under'[v] = under[v] BY <2>1 DEF Memo
  <2>3. at'[w] \in {"idle", "writing"} /\ \A v \in Workers : v # w => at'[v] = at[v]
    <3>1. at' = [at EXCEPT ![w] = "idle"] \/ at' = [at EXCEPT ![w] = "writing"] BY <1>3 DEF Finish, Done
    <3> QED BY <3>1 DEF Asked
  <2> DEFINE made == CreateSchema(SchemaOf(Recipe(w)))
             loaded == MaterializeSchema(w, holds[w])
  <2>4. \/ Done(w, Outcome(made, Recipe(w))) /\ UNCHANGED adapter
        \/ task[w].kind = "build" /\ UNCHANGED adapter /\ (Still \/ Done(w, Threw("scalar")))
        \/ /\ task[w].kind # "live" /\ Primed(w, task[w].permission)
           /\ \E a : Done(w, a)
    BY <1>3 DEF Finish
  <2> HIDE DEF made, loaded
  <2>5. CASE Done(w, Outcome(made, Recipe(w))) /\ UNCHANGED adapter
    <3>1. CASE made.k = "threw"
      <4>1. Outcome(made, Recipe(w)) = made BY <3>1 DEF Outcome
      <4>2. ~ Ended({"live"})' BY <2>5, <3>1, <4>1, OtherAnswer
      <4> QED BY <2>1, <2>2, <2>3, <2>5, <4>2, QuietStep
    <3>2. CASE made.k # "threw"
      <4>1. answer' = [Answered(Recipe(w)) EXCEPT !.by = w] BY <2>5, <3>2 DEF Done, Outcome
      <4>2. answer'.by = w /\ answer'.what = Recipe(w) BY <4>1 DEF Answered
      <4>3. BuiltOf(Recipe(w), w)
        <5>1. /\ Recipe(w).revision = revision[OrmOf[w]] /\ Recipe(w).permission = task[w].permission
              /\ Recipe(w).under = under[w] /\ Recipe(w).extend = task[w].extend
          BY DEF Recipe
        <5>2. revision[OrmOf[w]] \in DOMAIN Revisions BY DEF Memo, SchemaArtifactAssumption, Range
        <5>3. task[w].permission \in DOMAIN Permissions /\ task[w].extend \in BOOLEAN
          BY <2>1 DEF Asked, AskedFor, SchemaArtifactAssumption
        <5> QED BY <2>1, <5>1, <5>2, <5>3 DEF BuiltOf, BuildsFor, App
      <4>4. BuiltOf(answer.what, w)' BY <2>1, <4>2, <4>3 DEF BuiltOf
      <4> QED BY <2>1, <2>2, <2>3, <2>5, <4>2, <4>4, QuietStep
    <3> QED BY <3>1, <3>2
  <2>6. CASE task[w].kind = "build" /\ UNCHANGED adapter /\ (Still \/ Done(w, Threw("scalar")))
    <3>1. ~ Ended({"live"})' BY <2>1, <2>6, NoAnswer, OtherAnswer
    <3> QED BY <2>1, <2>2, <2>3, <2>6, <3>1, QuietStep
  <2>7. CASE /\ task[w].kind # "live" /\ Primed(w, task[w].permission)
             /\ \E a : Done(w, a)
    <3>1. ~ Ended({"live"})' BY <2>1, <2>7, OtherAnswer
    <3> QED BY <2>1, <2>2, <2>3, <2>7, <3>1, PrimedStep
  <2> QED BY <2>4, <2>5, <2>6, <2>7
<1>4. ASSUME NEW w \in Workers, OpenTmp(w) \/ FillTmp(w) \/ Rename(w) PROVE Memo'
  <2>1. UNCHANGED <<revision, adapter, task, under>> /\ (Still \/ Done(w, [k |-> "wrote", by |-> None]))
    BY <1>4 DEF OpenTmp, FillTmp, Rename
  <2>2. ~ Ended({"live"})' BY <2>1, NoAnswer, OtherAnswer
  <2>3. \E to \in {"filling", "renaming", "idle"} : at' = [at EXCEPT ![w] = to]
    BY <1>4 DEF OpenTmp, FillTmp, Rename, Done
  <2>4. at'[w] # "compiling" /\ \A v \in Workers : v # w => at'[v] = at[v] BY <2>3 DEF Asked
  <2>5. DOMAIN under' = Workers BY <2>1 DEF Memo
  <2> QED BY <2>1, <2>2, <2>4, <2>5, QuietStep
<1>5. ASSUME NEW w \in Workers, ReadFile(w) PROVE Memo'
  <2>0. Answers(w) BY <1>5, AskedAnswers DEF ReadFile
  <2>1. /\ UNCHANGED revision /\ \A v \in Workers : v # w => task'[v] = task[v]
        /\ \/ Compiling(w) /\ Still
           \/ /\ UNCHANGED <<adapter, under>> /\ \E to \in {"idle", "loading"} : at' = [at EXCEPT ![w] = to]
              /\ Still \/ \E why : Done(w, Threw(why))
    BY <1>5, <2>0 DEF Answers, ReadFile, Refuses, Rebuilds, GoesOn, CheckFormat, CheckFingerprint, Done, Asked
  <2>2. CASE Compiling(w) /\ Still BY <2>1, <2>2, CompilingStep
  <2>3. CASE /\ UNCHANGED <<adapter, under>> /\ \E to \in {"idle", "loading"} : at' = [at EXCEPT ![w] = to]
             /\ Still \/ \E why : Done(w, Threw(why))
    <3>1. at'[w] # "compiling" /\ \A v \in Workers : v # w => at'[v] = at[v] BY <2>3 DEF Asked
    <3>2. DOMAIN under' = Workers BY <2>3 DEF Memo
    <3>3. \A why : Threw(why).k # "schema" BY DEF Threw
    <3>4. ~ Ended({"live"})' BY <2>3, <3>3, NoAnswer, OtherAnswer
    <3> QED BY <2>1, <2>3, <3>1, <3>2, <3>4, QuietStep
  <2> QED BY <2>1, <2>2, <2>3
<1>6. ASSUME NEW w \in Workers, Load(w) PROVE Memo'
  <2>1. /\ at[w] = "loading" /\ Primed(w, task[w].permission) /\ UNCHANGED <<revision, task, under>>
        /\ \E a : Done(w, a)
    BY <1>6 DEF Load
  <2>2. task[w].kind # "live" BY <2>1 DEF Asked
  <2>3. ~ Ended({"live"})' BY <2>1, <2>2, OtherAnswer
  <2>4. at'[w] # "compiling" /\ \A v \in Workers : v # w => at'[v] = at[v] BY <2>1 DEF Done, Asked
  <2>5. DOMAIN under' = Workers BY <2>1 DEF Memo
  <2> QED BY <2>1, <2>3, <2>4, <2>5, PrimedStep
<1>7. ASSUME NEW o \in Range(OrmOf), NEW r \in DOMAIN Revisions, Restart(o, r) PROVE Memo'
  <2>1. /\ revision' = [revision EXCEPT ![o] = r] /\ adapter' = [adapter EXCEPT ![o] = Fresh(Revisions[r])]
        /\ at' = [w \in Workers |-> IF OrmOf[w] = o THEN "idle" ELSE at[w]]
        /\ task' = [w \in Workers |-> IF OrmOf[w] = o THEN NoTask ELSE task[w]]
        /\ under' = [w \in Workers |-> IF OrmOf[w] = o THEN <<>> ELSE under[w]]
        /\ Still
    BY <1>7 DEF Restart, Forgets
  <2>2. adapter'[o] = Fresh(Revisions[r]) /\ revision'[o] = r BY <2>1 DEF Memo
  <2>3. MemoIsOfOne(o)' BY <2>2 DEF MemoIsOfOne, Fresh
  <2>4. \A x \in Range(OrmOf) : x # o => adapter'[x] = adapter[x] /\ revision'[x] = revision[x] BY <2>1 DEF Memo
  <2>5. \A x \in Range(OrmOf) : MemoIsOfOne(x)' BY <2>3, <2>4 DEF Memo, MemoIsOfOne
  <2>6. ASSUME NEW w \in Workers, at'[w] = "compiling" PROVE BuildsFor(w)'
    <3>1. OrmOf[w] # o /\ OrmOf[w] \in Range(OrmOf) BY <2>1, <2>6 DEF SchemaArtifactAssumption, Range
    <3>2. at[w] = "compiling" /\ UNCHANGED <<task[w], under[w], revision[OrmOf[w]], adapter[OrmOf[w]]>>
      BY <2>1, <2>4, <2>6, <3>1
    <3> QED BY <3>2 DEF Memo, BuildsFor, App
  <2>7. revision' \in [Range(OrmOf) -> DOMAIN Revisions] /\ DOMAIN adapter' = Range(OrmOf) /\ DOMAIN under' = Workers
    BY <2>1 DEF Memo
  <2> QED BY <2>1, <2>5, <2>6, <2>7, NoAnswer DEF Memo
<1>8. CASE UNCHANGED vars
  BY <1>8 DEF vars, work, Memo, MemoIsOfOne, BuildsFor, BuiltOf, Ended, App
<1> QED BY <1>1, <1>2, <1>3, <1>4, <1>5, <1>6, <1>7, <1>8 DEF Next

(* Where each worker has an orm of its own, a schema that stands is the    *)
(* one an orm that has built nothing would build of the same definitions   *)
(* under the same permission, whatever was built on it and loaded before.  *)
BuiltAsFresh ==
  Ended({"live"}) => LET w == answer.by IN SchemaOf(answer.what) = Own(w, task[w].permission)

LEMMA SameRecipe ==
  ASSUME NEW w, NEW r, BuiltOf(r, w)
  PROVE  SchemaOf(r) = Own(w, task[w].permission)
<1> DEFINE fresh == FreshRecipe(revision[OrmOf[w]], task[w].permission, task[w].extend)
<1>1. Own(w, task[w].permission) = SchemaOf(fresh)
  <2>1. ASSUME NEW d \in DOMAIN Revisions, NEW p \in DOMAIN Permissions, NEW e \in BOOLEAN
        PROVE  FreshSchema[<<d, p, e>>] = SchemaOf(FreshRecipe(d, p, e))
    BY DEF FreshSchema
  <2>2. /\ revision[OrmOf[w]] \in DOMAIN Revisions /\ task[w].permission \in DOMAIN Permissions
        /\ task[w].extend \in BOOLEAN
    BY DEF BuiltOf
  <2> QED BY <2>1, <2>2 DEF Own
<1>2. /\ fresh.revision = r.revision /\ fresh.permission = r.permission /\ fresh.extend = r.extend
      /\ fresh.under = [m \in DOMAIN Revisions[r.revision].def |-> r.permission]
  BY DEF BuiltOf, FreshRecipe
<1> HIDE DEF fresh
<1> DEFINE app == Revisions[r.revision]
           Of(types) == [m \in DOMAIN app.def |->
                           Folded(app, Permissions[IF m \in DOMAIN types THEN types[m] ELSE r.permission])]
<1>3. Of(r.under) = Of(fresh.under)
  <2>1. ASSUME NEW m \in DOMAIN app.def
        PROVE  /\ (IF m \in DOMAIN r.under THEN r.under[m] ELSE r.permission) = r.permission
               /\ (IF m \in DOMAIN fresh.under THEN fresh.under[m] ELSE r.permission) = r.permission
    BY <1>2 DEF BuiltOf, OfOne
  <2> QED BY <2>1
<1>4. Extend(app, r) = Extend(app, fresh) BY <1>2 DEF Extend
<1>5. SchemaOf(r) = Schema(Building(app, Permissions[r.permission], Of(r.under)), Extend(app, r)) BY DEF SchemaOf
<1>6. SchemaOf(fresh) = Schema(Building(app, Permissions[r.permission], Of(fresh.under)), Extend(app, fresh))
  BY <1>2 DEF SchemaOf
<1> HIDE DEF Of, app
<1> QED BY <1>1, <1>3, <1>4, <1>5, <1>6

THEOREM BuildsAsFresh ==
  ASSUME OwnOrms
  PROVE  Spec => []BuiltAsFresh
<1>1. Init => Memo BY InitMemo, SchemaArtifactAssumption
<1>2. Asked /\ Memo /\ [Next]_vars => Memo' BY StepMemo, SchemaArtifactAssumption
<1>3. Memo => BuiltAsFresh BY SameRecipe DEF Memo, BuiltAsFresh
<1> QED BY <1>1, <1>2, <1>3, InitAsked, StepAsked, PTL DEF Spec

-------------------------------------------------------------------------------
(* The rules of a role, and the bag they are compiled into. *)

(* The first opinion of one, two or three decisions. *)
LEMMA FirstOfOne ==
  ASSUME NEW f, DOMAIN f = {1}
  PROVE  FirstOpinion(f) = IF f[1] \in Opinions THEN f[1] ELSE "none"
<1>1. CASE f[1] \in Opinions
  <2> DEFINE P(i) == f[i] \in Opinions /\ \A j \in 1 .. i - 1 : f[j] \notin Opinions
  <2>1. 1 \in DOMAIN f /\ P(1) BY <1>1
  <2>2. FirstOpinion(f) = f[CHOOSE i \in DOMAIN f : P(i)] BY <1>1, Zenon DEF FirstOpinion
  <2> HIDE DEF P
  <2>3. (CHOOSE i \in DOMAIN f : P(i)) \in DOMAIN f BY <2>1, Zenon
  <2> QED BY <1>1, <2>2, <2>3
<1>2. CASE f[1] \notin Opinions BY <1>2 DEF FirstOpinion
<1> QED BY <1>1, <1>2

LEMMA FirstOfTwo ==
  ASSUME NEW f, DOMAIN f = {1, 2}
  PROVE  FirstOpinion(f) = IF f[1] \in Opinions THEN f[1] ELSE IF f[2] \in Opinions THEN f[2] ELSE "none"
<1> DEFINE P(i) == f[i] \in Opinions /\ \A j \in 1 .. i - 1 : f[j] \notin Opinions
<1>1. CASE f[1] \in Opinions
  <2>1. 1 \in DOMAIN f /\ P(1) BY <1>1
  <2>2. ~ P(2) BY <1>1
  <2>3. FirstOpinion(f) = f[CHOOSE i \in DOMAIN f : P(i)] BY <1>1, Zenon DEF FirstOpinion
  <2> HIDE DEF P
  <2>4. LET i == CHOOSE i \in DOMAIN f : P(i) IN i \in DOMAIN f /\ P(i) BY <2>1, Zenon
  <2>5. (CHOOSE i \in DOMAIN f : P(i)) = 1 BY <2>2, <2>4
  <2> QED BY <1>1, <2>3, <2>5
<1>2. CASE f[1] \notin Opinions /\ f[2] \in Opinions
  <2>1. 2 \in DOMAIN f /\ P(2) BY <1>2
  <2>2. ~ P(1) BY <1>2
  <2>3. FirstOpinion(f) = f[CHOOSE i \in DOMAIN f : P(i)] BY <1>2, Zenon DEF FirstOpinion
  <2> HIDE DEF P
  <2>4. LET i == CHOOSE i \in DOMAIN f : P(i) IN i \in DOMAIN f /\ P(i) BY <2>1, Zenon
  <2>5. (CHOOSE i \in DOMAIN f : P(i)) = 2 BY <2>2, <2>4
  <2> QED BY <1>2, <2>3, <2>5
<1>3. CASE f[1] \notin Opinions /\ f[2] \notin Opinions BY <1>3 DEF FirstOpinion
<1> QED BY <1>1, <1>2, <1>3

LEMMA FirstOfThree ==
  ASSUME NEW f, DOMAIN f = {1, 2, 3}
  PROVE  FirstOpinion(f) = IF f[1] \in Opinions THEN f[1] ELSE IF f[2] \in Opinions THEN f[2]
                           ELSE IF f[3] \in Opinions THEN f[3] ELSE "none"
<1> DEFINE P(i) == f[i] \in Opinions /\ \A j \in 1 .. i - 1 : f[j] \notin Opinions
<1>0. ASSUME NEW k \in DOMAIN f, P(k), \A i \in DOMAIN f : i # k => ~ P(i)
      PROVE  FirstOpinion(f) = f[k]
  <2>1. FirstOpinion(f) = f[CHOOSE i \in DOMAIN f : P(i)] BY <1>0, Zenon DEF FirstOpinion
  <2> HIDE DEF P
  <2>2. LET i == CHOOSE i \in DOMAIN f : P(i) IN i \in DOMAIN f /\ P(i) BY <1>0, Zenon
  <2>3. (CHOOSE i \in DOMAIN f : P(i)) = k BY <1>0, <2>2
  <2> QED BY <2>1, <2>3
<1>1. CASE f[1] \in Opinions
  <2>1. 1 \in DOMAIN f /\ P(1) BY <1>1
  <2>2. ~ P(2) /\ ~ P(3) BY <1>1
  <2> QED BY <1>0, <1>1, <2>1, <2>2
<1>2. CASE f[1] \notin Opinions /\ f[2] \in Opinions
  <2>1. 2 \in DOMAIN f /\ P(2) BY <1>2
  <2>2. ~ P(1) /\ ~ P(3) BY <1>2
  <2> QED BY <1>0, <1>2, <2>1, <2>2
<1>3. CASE f[1] \notin Opinions /\ f[2] \notin Opinions /\ f[3] \in Opinions
  <2>1. 3 \in DOMAIN f /\ P(3)
    <3>1. \A j \in 1 .. 3 - 1 : j = 1 \/ j = 2 OBVIOUS
    <3> QED BY <1>3, <3>1
  <2>2. ~ P(1) /\ ~ P(2) BY <1>3
  <2> QED BY <1>0, <1>3, <2>1, <2>2
<1>4. CASE f[1] \notin Opinions /\ f[2] \notin Opinions /\ f[3] \notin Opinions BY <1>4 DEF FirstOpinion
<1> QED BY <1>1, <1>2, <1>3, <1>4

(* What a node says, by its levels. *)
LEMMA Says ==
  ASSUME NEW k \in BuildTimeKeys, NEW a \in Arguments(k), NEW node
  PROVE  LET m == IF k \in OneArgKeys THEN a ELSE a[1]
             below == IF k \in OneArgKeys THEN "none" ELSE node.on[m].on[a[2]]
         IN  Decide(k, node, a) = IF node.all \in Opinions THEN node.all
                                  ELSE IF node.on[m].all \in Opinions THEN node.on[m].all
                                  ELSE IF below \in Opinions THEN below ELSE "none"
<1>1. CASE k \in OneArgKeys
  <2> DEFINE f == <<node.all, node.on[a].all>>
  <2>1. Decide(k, node, a) = FirstOpinion(f) BY <1>1 DEF Decide, DecideOne
  <2>2. DOMAIN f = {1, 2} /\ f[1] = node.all /\ f[2] = node.on[a].all OBVIOUS
  <2>3. "none" \notin Opinions BY DEF Opinions
  <2> HIDE DEF f
  <2> QED BY <1>1, <2>1, <2>2, <2>3, FirstOfTwo
<1>2. CASE k \notin OneArgKeys
  <2> DEFINE f == <<node.all, node.on[a[1]].all, node.on[a[1]].on[a[2]]>>
  <2>1. Decide(k, node, a) = FirstOpinion(f) BY <1>2 DEF Decide, DecideTwo
  <2>2. DOMAIN f = {1, 2, 3} /\ f[1] = node.all /\ f[2] = node.on[a[1]].all /\ f[3] = node.on[a[1]].on[a[2]] OBVIOUS
  <2> HIDE DEF f
  <2> QED BY <1>2, <2>1, <2>2, FirstOfThree
<1> QED BY <1>1, <1>2

(* A merged node says what the node on top says, and nothing neither said. *)
LEMMA MergedSays ==
  ASSUME NEW k \in BuildTimeKeys, NEW a \in Arguments(k), NEW d \in Nodes, NEW r \in Nodes,
         NEW n, n = MergedNode(d, r)
  PROVE  /\ Decide(k, n, a) \in Opinions => Decide(k, n, a) \in {Decide(k, r, a), Decide(k, d, a)}
         /\ Decide(k, r, a) \in Opinions => n.all # "absent" /\ Decide(k, n, a) = Decide(k, r, a)
<1> DEFINE m == IF k \in OneArgKeys THEN a ELSE a[1]
           below(x) == IF k \in OneArgKeys THEN "none" ELSE x.on[a[2]]
           says(x) == IF x.all \in Opinions THEN x.all
                      ELSE IF x.on[m].all \in Opinions THEN x.on[m].all
                      ELSE IF below(x.on[m]) \in Opinions THEN below(x.on[m]) ELSE "none"
<1>0. m \in Model /\ (k \notin OneArgKeys => a[2] \in Name) BY DEF Arguments
<1>1. \A x : Decide(k, x, a) = says(x) BY Says
<1>2. "none" \notin Opinions /\ "absent" \notin Opinions /\ Unsaid.all = "none" /\ below(Unsaid) = "none"
  BY <1>0 DEF Opinions, Unsaid
<1>3. \A x \in Nodes : ~ IsMap(x) => x.on[m] = Unsaid BY <1>0 DEF Nodes, AbsentNode
<1>4. CASE r.all = "absent"
  <2>1. n = d BY <1>4 DEF MergedNode
  <2>2. r.on[m] = Unsaid BY <1>3, <1>4 DEF IsMap
  <2> HIDE DEF m, below
  <2>3. says(r) = "none" BY <1>2, <1>4, <2>2
  <2> QED BY <1>1, <1>2, <2>1, <2>3
<1>5. CASE r.all # "absent" /\ (~ IsMap(r) \/ ~ IsMap(d))
  <2>1. n = r BY <1>5 DEF MergedNode
  <2> QED BY <1>5, <2>1
<1>6. CASE IsMap(r) /\ IsMap(d)
  <2> DEFINE both(x) == [all |-> "none", on |-> [y \in Name |-> FirstOpinion(<<r.on[x].on[y], d.on[x].on[y]>>)]]
             on == [x \in Model |->
                      IF r.on[x].all # "none" \/ d.on[x].all # "none"
                      THEN IF r.on[x] = Unsaid THEN d.on[x] ELSE r.on[x]
                      ELSE both(x)]
  <2>1. r.all = "none" /\ d.all = "none" BY <1>6 DEF IsMap
  <2>2. n = [r EXCEPT !.on = on] BY <1>6, <2>1 DEF MergedNode
  <2>3. n.all = "none" /\ n.on = on
    <3> HIDE DEF on
    <3> QED BY <2>1, <2>2 DEF Nodes
  <2>4. n.on[m] = IF r.on[m].all # "none" \/ d.on[m].all # "none"
                  THEN IF r.on[m] = Unsaid THEN d.on[m] ELSE r.on[m]
                  ELSE both(m)
    <3> HIDE DEF both, m
    <3> QED BY <1>0, <2>3
  <2>5. /\ both(m).all = "none"
        /\ k \notin OneArgKeys =>
             both(m).on[a[2]] = IF r.on[m].on[a[2]] \in Opinions THEN r.on[m].on[a[2]]
                                ELSE IF d.on[m].on[a[2]] \in Opinions THEN d.on[m].on[a[2]] ELSE "none"
    <3> DEFINE f(y) == <<r.on[m].on[y], d.on[m].on[y]>>
    <3>1. \A y : FirstOpinion(f(y)) = IF r.on[m].on[y] \in Opinions THEN r.on[m].on[y]
                                      ELSE IF d.on[m].on[y] \in Opinions THEN d.on[m].on[y] ELSE "none"
      <4>1. \A y : DOMAIN f(y) = {1, 2} /\ f(y)[1] = r.on[m].on[y] /\ f(y)[2] = d.on[m].on[y] OBVIOUS
      <4> HIDE DEF f
      <4> QED BY <4>1, FirstOfTwo
    <3>2. both(m).on = [y \in Name |-> FirstOpinion(f(y))] /\ both(m).all = "none" OBVIOUS
    <3> HIDE DEF f, both, m
    <3> QED BY <1>0, <3>1, <3>2
  <2> HIDE DEF both, on, m
  <2>6. CASE k \in OneArgKeys BY <1>1, <1>2, <2>1, <2>3, <2>4, <2>5, <2>6
  <2>7. CASE k \notin OneArgKeys BY <1>1, <1>2, <2>1, <2>3, <2>4, <2>5, <2>7
  <2> QED BY <2>6, <2>7
<1> QED BY <1>4, <1>5, <1>6 DEF IsMap

(* The role's own tree, and the tree its gates are compiled from. *)
OwnTree(role) == IF role = Bare THEN EmptyTree ELSE role

LEMMA CompiledSays ==
  ASSUME NEW role \in Trees \cup {Bare}, NEW defaults \in Trees, NEW key \in RuleKeys,
         NEW k \in BuildTimeKeys, NEW a \in Arguments(k)
  PROVE  LET node == CompiledRules(role, defaults)[key]  own == OwnTree(role)[key]
         IN  /\ Decide(k, node, a) \in Opinions =>
                  Decide(k, node, a) \in {Decide(k, own, a), Decide(k, defaults[key], a)}
             /\ Decide(k, own, a) \in Opinions => node.all # "absent" /\ Decide(k, node, a) = Decide(k, own, a)
<1>1. CASE role = Bare
  <2>1. CompiledRules(role, defaults)[key] = AbsentNode /\ OwnTree(role)[key] = AbsentNode
    BY <1>1 DEF CompiledRules, OwnTree, EmptyTree
  <2>2. Decide(k, AbsentNode, a) \notin Opinions
    <3> DEFINE m == IF k \in OneArgKeys THEN a ELSE a[1]
    <3>1. m \in Model /\ (k \notin OneArgKeys => a[2] \in Name) BY DEF Arguments
    <3>2. AbsentNode.all = "absent" /\ AbsentNode.on[m] = Unsaid BY <3>1 DEF AbsentNode
    <3>3. Unsaid.all = "none" /\ (k \notin OneArgKeys => Unsaid.on[a[2]] = "none") BY <3>1 DEF Unsaid
    <3> QED BY <3>2, <3>3, Says DEF Opinions
  <2> QED BY <2>1, <2>2
<1>2. CASE role # Bare
  <2>1. CompiledRules(role, defaults)[key] = MergedNode(defaults[key], role[key]) /\ OwnTree(role)[key] = role[key]
    BY <1>2 DEF CompiledRules, OwnTree
  <2>2. defaults[key] \in Nodes /\ role[key] \in Nodes BY <1>2 DEF Trees
  <2> DEFINE n == MergedNode(defaults[key], role[key])
  <2>3. n = MergedNode(defaults[key], role[key]) OBVIOUS
  <2> HIDE DEF n
  <2>4. /\ Decide(k, n, a) \in Opinions => Decide(k, n, a) \in {Decide(k, role[key], a), Decide(k, defaults[key], a)}
        /\ Decide(k, role[key], a) \in Opinions => n.all # "absent" /\ Decide(k, n, a) = Decide(k, role[key], a)
    BY <2>2, <2>3, MergedSays
  <2>5. CompiledRules(role, defaults)[key] = n BY <2>1, <2>3
  <2> QED BY <2>1, <2>4, <2>5
<1> QED BY <1>1, <1>2

(* A chain is the gate's own key, and at most one to fall back on. *)
Fallback(k) == IF k \in {"queryExtension", "mutationExtension"} THEN {"extensions"}
               ELSE IF k \in {"mutationCreateInput", "mutationUpdateInput"} THEN {"field"} ELSE {}
ChainOf(k) == IF k \in OneArgKeys THEN OneArgGates[k] ELSE TwoArgGates[k]

LEMMA Chains ==
  ASSUME NEW k \in BuildTimeKeys
  PROVE  /\ FedBy(k) = {k} \cup Fallback(k) /\ FedBy(k) \in SUBSET RuleKeys
         /\ \/ ChainOf(k) = <<k>> /\ Fallback(k) = {}
            \/ \E x \in RuleKeys : ChainOf(k) = <<k, x>> /\ Fallback(k) = {x}
<1>1. k \in OneArgKeys \/ k \in TwoArgKeys BY DEF BuildTimeKeys
<1>2. {"extensions", "field", k} \in SUBSET RuleKeys BY DEF RuleKeys, BuildTimeKeys, TwoArgKeys
<1>3. CASE k \in {"queryExtension", "mutationExtension"}
  <2>1. k \in OneArgKeys BY <1>3 DEF OneArgKeys
  <2>2. ChainOf(k) = <<k, "extensions">> BY <1>3, <2>1 DEF ChainOf, OneArgGates
  <2> QED BY <1>2, <1>3, <2>2 DEF Fallback, FedBy
<1>4. CASE k \in {"mutationCreateInput", "mutationUpdateInput"}
  <2>1. k \notin OneArgKeys /\ k \in TwoArgKeys BY <1>4 DEF OneArgKeys, TwoArgKeys
  <2>2. ChainOf(k) = <<k, "field">> BY <1>4, <2>1 DEF ChainOf, TwoArgGates
  <2>3. Fallback(k) = {"field"} /\ FedBy(k) = {k, "field"} BY <1>4 DEF Fallback, FedBy
  <2> QED BY <1>2, <2>2, <2>3
<1>5. CASE k \notin {"queryExtension", "mutationExtension"} \cup {"mutationCreateInput", "mutationUpdateInput"}
  <2>1. Fallback(k) = {} /\ FedBy(k) = {k} BY <1>5 DEF Fallback, FedBy
  <2>2. ChainOf(k) = <<k>> BY <1>1, <1>5 DEF ChainOf, OneArgGates, TwoArgGates
  <2> QED BY <1>2, <2>1, <2>2
<1> QED BY <1>3, <1>4, <1>5

LEMMA GateOf ==
  ASSUME NEW role, NEW defaults, NEW deny, NEW k \in BuildTimeKeys
  PROVE  CreateRoleBasedPermissions(role, defaults, deny)[k] =
           BuildGate(CompiledRules(role, defaults), k, ChainOf(k), deny)
<1>1. DOMAIN OneArgGates = OneArgKeys /\ DOMAIN TwoArgGates = TwoArgKeys BY DEF OneArgGates, TwoArgGates
<1>2. k \in OneArgKeys \/ k \in TwoArgKeys BY DEF BuildTimeKeys
<1>3. k \in OneArgKeys => k \notin TwoArgKeys BY DEF OneArgKeys, TwoArgKeys
<1> DEFINE rules == CompiledRules(role, defaults)
<1>4. CreateRoleBasedPermissions(role, defaults, deny)[k] =
        CASE k \in DOMAIN OneArgGates -> BuildGate(rules, k, OneArgGates[k], deny)
          [] k \in DOMAIN TwoArgGates -> BuildGate(rules, k, TwoArgGates[k], deny)
          [] OTHER -> Absent
  BY DEF CreateRoleBasedPermissions
<1> HIDE DEF rules
<1>5. CASE k \in OneArgKeys BY <1>1, <1>3, <1>4, <1>5 DEF ChainOf, rules
<1>6. CASE k \notin OneArgKeys BY <1>1, <1>2, <1>4, <1>6 DEF ChainOf, rules
<1> QED BY <1>5, <1>6

(* What a gate lets through: the first of its keys that says anything, or *)
(* the default.                                                           *)
LEMMA GateSays ==
  ASSUME NEW rules, NEW deny \in BOOLEAN, NEW k \in BuildTimeKeys, NEW a \in Arguments(k)
  PROVE  LET said(key) == IF rules[key].all = "absent" THEN "none" ELSE Decide(k, rules[key], a)
             allows == IsAllowed(BuildGate(rules, k, ChainOf(k), deny), a)
         IN  /\ said(k) \in Opinions => (allows <=> said(k) = "allow")
             /\ allows /\ deny => \E key \in FedBy(k) : said(key) = "allow"
             /\ ~ allows /\ ~ deny => \E key \in FedBy(k) : said(key) = "deny"
<1> DEFINE said(key) == IF rules[key].all = "absent" THEN "none" ELSE Decide(k, rules[key], a)
           gate == BuildGate(rules, k, ChainOf(k), deny)
           allows == IsAllowed(gate, a)
           c == ChainOf(k)
           among == {i \in DOMAIN c : rules[c[i]].all # "absent"}
           f(x) == [i \in DOMAIN c |-> IF i \in among THEN Decide(k, rules[c[i]], x) ELSE "none"]
<1>1. gate = IF among = {} THEN (IF deny THEN Predicate({}) ELSE Absent)
             ELSE Predicate({x \in Arguments(k) :
                               IF FirstOpinion(f(x)) = "none" THEN ~ deny ELSE FirstOpinion(f(x)) = "allow"})
  BY DEF BuildGate
<1>2. \A i \in DOMAIN c : f(a)[i] = said(c[i]) OBVIOUS
<1>3. DOMAIN f(a) = DOMAIN c OBVIOUS
<1>4. "none" \notin Opinions /\ Opinions = {"allow", "deny"} BY DEF Opinions
<1> DEFINE first == FirstOpinion(f(a))
<1>5. allows <=> IF among = {} THEN ~ deny ELSE IF first = "none" THEN ~ deny ELSE first = "allow"
  <2> DEFINE pass(x) == IF FirstOpinion(f(x)) = "none" THEN ~ deny ELSE FirstOpinion(f(x)) = "allow"
  <2>1. gate = IF among = {} THEN (IF deny THEN Predicate({}) ELSE Absent)
               ELSE Predicate({x \in Arguments(k) : pass(x)})
    BY <1>1, Zenon
  <2>2. pass(a) <=> IF first = "none" THEN ~ deny ELSE first = "allow" OBVIOUS
  <2> HIDE DEF gate, among, f, first, pass
  <2> QED BY <2>1, <2>2 DEF IsAllowed, Predicate, Absent
<1>6. among = {} => \A i \in DOMAIN c : said(c[i]) = "none" OBVIOUS
<1> HIDE DEF among, gate, said, f
<1>7. CASE c = <<k>> /\ Fallback(k) = {}
  <2>1. DOMAIN c = {1} /\ c[1] = k BY <1>7
  <2>2. first = IF said(k) \in Opinions THEN said(k) ELSE "none" BY <1>2, <1>3, <2>1, FirstOfOne
  <2>3. FedBy(k) = {k} BY <1>7, Chains
  <2>4. among = {} => said(k) = "none" BY <1>6, <2>1
  <2> HIDE DEF first, allows, c
  <2> QED BY <1>4, <1>5, <2>2, <2>3, <2>4 DEF said, gate, allows
<1>8. ASSUME NEW x \in RuleKeys, c = <<k, x>>, Fallback(k) = {x}
      PROVE  /\ said(k) \in Opinions => (allows <=> said(k) = "allow")
             /\ allows /\ deny => \E key \in FedBy(k) : said(key) = "allow"
             /\ ~ allows /\ ~ deny => \E key \in FedBy(k) : said(key) = "deny"
  <2>1. DOMAIN c = {1, 2} /\ c[1] = k /\ c[2] = x BY <1>8
  <2>2. first = IF said(k) \in Opinions THEN said(k) ELSE IF said(x) \in Opinions THEN said(x) ELSE "none"
    BY <1>2, <1>3, <2>1, FirstOfTwo
  <2>3. FedBy(k) = {k, x} BY <1>8, Chains
  <2>4. among = {} => said(k) = "none" /\ said(x) = "none" BY <1>6, <2>1
  <2> HIDE DEF first, allows, c
  <2> QED BY <1>4, <1>5, <2>2, <2>3, <2>4
<1>9. ChainOf(k) = c OBVIOUS
<1> HIDE DEF c, first, allows
<1> QED BY <1>7, <1>8, <1>9, Chains, Zenon DEF said, gate, allows

LEMMA CompiledBag ==
  ASSUME deployment \in Deployments,
         gates = CreateRoleBasedPermissions(deployment.role, deployment.defaults, deployment.defaultDeny)
  PROVE  NothingOpensByItself /\ OwnRuleStands /\ NothingClosesByItself
<1> DEFINE role == deployment.role  defaults == deployment.defaults  deny == deployment.defaultDeny
           rules == CompiledRules(role, defaults)
<1>1. role \in Trees \cup {Bare} /\ defaults \in Trees /\ deny \in BOOLEAN BY RulesAssumption
<1>2. RoleTree = OwnTree(role) BY DEF RoleTree, OwnTree
<1>3. ASSUME NEW k \in BuildTimeKeys, NEW a \in Arguments(k)
      PROVE  /\ Decide(k, RoleTree[k], a) \in Opinions =>
                  (IsAllowed(gates[k], a) <=> Decide(k, RoleTree[k], a) = "allow")
             /\ IsAllowed(gates[k], a) /\ deny =>
                  \E key \in FedBy(k), tree \in {RoleTree, defaults} : Decide(k, tree[key], a) = "allow"
             /\ ~ IsAllowed(gates[k], a) /\ ~ deny =>
                  \E key \in FedBy(k), tree \in {RoleTree, defaults} : Decide(k, tree[key], a) = "deny"
  <2> DEFINE said(key) == IF rules[key].all = "absent" THEN "none" ELSE Decide(k, rules[key], a)
  <2>1. gates[k] = BuildGate(rules, k, ChainOf(k), deny) BY GateOf
  <2> HIDE DEF rules, role, defaults, deny
  <2>2. /\ said(k) \in Opinions => (IsAllowed(gates[k], a) <=> said(k) = "allow")
        /\ IsAllowed(gates[k], a) /\ deny => \E key \in FedBy(k) : said(key) = "allow"
        /\ ~ IsAllowed(gates[k], a) /\ ~ deny => \E key \in FedBy(k) : said(key) = "deny"
    BY <1>1, <2>1, GateSays
  <2>3. ASSUME NEW key \in RuleKeys
        PROVE  /\ said(key) \in Opinions => said(key) \in {Decide(k, RoleTree[key], a), Decide(k, defaults[key], a)}
               /\ Decide(k, RoleTree[key], a) \in Opinions => said(key) = Decide(k, RoleTree[key], a)
    <3>1. /\ Decide(k, rules[key], a) \in Opinions =>
               Decide(k, rules[key], a) \in {Decide(k, RoleTree[key], a), Decide(k, defaults[key], a)}
          /\ Decide(k, RoleTree[key], a) \in Opinions =>
               rules[key].all # "absent" /\ Decide(k, rules[key], a) = Decide(k, RoleTree[key], a)
      BY <1>1, <1>2, CompiledSays DEF rules
    <3>2. "none" \notin Opinions BY DEF Opinions
    <3> QED BY <3>1, <3>2
  <2>4. k \in RuleKeys /\ FedBy(k) \in SUBSET RuleKeys /\ {"allow", "deny"} = Opinions
    BY Chains DEF RuleKeys, Opinions
  <2> HIDE DEF said
  <2>5. ASSUME NEW o \in Opinions, \E key \in FedBy(k) : said(key) = o
        PROVE  \E key \in FedBy(k), tree \in {RoleTree, defaults} : Decide(k, tree[key], a) = o
    <3>1. PICK key \in FedBy(k) : said(key) = o BY <2>5
    <3>2. o \in {Decide(k, RoleTree[key], a), Decide(k, defaults[key], a)} BY <2>3, <2>4, <3>1
    <3> QED BY <3>1, <3>2
  <2> QED BY <2>2, <2>3, <2>4, <2>5
<1>4. NothingOpensByItself BY <1>3 DEF NothingOpensByItself
<1>5. OwnRuleStands BY <1>3 DEF OwnRuleStands
<1>6. NothingClosesByItself BY <1>3 DEF NothingClosesByItself
<1> QED BY <1>4, <1>5, <1>6

(* The bag a role's rules are compiled into is what the rules say: under     *)
(* defaultDeny no surface opens that no rule allows, without it none closes  *)
(* that no rule denies, and what the role itself says of a gate is neither   *)
(* overridden by the defaults nor by the key a gate falls back on.           *)
THEOREM BagsFollowTheRules == RulesSpec => []GatesFollowTheRules
<1> DEFINE Inv == /\ deployment \in Deployments
                  /\ compiled => gates = CreateRoleBasedPermissions(deployment.role, deployment.defaults,
                                                                    deployment.defaultDeny)
<1>1. RulesInit => Inv BY DEF RulesInit
<1>2. Inv /\ [CompileRules]_rulesVars => Inv' BY DEF CompileRules, rulesVars
<1>3. Inv => GatesFollowTheRules BY CompiledBag, RulesAssumption DEF GatesFollowTheRules
<1> QED BY <1>1, <1>2, <1>3, PTL DEF RulesSpec
===============================================================================
