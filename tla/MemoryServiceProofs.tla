------------------------- MODULE MemoryServiceProofs -------------------------
(***************************************************************************)
(* Theorems about MemoryService, for any clients, branches, memories and   *)
(* versions, with requests that overlap or not and crashes between any two *)
(* statements.                                                             *)
(***************************************************************************)
EXTENDS MemoryService, MemoryModelProofs

-----------------------------------------------------------------------------
(***************************************************************************)
(* The inductive invariant.                                                *)
(***************************************************************************)

\* The type invariant but for the merges, which only start requests.
CoreType ==
  /\ clock \in Nat
  /\ parent \in [Branch -> Branch \cup {Null}]
  /\ rows \in [Branch -> [Memory -> Row]]
  /\ tombs \in [Branch -> SUBSET Memory]
  /\ snaps \in [Branch -> [Memory -> SUBSET Snapshot]]
  /\ job \in [Client -> Job]
  /\ suspect \subseteq Branch \X Memory /\ torn \subseteq Branch \X Memory

\* An upsert has something to write; the key of a running job is a key.
Loaded ==
  \A c \in Client : /\ job[c].op = "upsert" => job[c].v \in Version
                    /\ Running(c) => job[c].m \in Memory

SameKey(c, d) == job[c].b = job[d].b /\ job[c].m = job[d].m

\* A key that two requests work on is a suspect.
Met ==
  \A c, d \in Client :
    c # d /\ Running(c) /\ Running(d) /\ SameKey(c, d) => <<job[c].b, job[c].m>> \in suspect

\* The row a delete took out stays away, unless another request met it.
Gone ==
  \A c \in Client :
    job[c].op = "delete" /\ <<job[c].b, job[c].m>> \notin suspect
      => ~Present(rows[job[c].b][job[c].m])

OneOpen(line) == \A r, s \in line : r.until = Open /\ s.until = Open => r = s

Exempt(b, m) == <<b, m>> \in suspect \cup torn \/ InDelete(b, m)

Recorded(b, m) ==
  Present(rows[b][m]) =>
    \/ b = Main /\ m \in Legacy /\ snaps[b][m] = {}
    \/ \E s \in OpenUpserts(snaps[b][m]) :
         s.version = rows[b][m].version /\ s.from = rows[b][m].at

Consistent(b, m) ==
  /\ Recorded(b, m)
  /\ OpenUpserts(snaps[b][m]) # {} => Present(rows[b][m])
  /\ m \in tombs[b] => OpenDeletes(snaps[b][m]) # {}

NotLost(b, m) ==
  OpenUpserts(snaps[b][m]) # {} /\ ~Present(rows[b][m])
    => InDelete(b, m) \/ <<b, m>> \in torn

KeyOK(b, m) ==
  /\ OneOpen(snaps[b][m])
  /\ Exempt(b, m) \/ Consistent(b, m)
  /\ NotLost(b, m)

Keys == \A b \in Branch, m \in Memory : KeyOK(b, m)

Core == CoreType /\ Loaded /\ Met /\ Gone /\ Keys

\* A merge in progress has read what it has still to write.
MergeInv ==
  /\ merge \in [Client -> Merge \cup {Null}]
  /\ \A c \in Client : merge[c] # Null =>
       \A m \in merge[c].ups : Present(merge[c].copy[m])

Inv == Core /\ MergeInv

-----------------------------------------------------------------------------
(***************************************************************************)
(* Keys.                                                                   *)
(***************************************************************************)

\* The value of a row and the absence of a job have their types.
LEMMA Values == NoRow \in Row /\ Idle \in Job /\ (\A t \in Nat : Done(t) \in Job)
  BY ModelAssumption DEF NoRow, Row, Idle, Job, Op, Done

\* A job that is over, or has not begun, does not run.
LEMMA NotRunning ==
  ASSUME NEW t
  PROVE  Idle.op = "idle" /\ Done(t).op = "done"
  BY DEF Idle, Done

\* A key nothing is written to keeps its invariant, while suspicions grow, what is
\* torn stays so and deletes of it go on or are torn.
LEMMA UntouchedKey ==
  ASSUME NEW b \in Branch, NEW m \in Memory, KeyOK(b, m),
         rows'[b][m] = rows[b][m], snaps'[b][m] = snaps[b][m],
         m \in tombs'[b] <=> m \in tombs[b],
         suspect \subseteq suspect', <<b, m>> \in torn => <<b, m>> \in torn',
         InDelete(b, m) => InDelete(b, m)' \/ <<b, m>> \in torn'
  PROVE  KeyOK(b, m)'
<1>1. OneOpen(snaps[b][m])'
  BY DEF KeyOK, OneOpen
<1>2. Exempt(b, m) => Exempt(b, m)'
  BY DEF Exempt
<1>3. Consistent(b, m) => Consistent(b, m)'
  BY DEF Consistent, Recorded
<1>4. NotLost(b, m)'
  BY DEF KeyOK, NotLost
<1> QED
  BY <1>1, <1>2, <1>3, <1>4 DEF KeyOK

\* A row that is written with its snapshot and without a tombstone.
LEMMA UpsertKey ==
  ASSUME NEW b \in Branch, NEW m \in Memory, NEW v \in Version, NEW t \in Nat,
         snaps[b][m] \in SUBSET Snapshot,
         rows'[b][m] = [version |-> v, at |-> t],
         snaps'[b][m] = UpsertAt(snaps[b][m], v, t), m \notin tombs'[b]
  PROVE  KeyOK(b, m)'
<1>1. /\ OpenUpserts(UpsertAt(snaps[b][m], v, t)) = {Fresh("upsert", v, t)}
      /\ OpenDeletes(UpsertAt(snaps[b][m], v, t)) = {}
      /\ UpsertAt(snaps[b][m], v, t) \in SUBSET Snapshot
  BY UpsertLine
<1>2. \A s \in UpsertAt(snaps[b][m], v, t) : s.until = Open => s = Fresh("upsert", v, t)
  BY UpsertOpen
<1>3. OneOpen(snaps[b][m])'
  BY <1>2 DEF OneOpen
<1>4. Fresh("upsert", v, t).version = v /\ Fresh("upsert", v, t).from = t
  BY DEF Fresh
<1>5. Present(rows'[b][m])
  BY ModelAssumption DEF Present
<1>6. OpenUpserts(snaps'[b][m]) = {Fresh("upsert", v, t)}
  BY <1>1
<1>7. Consistent(b, m)'
  BY <1>4, <1>5, <1>6 DEF Consistent, Recorded
<1> QED
  BY <1>3, <1>5, <1>7 DEF KeyOK, NotLost

\* A row that is gone, or leaves now, and its delete snapshot.
LEMMA DeleteKey ==
  ASSUME NEW b \in Branch, NEW m \in Memory, NEW t \in Nat,
         snaps[b][m] \in SUBSET Snapshot,
         snaps'[b][m] = DeleteAt(snaps[b][m], t),
         Exempt(b, m)' \/ ~Present(rows'[b][m])
  PROVE  KeyOK(b, m)'
<1>1. /\ OpenUpserts(DeleteAt(snaps[b][m], t)) = {}
      /\ OpenDeletes(DeleteAt(snaps[b][m], t)) = {Fresh("delete", Null, t)}
  BY DeleteLine
<1>2. \A s \in DeleteAt(snaps[b][m], t) : s.until = Open => s = Fresh("delete", Null, t)
  BY DeleteOpen
<1>3. OneOpen(snaps[b][m])'
  BY <1>2 DEF OneOpen
<1>4. OpenUpserts(snaps'[b][m]) = {} /\ OpenDeletes(snaps'[b][m]) # {}
  BY <1>1
<1>5. Exempt(b, m)' \/ Consistent(b, m)'
  BY <1>4 DEF Consistent, Recorded
<1> QED
  BY <1>3, <1>4, <1>5 DEF KeyOK, NotLost

\* A row that a delete in progress takes out.
LEMMA TakenKey ==
  ASSUME NEW b \in Branch, NEW m \in Memory, KeyOK(b, m),
         snaps'[b][m] = snaps[b][m], InDelete(b, m)'
  PROVE  KeyOK(b, m)'
<1>1. OneOpen(snaps[b][m])'
  BY DEF KeyOK, OneOpen
<1> QED
  BY <1>1 DEF KeyOK, Exempt, NotLost

-----------------------------------------------------------------------------
(***************************************************************************)
(* The steps of a request.                                                 *)
(***************************************************************************)

\* A step that writes no key and starts nothing.
LEMMA QuietInv ==
  ASSUME Core, clock' \in Nat, parent' \in [Branch -> Branch \cup {Null}],
         rows' = rows, tombs' = tombs, snaps' = snaps, suspect' = suspect, torn' = torn,
         job' \in [Client -> Job],
         \A c \in Client : job'[c] = job[c] \/ (job'[c] = Idle /\ ~Running(c))
  PROVE  Core'
<1>1. CoreType'
  BY DEF Core, CoreType
<1>2. \A c \in Client : job'[c] = job[c] \/ (job'[c].op = "idle" /\ ~Running(c))
  BY NotRunning
<1>3. Loaded'
  BY <1>2 DEF Core, Loaded, Running
<1>4. Met'
  BY <1>2 DEF Core, Met, Running, SameKey
<1>5. Gone'
  BY <1>2 DEF Core, Gone
<1>6. ASSUME NEW b \in Branch, NEW m \in Memory
      PROVE  KeyOK(b, m)'
  <2>1. KeyOK(b, m)
    BY DEF Core, Keys
  <2>2. InDelete(b, m) => InDelete(b, m)'
    BY <1>2 DEF InDelete, Running
  <2> QED
    BY <2>1, <2>2, UntouchedKey
<1> QED
  BY <1>1, <1>3, <1>4, <1>5, <1>6 DEF Core, Keys

\* An upsert begins: the row and its timeline wait for the embedding.
LEMMA StartUpsertInv ==
  ASSUME Core, NEW c \in Client, NEW b \in Branch, NEW m \in Memory, NEW v \in Version,
         NEW from \in Branch, job[c] = Idle, StartUpsert(c, b, m, v, from)
  PROVE  Core'
<1> DEFINE new == [op |-> "upsert", b |-> b, m |-> m, v |-> v, at |-> clock, row |-> NoRow]
<1>1. /\ CoreType /\ ~Running(c) /\ new \in Job
      /\ parent' \in [Branch -> Branch \cup {Null}]
  <2>1. CoreType /\ clock \in Nat
    BY DEF Core, CoreType
  <2>2. ~Running(c)
    BY NotRunning DEF Running
  <2>3. new \in Job
    BY <2>1, Values DEF Job, Op
  <2>4. parent' \in [Branch -> Branch \cup {Null}]
    BY <2>1 DEF StartUpsert, Ensure, CoreType
  <2> QED
    BY <2>1, <2>2, <2>3, <2>4
<1>2. /\ job' = [job EXCEPT ![c] = new] /\ rows' = rows /\ tombs' = tombs /\ snaps' = snaps
      /\ clock' = clock /\ torn' = torn
      /\ suspect' = IF Clash(c, b, m) THEN suspect \cup {<<b, m>>} ELSE suspect
  BY DEF StartUpsert, Mark
<1>3. /\ job'[c] = new
      /\ \A d \in Client \ {c} : job'[d] = job[d]
  BY <1>1, <1>2 DEF CoreType
<1>4. new.op = "upsert" /\ new.b = b /\ new.m = m /\ new.v = v
  OBVIOUS
<1>5. CoreType'
  BY <1>1, <1>2 DEF CoreType
<1> HIDE DEF new
<1>6. Loaded'
  BY <1>3, <1>4 DEF Core, Loaded, Running
<1>7. Met'
  BY <1>2, <1>3, <1>4 DEF Core, Met, Running, SameKey, Clash
<1>8. Gone'
  BY <1>2, <1>3, <1>4 DEF Core, Gone
<1>9. ASSUME NEW k \in Branch, NEW n \in Memory
      PROVE  KeyOK(k, n)'
  <2>1. KeyOK(k, n)
    BY DEF Core, Keys
  <2>2. InDelete(k, n) => InDelete(k, n)'
    BY <1>1, <1>3 DEF InDelete, Running
  <2>3. suspect \subseteq suspect'
    BY <1>2
  <2> QED
    BY <1>2, <2>1, <2>2, <2>3, UntouchedKey
<1> QED
  BY <1>5, <1>6, <1>7, <1>8, <1>9 DEF Core, Keys

\* An upsert writes its row, tombstone and snapshot.
LEMMA WriteUpsertInv ==
  ASSUME Core, NEW c \in Client, WriteUpsert(c)
  PROVE  Core'
<1> DEFINE b == job[c].b
           m == job[c].m
           v == job[c].v
           t == job[c].at
<1>1. /\ CoreType /\ job[c].op = "upsert" /\ Running(c)
      /\ b \in Branch /\ m \in Memory /\ v \in Version /\ t \in Nat
  BY DEF Core, CoreType, Loaded, WriteUpsert, Running, Job
<1>2. /\ rows' = [rows EXCEPT ![b][m] = [version |-> v, at |-> t]]
      /\ tombs' = [tombs EXCEPT ![b] = @ \ {m}]
      /\ snaps' = [snaps EXCEPT ![b][m] = UpsertAt(@, v, t)]
      /\ job' = [job EXCEPT ![c] = Done(t)]
      /\ clock' = clock /\ parent' = parent /\ suspect' = suspect
      /\ torn' = torn \ {<<b, m>>}
  BY DEF WriteUpsert, Mend
<1>3. job'[c].op = "done" /\ \A d \in Client \ {c} : job'[d] = job[d]
  BY <1>1, <1>2, NotRunning DEF CoreType
<1> HIDE DEF b, m, v, t
<1>4. CoreType'
  <2>1. [version |-> v, at |-> t] \in Row
    BY <1>1 DEF Row
  <2>4. snaps[b][m] \in SUBSET Snapshot /\ v \in Version \cup {Null}
    BY <1>1 DEF CoreType
  <2>2. UpsertAt(snaps[b][m], v, t) \in SUBSET Snapshot
    BY <1>1, <2>4, UpsertLine
  <2>3. Done(t) \in Job
    BY <1>1, Values
  <2> QED
    BY <1>1, <1>2, <2>1, <2>2, <2>3 DEF CoreType
<1>5. Loaded'
  BY <1>3 DEF Core, Loaded, Running
<1>6. Met'
  BY <1>2, <1>3 DEF Core, Met, Running, SameKey
<1>7. ASSUME NEW d \in Client, job'[d].op = "delete", <<job'[d].b, job'[d].m>> \notin suspect'
      PROVE  ~Present(rows'[job'[d].b][job'[d].m])
  <2>1. /\ d # c /\ job'[d] = job[d] /\ Running(d)
    BY <1>3, <1>7 DEF Running
  <2>2. /\ ~Present(rows[job[d].b][job[d].m])
        /\ job[d].b \in Branch /\ job[d].m \in Memory
    BY <1>1, <1>2, <1>7, <2>1 DEF Core, Gone, Loaded, CoreType, Job
  <2>3. ~(job[d].b = b /\ job[d].m = m)
    BY <1>1, <1>2, <1>7, <2>1 DEF Core, Met, SameKey, b, m
  <2> QED
    BY <1>1, <1>2, <2>1, <2>2, <2>3 DEF CoreType
<1>8. Gone'
  BY <1>7 DEF Gone
<1>9. ASSUME NEW k \in Branch, NEW n \in Memory
      PROVE  KeyOK(k, n)'
  <2>1. KeyOK(k, n)
    BY DEF Core, Keys
  <2>2. CASE k = b /\ n = m
    <3>1. /\ rows'[k][n] = [version |-> v, at |-> t]
          /\ snaps'[k][n] = UpsertAt(snaps[k][n], v, t) /\ n \notin tombs'[k]
          /\ snaps[k][n] \in SUBSET Snapshot
      BY <1>1, <1>2, <2>2 DEF CoreType
    <3> QED
      BY <1>1, <3>1, UpsertKey
  <2>3. CASE ~(k = b /\ n = m)
    <3>1. /\ rows'[k][n] = rows[k][n] /\ snaps'[k][n] = snaps[k][n]
          /\ n \in tombs'[k] <=> n \in tombs[k]
      BY <1>1, <1>2, <2>3 DEF CoreType
    <3>2. InDelete(k, n) => InDelete(k, n)'
      BY <1>1, <1>3 DEF InDelete
    <3> QED
      BY <1>2, <2>1, <2>3, <3>1, <3>2, UntouchedKey
  <2> QED
    BY <2>2, <2>3
<1> QED
  BY <1>4, <1>5, <1>6, <1>8, <1>9 DEF Core, Keys

\* A delete begins: the row is gone before its timeline says so.
LEMMA StartDeleteInv ==
  ASSUME Core, NEW c \in Client, NEW b \in Branch, NEW m \in Memory,
         job[c] = Idle, StartDelete(c, b, m)
  PROVE  Core'
<1> DEFINE new == [op |-> "delete", b |-> b, m |-> m, v |-> Null, at |-> clock, row |-> rows[b][m]]
<1>1. /\ CoreType /\ ~Running(c) /\ new \in Job
  <2>1. CoreType /\ clock \in Nat /\ rows[b][m] \in Row
    BY DEF Core, CoreType
  <2>2. ~Running(c)
    BY NotRunning DEF Running
  <2>3. new \in Job
    BY <2>1 DEF Job, Op
  <2> QED
    BY <2>1, <2>2, <2>3
<1>2. /\ job' = [job EXCEPT ![c] = new] /\ rows' = [rows EXCEPT ![b][m] = NoRow]
      /\ tombs' = tombs /\ snaps' = snaps /\ clock' = clock /\ parent' = parent /\ torn' = torn
      /\ suspect' = IF Clash(c, b, m) THEN suspect \cup {<<b, m>>} ELSE suspect
  BY DEF StartDelete, Mark
<1>3. /\ job'[c] = new
      /\ \A d \in Client \ {c} : job'[d] = job[d]
  BY <1>1, <1>2 DEF CoreType
<1>4. new.op = "delete" /\ new.b = b /\ new.m = m
  OBVIOUS
<1>5. CoreType'
  BY <1>1, <1>2, Values DEF CoreType
<1> HIDE DEF new
<1>6. Loaded'
  BY <1>3, <1>4 DEF Core, Loaded, Running
<1>7. Met'
  BY <1>2, <1>3, <1>4 DEF Core, Met, Running, SameKey, Clash
<1>8. \A k \in Branch, n \in Memory :
        rows'[k][n] = (IF k = b /\ n = m THEN NoRow ELSE rows[k][n])
  BY <1>1, <1>2 DEF CoreType
<1>9. ~Present(NoRow)
  BY DEF Present, NoRow
<1>10. ASSUME NEW d \in Client, job'[d].op = "delete", <<job'[d].b, job'[d].m>> \notin suspect'
       PROVE  ~Present(rows'[job'[d].b][job'[d].m])
  <2>1. CASE d = c
    BY <1>3, <1>4, <1>8, <1>9, <2>1
  <2>2. CASE d # c
    <3>1. /\ job'[d] = job[d] /\ ~Present(rows[job[d].b][job[d].m])
          /\ job[d].b \in Branch /\ job[d].m \in Memory
      BY <1>1, <1>2, <1>3, <1>10, <2>2 DEF Core, Gone, Loaded, CoreType, Job, Running
    <3> QED
      BY <1>8, <1>9, <3>1
  <2> QED
    BY <2>1, <2>2
<1>11. Gone'
  BY <1>10 DEF Gone
<1>12. ASSUME NEW k \in Branch, NEW n \in Memory
       PROVE  KeyOK(k, n)'
  <2>1. KeyOK(k, n)
    BY DEF Core, Keys
  <2>2. CASE k = b /\ n = m
    <3>1. InDelete(k, n)'
      BY <1>3, <1>4, <2>2 DEF InDelete
    <3> QED
      BY <1>2, <2>1, <3>1, TakenKey
  <2>3. CASE ~(k = b /\ n = m)
    <3>1. rows'[k][n] = rows[k][n] /\ suspect \subseteq suspect'
      BY <1>2, <1>8, <2>3
    <3>2. InDelete(k, n) => InDelete(k, n)'
      BY <1>1, <1>3 DEF InDelete, Running
    <3> QED
      BY <1>2, <2>1, <3>1, <3>2, UntouchedKey
  <2> QED
    BY <2>2, <2>3
<1> QED
  BY <1>5, <1>6, <1>7, <1>11, <1>12 DEF Core, Keys

\* A delete writes its tombstone and snapshot.
LEMMA WriteDeleteInv ==
  ASSUME Core, NEW c \in Client, WriteDelete(c)
  PROVE  Core'
<1> DEFINE b == job[c].b
           m == job[c].m
           t == job[c].at
<1>1. /\ CoreType /\ job[c].op = "delete" /\ Running(c)
      /\ b \in Branch /\ m \in Memory /\ t \in Nat
  BY DEF Core, CoreType, Loaded, WriteDelete, Running, Job
<1>2. /\ tombs' = Tombed(b, m)
      /\ snaps' = [snaps EXCEPT ![b][m] = DeleteAt(@, t)]
      /\ job' = [job EXCEPT ![c] = Done(t)]
      /\ clock' = clock /\ parent' = parent /\ rows' = rows /\ suspect' = suspect
      /\ torn' = torn \ {<<b, m>>}
  BY DEF WriteDelete, Mend
<1>3. job'[c].op = "done" /\ \A d \in Client \ {c} : job'[d] = job[d]
  BY <1>1, <1>2, NotRunning DEF CoreType
<1>4. <<b, m>> \in suspect \/ ~Present(rows[b][m])
  BY <1>1 DEF Core, Gone
<1> HIDE DEF b, m, t
<1>5. CoreType'
  <2>1. snaps[b][m] \in SUBSET Snapshot
    BY <1>1 DEF CoreType
  <2>2. DeleteAt(snaps[b][m], t) \in SUBSET Snapshot
    BY <1>1, <2>1, DeleteLine
  <2>3. Done(t) \in Job
    BY <1>1, Values
  <2> QED
    BY <1>1, <1>2, <2>2, <2>3 DEF CoreType, Tombed
<1>6. Loaded'
  BY <1>3 DEF Core, Loaded, Running
<1>7. Met'
  BY <1>2, <1>3 DEF Core, Met, Running, SameKey
<1>8. Gone'
  BY <1>2, <1>3 DEF Core, Gone
<1>9. ASSUME NEW k \in Branch, NEW n \in Memory
      PROVE  KeyOK(k, n)'
  <2>1. KeyOK(k, n) /\ snaps[k][n] \in SUBSET Snapshot
    BY <1>1 DEF Core, Keys, CoreType
  <2>2. CASE k = b /\ n = m
    <3>1. snaps'[k][n] = DeleteAt(snaps[k][n], t)
      BY <1>1, <1>2, <2>2 DEF CoreType
    <3>2. Exempt(k, n)' \/ ~Present(rows'[k][n])
      BY <1>2, <1>4, <2>2 DEF Exempt
    <3> QED
      BY <1>1, <2>1, <3>1, <3>2, DeleteKey
  <2>3. CASE ~(k = b /\ n = m)
    <3>1. /\ rows'[k][n] = rows[k][n] /\ snaps'[k][n] = snaps[k][n]
          /\ n \in tombs'[k] <=> n \in tombs[k]
      BY <1>1, <1>2, <2>3 DEF CoreType, Tombed
    <3>2. InDelete(k, n) => InDelete(k, n)'
      BY <1>3, <2>3 DEF InDelete, b, m
    <3> QED
      BY <1>2, <2>1, <2>3, <3>1, <3>2, UntouchedKey
  <2> QED
    BY <2>2, <2>3
<1> QED
  BY <1>5, <1>6, <1>7, <1>8, <1>9 DEF Core, Keys

\* A key whose row is gone gets its delete snapshot, in one step.
OneStepDelete(c, b, m) ==
  /\ ~Running(c) /\ job' \in [Client -> Job] /\ job'[c].op \in {"idle", "done"}
  /\ \A d \in Client \ {c} : job'[d] = job[d]
  /\ UNCHANGED <<clock, parent>> /\ torn' = torn \ {<<b, m>>}
  /\ rows' \in [Branch -> [Memory -> Row]] /\ tombs' \in [Branch -> SUBSET Memory]
  /\ \A k \in Branch, n \in Memory : ~(k = b /\ n = m) =>
       rows'[k][n] = rows[k][n] /\ (n \in tombs'[k] <=> n \in tombs[k])
  /\ snaps' = [snaps EXCEPT ![b][m] = DeleteAt(@, clock)] /\ ~Present(rows'[b][m])
  /\ suspect' \in {suspect, suspect \cup {<<b, m>>}}

\* It keeps the invariant.
LEMMA DeletedAtOnce ==
  ASSUME Core, NEW c \in Client, NEW b \in Branch, NEW m \in Memory, OneStepDelete(c, b, m)
  PROVE  Core'
<1> USE DEF OneStepDelete
<1>1. CoreType /\ clock \in Nat /\ suspect \subseteq suspect'
  BY DEF Core, CoreType
<1>2. CoreType'
  <2>1. snaps[b][m] \in SUBSET Snapshot
    BY <1>1 DEF CoreType
  <2>2. DeleteAt(snaps[b][m], clock) \in SUBSET Snapshot
    BY <1>1, <2>1, DeleteLine
  <2>3. snaps' \in [Branch -> [Memory -> SUBSET Snapshot]]
    BY <1>1, <2>2 DEF CoreType
  <2> QED
    BY <1>1, <2>3 DEF CoreType
<1>3. \A d \in Client : Running(d)' => d # c /\ Running(d)
  BY DEF Running
<1>4. Loaded'
  BY <1>3 DEF Core, Loaded, Running
<1>5. Met'
  BY <1>1, <1>3 DEF Core, Met, Running, SameKey
<1>6. \A k \in Branch, n \in Memory :
        snaps'[k][n] = (IF k = b /\ n = m THEN DeleteAt(snaps[k][n], clock) ELSE snaps[k][n])
  BY <1>1 DEF CoreType
<1>8. ASSUME NEW d \in Client, job'[d].op = "delete", <<job'[d].b, job'[d].m>> \notin suspect'
      PROVE  ~Present(rows'[job'[d].b][job'[d].m])
  <2>1. d # c /\ job'[d] = job[d] /\ Running(d)
    BY <1>8, <1>3 DEF Running
  <2>3. job[d].op = "delete" /\ <<job[d].b, job[d].m>> \notin suspect
    BY <1>1, <1>8, <2>1
  <2>2. /\ ~Present(rows[job[d].b][job[d].m])
        /\ job[d].b \in Branch /\ job[d].m \in Memory
    <3>1. ~Present(rows[job[d].b][job[d].m])
      BY <2>3, Zenon DEF Core, Gone
    <3>2. job[d] \in Job
      BY <1>1 DEF CoreType
    <3>3. job[d].b \in Branch
      BY <3>2, <2>3 DEF Job
    <3>4. job[d].m \in Memory
      BY <2>1, Zenon DEF Core, Loaded
    <3> QED
      BY <3>1, <3>3, <3>4
  <2>4. job'[d].b \in Branch /\ job'[d].m \in Memory /\ ~Present(rows[job'[d].b][job'[d].m])
    BY <2>1, <2>2
  <2>5. CASE job'[d].b = b /\ job'[d].m = m
    BY <2>5
  <2>6. CASE ~(job'[d].b = b /\ job'[d].m = m)
    <3>1. rows'[job'[d].b][job'[d].m] = rows[job'[d].b][job'[d].m]
      BY <2>4, <2>6
    <3> QED
      BY <2>4, <3>1, Zenon
  <2> QED
    BY <2>5, <2>6
<1>9. Gone'
  BY <1>8 DEF Gone
<1>10. ASSUME NEW k \in Branch, NEW n \in Memory
       PROVE  KeyOK(k, n)'
  <2>1. KeyOK(k, n) /\ snaps[k][n] \in SUBSET Snapshot
    BY <1>1 DEF Core, Keys, CoreType
  <2>2. CASE k = b /\ n = m
    <3>1. snaps'[k][n] = DeleteAt(snaps[k][n], clock) /\ ~Present(rows'[k][n])
      BY <1>6, <2>2
    <3> HIDE DEF OneStepDelete
    <3> QED
      BY <1>1, <2>1, <3>1, DeleteKey
  <2>3. CASE ~(k = b /\ n = m)
    <3>1. InDelete(k, n) => InDelete(k, n)'
      BY DEF InDelete, Running
    <3> QED
      BY <1>1, <1>6, <2>1, <2>3, <3>1, UntouchedKey
  <2> QED
    BY <2>2, <2>3
<1> QED
  BY <1>2, <1>4, <1>5, <1>9, <1>10 DEF Core, Keys

\* deleteMemory of a memory without a row.
LEMMA DeleteAbsentInv ==
  ASSUME Core, NEW c \in Client, NEW b \in Branch, NEW m \in Memory,
         job[c] = Idle, DeleteAbsent(c, b, m)
  PROVE  Core'
<1>1. CoreType /\ clock \in Nat /\ ~Running(c)
  BY NotRunning DEF Core, CoreType, Running
<1>2. job' \in [Client -> Job] /\ job'[c].op = "done" /\ \A d \in Client \ {c} : job'[d] = job[d]
  BY <1>1, Values, NotRunning DEF DeleteAbsent, CoreType
<1>3. /\ tombs' \in [Branch -> SUBSET Memory]
      /\ \A k \in Branch, n \in Memory :
           ~(k = b /\ n = m) => (n \in tombs'[k] <=> n \in tombs[k])
  BY <1>1 DEF DeleteAbsent, Tombed, CoreType
<1>4. suspect' \in {suspect, suspect \cup {<<b, m>>}} /\ torn' = torn \ {<<b, m>>}
  BY DEF DeleteAbsent, Mark, Mend
<1>5. /\ rows' = rows /\ ~Present(rows[b][m]) /\ rows \in [Branch -> [Memory -> Row]]
      /\ snaps' = [snaps EXCEPT ![b][m] = DeleteAt(@, clock)]
      /\ clock' = clock /\ parent' = parent
  BY <1>1 DEF DeleteAbsent, CoreType
<1>6. rows' \in [Branch -> [Memory -> Row]] /\ ~Present(rows'[b][m])
  BY <1>5, Zenon
<1>7. \A k \in Branch, n \in Memory : ~(k = b /\ n = m) =>
        rows'[k][n] = rows[k][n] /\ (n \in tombs'[k] <=> n \in tombs[k])
  BY <1>3, <1>5, Zenon
<1>8. /\ job' \in [Client -> Job] /\ ~Running(c) /\ job'[c].op \in {"idle", "done"}
      /\ \A d \in Client \ {c} : job'[d] = job[d]
  BY <1>1, <1>2
<1> QED
  <2>1. /\ clock \in Nat /\ clock' = clock /\ parent' = parent /\ torn' = torn \ {<<b, m>>}
        /\ tombs' \in [Branch -> SUBSET Memory]
        /\ snaps' = [snaps EXCEPT ![b][m] = DeleteAt(@, clock)]
        /\ suspect' \in {suspect, suspect \cup {<<b, m>>}}
    BY <1>1, <1>3, <1>4, <1>5, Zenon
  <2>2. OneStepDelete(c, b, m)
    BY <1>6, <1>7, <1>8, <2>1, Zenon DEF OneStepDelete
  <2> QED
    BY <2>2, DeletedAtOnce

\* deleteMemoriesByIds.
LEMMA DeleteByIdInv ==
  ASSUME Core, NEW c \in Client, NEW b \in Branch, NEW m \in Memory, DeleteById(c, b, m)
  PROVE  Core'
<1>1. CoreType /\ clock \in Nat /\ job[c] = Idle /\ ~Running(c)
  BY NotRunning DEF Core, CoreType, Running, DeleteById, Request, Free
<1>2. /\ job' \in [Client -> Job] /\ job'[c].op = "idle"
      /\ \A d \in Client \ {c} : job'[d] = job[d]
  BY <1>1, NotRunning DEF DeleteById, CoreType
<1>3. /\ rows' \in [Branch -> [Memory -> Row]] /\ ~Present(rows'[b][m])
      /\ \A k \in Branch, n \in Memory : ~(k = b /\ n = m) => rows'[k][n] = rows[k][n]
  <2>1. rows' = [rows EXCEPT ![b][m] = NoRow]
    BY DEF DeleteById
  <2>2. rows'[b][m] = NoRow /\ ~Present(NoRow)
    BY <1>1, <2>1 DEF CoreType, Present, NoRow
  <2> QED
    BY <1>1, <2>1, <2>2, Values DEF CoreType, Present
<1>4. suspect' \in {suspect, suspect \cup {<<b, m>>}} /\ torn' = torn \ {<<b, m>>}
  BY DEF DeleteById, Mark, Mend
<1>5. /\ snaps' = [snaps EXCEPT ![b][m] = DeleteAt(@, clock)]
      /\ clock' = clock /\ parent' = parent /\ tombs' = tombs
      /\ tombs \in [Branch -> SUBSET Memory]
  BY <1>1 DEF DeleteById, CoreType
<1> QED
  <2>1. OneStepDelete(c, b, m)
    BY <1>1, <1>2, <1>3, <1>4, <1>5 DEF OneStepDelete
  <2> QED
    BY <2>1, DeletedAtOnce

\* A temporal read writes a baseline only where there is a row.
LEMMA BaselineKey ==
  ASSUME CoreType, NEW b \in Branch, NEW m \in Memory, KeyOK(b, m),
         rows'[b][m] = rows[b][m], m \in tombs'[b] <=> m \in tombs[b],
         suspect' = suspect, <<b, m>> \in torn => <<b, m>> \in torn',
         InDelete(b, m) => InDelete(b, m)' \/ <<b, m>> \in torn',
         snaps'[b][m] = Baseline(snaps[b][m], rows[b][m])
  PROVE  KeyOK(b, m)' /\ snaps'[b][m] \in SUBSET Snapshot
<1>1. snaps[b][m] \in SUBSET Snapshot /\ rows[b][m] \in Row
  BY DEF CoreType
<1>2. CASE Present(rows[b][m]) /\ OpenUpserts(snaps[b][m]) = {}
  <2> DEFINE v == rows[b][m].version
             t == rows[b][m].at
  <2>1. v \in Version /\ t \in Nat /\ rows[b][m] = [version |-> v, at |-> t]
    BY <1>1, <1>2 DEF Row, Present
  <2>2. snaps'[b][m] = UpsertAt(snaps[b][m], v, t)
    BY <1>2 DEF Baseline
  <2>3. UpsertAt(snaps[b][m], v, t) \in SUBSET Snapshot
    <3>1. v \in Version \cup {Null}
      BY <2>1
    <3> QED
      BY <1>1, <2>1, <3>1, UpsertLine
  <2>4. CASE m \notin tombs[b]
    BY <1>1, <2>1, <2>2, <2>3, <2>4, UpsertKey
  <2>5. CASE m \in tombs[b]
    <3>1. Exempt(b, m)
      <4>1. ~Consistent(b, m)
        <5>1. SUFFICES ASSUME Consistent(b, m) PROVE FALSE
          OBVIOUS
        <5>2. snaps[b][m] = {} /\ OpenDeletes(snaps[b][m]) # {}
          BY <1>2, <2>5, <5>1 DEF Consistent, Recorded
        <5> QED
          BY <5>2 DEF OpenDeletes
      <4> QED
        BY <4>1 DEF KeyOK
    <3>2. Exempt(b, m)'
      BY <3>1 DEF Exempt
    <3>3. \A s \in UpsertAt(snaps[b][m], v, t) : s.until = Open => s = Fresh("upsert", v, t)
      BY <1>1, <2>1, UpsertOpen
    <3>4. OneOpen(snaps[b][m])'
      BY <2>2, <3>3 DEF OneOpen
    <3>5. NotLost(b, m)'
      BY <1>2 DEF NotLost, Present
    <3> QED
      BY <2>2, <2>3, <3>2, <3>4, <3>5 DEF KeyOK
  <2> QED
    BY <2>4, <2>5
<1>3. CASE ~(Present(rows[b][m]) /\ OpenUpserts(snaps[b][m]) = {})
  <2>1. snaps'[b][m] = snaps[b][m]
    BY <1>3 DEF Baseline
  <2> QED
    BY <1>1, <2>1, UntouchedKey
<1> QED
  BY <1>2, <1>3

\* An asOf read or a diff keeps the invariant.
LEMMA TemporalReadInv ==
  ASSUME Core, NEW c \in Client, NEW b \in Branch, TemporalRead(c, b)
  PROVE  Core'
<1>1. /\ CoreType /\ clock' = clock /\ parent' = parent /\ rows' = rows /\ tombs' = tombs
      /\ job' = job /\ suspect' = suspect /\ torn' = torn
  BY DEF Core, TemporalRead
<1>2. ASSUME NEW k \in Branch, NEW n \in Memory
      PROVE  \/ snaps'[k][n] = Baseline(snaps[k][n], rows[k][n])
             \/ snaps'[k][n] = snaps[k][n]
  BY DEF TemporalRead
<1>3. ASSUME NEW k \in Branch, NEW n \in Memory
      PROVE  KeyOK(k, n)' /\ snaps'[k][n] \in SUBSET Snapshot
  <2>1. KeyOK(k, n) /\ snaps[k][n] \in SUBSET Snapshot /\ (InDelete(k, n) => InDelete(k, n)')
    BY <1>1 DEF Core, Keys, CoreType, InDelete
  <2>2. CASE snaps'[k][n] = snaps[k][n]
    BY <1>1, <2>1, <2>2, UntouchedKey
  <2>3. CASE snaps'[k][n] = Baseline(snaps[k][n], rows[k][n])
    BY <1>1, <2>1, <2>3, BaselineKey
  <2> QED
    BY <1>2, <2>2, <2>3
<1>4. snaps' \in [Branch -> [Memory -> SUBSET Snapshot]]
  BY <1>3 DEF TemporalRead
<1>5. CoreType'
  BY <1>1, <1>4 DEF CoreType
<1>6. Loaded' /\ Met' /\ Gone'
  BY <1>1 DEF Core, Loaded, Met, Gone, Running, SameKey
<1> QED
  BY <1>3, <1>5, <1>6 DEF Core, Keys

-----------------------------------------------------------------------------
(***************************************************************************)
(* A crash between two statements.                                         *)
(***************************************************************************)

\* The request of client c is about key (b, m).
OnKey(c, b, m) == Running(c) /\ job[c].b = b /\ job[c].m = m

\* What was in flight is gone, and what a delete had not recorded is torn.
Fallen ==
  /\ clock' = clock /\ parent' = parent /\ suspect' = suspect
  /\ \A c \in Client : job'[c] = Idle /\ merge'[c] = Null
  /\ torn \subseteq torn'
  /\ \A b \in Branch, m \in Memory : InDelete(b, m) => <<b, m>> \in torn'

\* What a crash leaves of a key: nothing was written to it,
Spared(b, m) ==
  /\ rows'[b][m] = rows[b][m] /\ snaps'[b][m] = snaps[b][m]
  /\ m \in tombs'[b] <=> m \in tombs[b]

\* a read wrote its baseline, or closed its timeline for one,
HalfRead(b, m) ==
  /\ rows'[b][m] = rows[b][m] /\ (m \in tombs'[b] <=> m \in tombs[b])
  /\ \/ snaps'[b][m] = Baseline(snaps[b][m], rows[b][m])
     \/ snaps'[b][m] = CutBaseline(snaps[b][m], rows[b][m])

\* or a write stamped t stopped before its snapshot was in.
HalfWritten(b, m, t) ==
  /\ <<b, m>> \in torn'
  /\ t = clock \/ \E c \in Client : OnKey(c, b, m) /\ t = job[c].at
  /\ snaps'[b][m] = snaps[b][m] \/ snaps'[b][m] = Close(snaps[b][m], t)
  /\ \/ rows'[b][m] = NoRow
     \/ rows'[b][m] = rows[b][m] /\ (Present(rows[b][m]) => <<b, m>> \in suspect)
     \/ \E v \in Version : rows'[b][m] = [version |-> v, at |-> t]

Struck(b, m) == Spared(b, m) \/ HalfRead(b, m) \/ \E t \in Nat : HalfWritten(b, m, t)

\* The tables a crash leaves are tables.
TablesLeft ==
  /\ rows' \in [Branch -> [Memory -> Row]] /\ tombs' \in [Branch -> SUBSET Memory]
  /\ snaps' \in [Branch -> [Memory -> SUBSET Snapshot]]

\* Dying is the same wherever it happens.
LEMMA DeathFalls ==
  ASSUME Core, NEW keys \in SUBSET (Branch \X Memory), Die(keys)
  PROVE  /\ Fallen /\ keys \subseteq torn' /\ torn' \subseteq Branch \X Memory
         /\ job' \in [Client -> Job] /\ MergeInv'
<1>1. /\ clock' = clock /\ parent' = parent /\ suspect' = suspect
      /\ job' = [c \in Client |-> Idle] /\ merge' = [c \in Client |-> Null]
      /\ torn' = torn \cup keys \cup
           {<<job[c].b, job[c].m>> : c \in {d \in Client : job[d].op = "delete"}}
  BY DEF Die
<1>2. \A c \in Client : job[c].op = "delete" => <<job[c].b, job[c].m>> \in Branch \X Memory
  BY DEF Core, CoreType, Loaded, Running, Job
<1>3. torn' \subseteq Branch \X Memory /\ keys \subseteq torn' /\ torn \subseteq torn'
  BY <1>1, <1>2 DEF Core, CoreType
<1>4. \A b \in Branch, m \in Memory : InDelete(b, m) => <<b, m>> \in torn'
  BY <1>1 DEF InDelete
<1>5. \A c \in Client : job'[c] = Idle /\ merge'[c] = Null
  BY <1>1
<1>6. job' \in [Client -> Job] /\ MergeInv'
  BY <1>1, Values DEF MergeInv
<1> QED
  BY <1>1, <1>3, <1>4, <1>5, <1>6 DEF Fallen

\* What a crash leaves as a whole: one key was being written at most.
Wreck ==
  /\ TablesLeft
  /\ \E keys \in SUBSET (Branch \X Memory) : Die(keys) /\ \A j, k \in keys : j = k
  /\ \A b \in Branch, m \in Memory : Struck(b, m)

\* Dying in the middle of one key's write.
LEMMA OneCut ==
  ASSUME Core, NEW b \in Branch, NEW m \in Memory, Die({<<b, m>>})
  PROVE  /\ <<b, m>> \in torn'
         /\ \E keys \in SUBSET (Branch \X Memory) : Die(keys) /\ \A j, k \in keys : j = k
<1> DEFINE keys == {<<b, m>>}
<1>1. keys \in SUBSET (Branch \X Memory) /\ Die(keys) /\ \A j, k \in keys : j = k
  OBVIOUS
<1>2. <<b, m>> \in keys
  OBVIOUS
<1> HIDE DEF keys
<1> QED
  BY <1>1, <1>2, DeathFalls

\* A timeline that may have been closed.
LEMMA LineCut ==
  ASSUME CoreType, NEW b \in Branch, NEW m \in Memory, NEW t \in Nat,
         snaps' = snaps \/ snaps' = [snaps EXCEPT ![b][m] = Close(@, t)]
  PROVE  /\ snaps' \in [Branch -> [Memory -> SUBSET Snapshot]]
         /\ snaps'[b][m] = snaps[b][m] \/ snaps'[b][m] = Close(snaps[b][m], t)
         /\ \A k \in Branch, n \in Memory : ~(k = b /\ n = m) => snaps'[k][n] = snaps[k][n]
<1>1. snaps[b][m] \in SUBSET Snapshot /\ snaps \in [Branch -> [Memory -> SUBSET Snapshot]]
  BY DEF CoreType
<1> DEFINE line == Close(snaps[b][m], t)
<1>2. line \in SUBSET Snapshot
  BY <1>1, CloseLine
<1>3. snaps' = snaps \/ snaps' = [snaps EXCEPT ![b][m] = line]
  OBVIOUS
<1> HIDE DEF line
<1>4. /\ snaps' \in [Branch -> [Memory -> SUBSET Snapshot]]
      /\ snaps'[b][m] = snaps[b][m] \/ snaps'[b][m] = line
      /\ \A k \in Branch, n \in Memory : ~(k = b /\ n = m) => snaps'[k][n] = snaps[k][n]
  BY <1>1, <1>2, <1>3
<1> QED
  BY <1>4 DEF line

\* A crash within the writes of an upsert.
LEMMA CutUpsertLeaves ==
  ASSUME Core, NEW c \in Client, CrashInUpsert(c)
  PROVE  Wreck
<1> DEFINE b == job[c].b
           m == job[c].m
           v == job[c].v
           t == job[c].at
           row == [version |-> v, at |-> t]
<1>1. /\ CoreType /\ OnKey(c, b, m) /\ b \in Branch /\ m \in Memory /\ v \in Version /\ t \in Nat
  BY DEF Core, CoreType, Loaded, CrashInUpsert, Running, Job, OnKey
<1>2. /\ rows' = [rows EXCEPT ![b][m] = row] /\ Die({<<b, m>>})
      /\ tombs' = tombs \/ tombs' = [tombs EXCEPT ![b] = @ \ {m}]
      /\ snaps' = snaps \/ snaps' = [snaps EXCEPT ![b][m] = Close(@, t)]
  BY DEF CrashInUpsert
<1>3. row \in Row /\ \E w \in Version : row = [version |-> w, at |-> t]
  BY <1>1 DEF Row
<1>4. \E d \in Client : OnKey(d, b, m) /\ t = job[d].at
  BY <1>1
<1> HIDE DEF b, m, v, t, row
<1>5. /\ <<b, m>> \in torn'
      /\ \E keys \in SUBSET (Branch \X Memory) : Die(keys) /\ \A j, k \in keys : j = k
  BY <1>1, <1>2, OneCut
<1>6. /\ rows' \in [Branch -> [Memory -> Row]] /\ rows'[b][m] = row
      /\ \A k \in Branch, n \in Memory : ~(k = b /\ n = m) => rows'[k][n] = rows[k][n]
  BY <1>1, <1>2, <1>3 DEF CoreType
<1>7. /\ snaps' \in [Branch -> [Memory -> SUBSET Snapshot]]
      /\ snaps'[b][m] = snaps[b][m] \/ snaps'[b][m] = Close(snaps[b][m], t)
      /\ \A k \in Branch, n \in Memory : ~(k = b /\ n = m) => snaps'[k][n] = snaps[k][n]
  BY <1>1, <1>2, LineCut
<1>8. TablesLeft
  <2>1. tombs' \in [Branch -> SUBSET Memory]
    BY <1>1, <1>2 DEF CoreType
  <2> QED
    BY <1>6, <1>7, <2>1 DEF TablesLeft
<1>9. HalfWritten(b, m, t)
  BY <1>3, <1>4, <1>5, <1>6, <1>7 DEF HalfWritten
<1>10. \A k \in Branch, n \in Memory : ~(k = b /\ n = m) => (n \in tombs'[k] <=> n \in tombs[k])
  BY <1>1, <1>2 DEF CoreType
<1> QED
  BY <1>1, <1>5, <1>6, <1>7, <1>8, <1>9, <1>10 DEF Wreck, Struck, Spared

\* A crash within the record of a delete whose row is gone.
LEMMA CutDeleteLeaves ==
  ASSUME Core, NEW b \in Branch, NEW m \in Memory, NEW t \in Nat, CutDelete(b, m, t),
         t = clock \/ \E c \in Client : OnKey(c, b, m) /\ t = job[c].at,
         Present(rows[b][m]) => <<b, m>> \in suspect
  PROVE  Wreck
<1>1. CoreType
  BY DEF Core
<1>2. /\ tombs' = Tombed(b, m) /\ rows' = rows /\ Die({<<b, m>>})
      /\ snaps' = snaps \/ snaps' = [snaps EXCEPT ![b][m] = Close(@, t)]
  BY DEF CutDelete
<1>3. /\ <<b, m>> \in torn'
      /\ \E keys \in SUBSET (Branch \X Memory) : Die(keys) /\ \A j, k \in keys : j = k
  BY <1>2, OneCut
<1>4. /\ snaps' \in [Branch -> [Memory -> SUBSET Snapshot]]
      /\ snaps'[b][m] = snaps[b][m] \/ snaps'[b][m] = Close(snaps[b][m], t)
      /\ \A k \in Branch, n \in Memory : ~(k = b /\ n = m) => snaps'[k][n] = snaps[k][n]
  BY <1>1, <1>2, LineCut
<1>5. TablesLeft
  BY <1>1, <1>2, <1>4 DEF TablesLeft, CoreType, Tombed
<1>6. HalfWritten(b, m, t)
  BY <1>2, <1>3, <1>4 DEF HalfWritten
<1>7. \A k \in Branch, n \in Memory : ~(k = b /\ n = m) => (n \in tombs'[k] <=> n \in tombs[k])
  BY <1>1, <1>2 DEF CoreType, Tombed
<1> QED
  BY <1>2, <1>3, <1>4, <1>5, <1>6, <1>7 DEF Wreck, Struck, Spared

\* A crash within a delete by id.
LEMMA CutByIdLeaves ==
  ASSUME Core, NEW c \in Client, NEW b \in Branch, NEW m \in Memory, CrashInDeleteById(c, b, m)
  PROVE  Wreck
<1>1. CoreType /\ clock \in Nat /\ NoRow \in Row
  BY Values DEF Core, CoreType
<1>2. /\ tombs' = tombs /\ rows' = [rows EXCEPT ![b][m] = NoRow] /\ Die({<<b, m>>})
      /\ snaps' = snaps \/ snaps' = [snaps EXCEPT ![b][m] = Close(@, clock)]
  BY DEF CrashInDeleteById
<1>3. /\ <<b, m>> \in torn'
      /\ \E keys \in SUBSET (Branch \X Memory) : Die(keys) /\ \A j, k \in keys : j = k
  BY <1>2, OneCut
<1>4. /\ snaps' \in [Branch -> [Memory -> SUBSET Snapshot]]
      /\ snaps'[b][m] = snaps[b][m] \/ snaps'[b][m] = Close(snaps[b][m], clock)
      /\ \A k \in Branch, n \in Memory : ~(k = b /\ n = m) => snaps'[k][n] = snaps[k][n]
  BY <1>1, <1>2, LineCut
<1>5. /\ rows' \in [Branch -> [Memory -> Row]] /\ rows'[b][m] = NoRow
      /\ \A k \in Branch, n \in Memory : ~(k = b /\ n = m) => rows'[k][n] = rows[k][n]
  BY <1>1, <1>2 DEF CoreType
<1>6. TablesLeft
  BY <1>1, <1>2, <1>4, <1>5 DEF TablesLeft, CoreType
<1>7. HalfWritten(b, m, clock)
  BY <1>3, <1>4, <1>5 DEF HalfWritten
<1> QED
  BY <1>1, <1>2, <1>3, <1>4, <1>5, <1>6, <1>7 DEF Wreck, Struck, Spared

\* A crash within a temporal read.
LEMMA CutReadLeaves ==
  ASSUME Core, NEW c \in Client, NEW b \in Branch, CrashInRead(c, b)
  PROVE  Wreck
<1>1. CoreType
  BY DEF Core
<1>2. /\ rows' = rows /\ tombs' = tombs /\ Die({})
      /\ \E written \in SUBSET (Seen(Lineage(parent, b)) \X Memory),
            cut \in Seen(Lineage(parent, b)) \X Memory :
           snaps' = [d \in Branch |-> [m \in Memory |->
                       IF <<d, m>> \in written THEN Baseline(snaps[d][m], rows[d][m])
                       ELSE IF <<d, m>> = cut THEN CutBaseline(snaps[d][m], rows[d][m])
                       ELSE snaps[d][m]]]
  BY DEF CrashInRead
<1>3. ASSUME NEW k \in Branch, NEW n \in Memory
      PROVE  \/ snaps'[k][n] = Baseline(snaps[k][n], rows[k][n])
             \/ snaps'[k][n] = CutBaseline(snaps[k][n], rows[k][n])
             \/ snaps'[k][n] = snaps[k][n]
  BY <1>2
<1>4. ASSUME NEW k \in Branch, NEW n \in Memory
      PROVE  snaps'[k][n] \in SUBSET Snapshot
  <2>1. snaps[k][n] \in SUBSET Snapshot /\ rows[k][n].version \in Version \cup {Null}
        /\ rows[k][n].at \in Nat
    BY <1>1 DEF CoreType, Row
  <2>2. /\ UpsertAt(snaps[k][n], rows[k][n].version, rows[k][n].at) \in SUBSET Snapshot
        /\ Close(snaps[k][n], rows[k][n].at) \in SUBSET Snapshot
    BY <2>1, UpsertLine, CloseLine
  <2> QED
    BY <1>3, <2>1, <2>2 DEF Baseline, CutBaseline
<1>5. TablesLeft
  BY <1>1, <1>2, <1>4 DEF TablesLeft, CoreType
<1>6. \E keys \in SUBSET (Branch \X Memory) : Die(keys) /\ \A j, k \in keys : j = k
  BY <1>2
<1> QED
  BY <1>2, <1>3, <1>5, <1>6 DEF Wreck, Struck, Spared, HalfRead

\* Wherever a crash falls, one key at most is new among the torn, and every other
\* is as it was or has the baseline a read gave it.
LEMMA CrashLeaves ==
  ASSUME Inv, Crash
  PROVE  /\ Wreck /\ Fallen /\ torn' \subseteq Branch \X Memory
         /\ job' \in [Client -> Job] /\ MergeInv'
<1>1. Core /\ MergeInv /\ CoreType /\ clock \in Nat
  BY DEF Inv, Core, CoreType
<1>2. Wreck
  <2>1. CASE CrashAtAwait
    <3>1. Die({}) /\ rows' = rows /\ tombs' = tombs /\ snaps' = snaps
      BY <2>1 DEF CrashAtAwait, tables
    <3> QED
      BY <1>1, <3>1 DEF Wreck, TablesLeft, CoreType, Struck, Spared
  <2>2. ASSUME NEW c \in Client, CrashInUpsert(c) PROVE Wreck
    BY <1>1, <2>2, CutUpsertLeaves
  <2>3. ASSUME NEW c \in Client, CrashInDelete(c) PROVE Wreck
    <3> DEFINE b == job[c].b
               m == job[c].m
               t == job[c].at
    <3>1. /\ OnKey(c, b, m) /\ b \in Branch /\ m \in Memory /\ t \in Nat
          /\ CutDelete(b, m, t) /\ (Present(rows[b][m]) => <<b, m>> \in suspect)
      BY <1>1, <2>3 DEF CrashInDelete, Core, CoreType, Loaded, Running, Job, OnKey, Gone
    <3>2. \E d \in Client : OnKey(d, b, m) /\ t = job[d].at
      BY <3>1
    <3> HIDE DEF b, m, t
    <3> QED
      BY <1>1, <3>1, <3>2, CutDeleteLeaves
  <2>4. ASSUME NEW c \in Client, NEW b \in Branch, NEW m \in Memory, CrashInDeleteAbsent(c, b, m) PROVE Wreck
    <3>1. CutDelete(b, m, clock) /\ ~Present(rows[b][m])
      BY <2>4 DEF CrashInDeleteAbsent
    <3> QED
      BY <1>1, <3>1, CutDeleteLeaves
  <2>5. ASSUME NEW c \in Client, NEW b \in Branch, NEW m \in Memory, CrashInDeleteById(c, b, m) PROVE Wreck
    BY <1>1, <2>5, CutByIdLeaves
  <2>6. ASSUME NEW c \in Client, NEW b \in Branch, CrashInRead(c, b) PROVE Wreck
    BY <1>1, <2>6, CutReadLeaves
  <2> QED
    BY <2>1, <2>2, <2>3, <2>4, <2>5, <2>6 DEF Crash
<1> QED
  BY <1>1, <1>2, DeathFalls DEF Wreck

\* A key a crash struck keeps its invariant: what was cut is torn.
LEMMA StruckKey ==
  ASSUME Core, Fallen, NEW b \in Branch, NEW m \in Memory, Struck(b, m)
  PROVE  KeyOK(b, m)'
<1>1. /\ CoreType /\ KeyOK(b, m) /\ snaps[b][m] \in SUBSET Snapshot /\ rows[b][m].at \in Nat
  BY DEF Core, CoreType, Keys, Row
<1>2. /\ suspect' = suspect /\ (<<b, m>> \in torn => <<b, m>> \in torn')
      /\ InDelete(b, m) => <<b, m>> \in torn'
  BY DEF Fallen
<1>3. CASE Spared(b, m)
  BY <1>1, <1>2, <1>3, UntouchedKey DEF Spared
<1>4. CASE HalfRead(b, m)
  <2>1. CASE snaps'[b][m] = Baseline(snaps[b][m], rows[b][m])
    BY <1>1, <1>2, <1>4, <2>1, BaselineKey DEF HalfRead
  <2>2. CASE snaps'[b][m] = snaps[b][m]
    BY <1>1, <1>2, <1>4, <2>2, UntouchedKey DEF HalfRead
  <2>3. CASE snaps'[b][m] = Close(snaps[b][m], rows[b][m].at)
             /\ Present(rows[b][m]) /\ OpenUpserts(snaps[b][m]) = {} /\ snaps[b][m] # {}
    <3> DEFINE t == rows[b][m].at
    <3>0. snaps'[b][m] = Close(snaps[b][m], t) /\ t \in Nat /\ snaps[b][m] \in SUBSET Snapshot
      BY <1>1, <2>3
    <3> HIDE DEF t
    <3>1. /\ \A s \in snaps'[b][m] : s.until # Open
          /\ OpenUpserts(snaps'[b][m]) = {}
      <4> DEFINE line == snaps[b][m]
      <4>1. line \in SUBSET Snapshot /\ snaps'[b][m] = Close(line, t) /\ t \in Nat
        BY <3>0
      <4> HIDE DEF line
      <4>2. (\A s \in Close(line, t) : s.until # Open) /\ OpenUpserts(Close(line, t)) = {}
        BY <4>1, CloseLine
      <4> QED
        BY <4>1, <4>2, Zenon
    <3>2. OneOpen(snaps[b][m])' /\ NotLost(b, m)'
      BY <3>1 DEF OneOpen, NotLost
    <3>3. ~Consistent(b, m)
      BY <2>3 DEF Consistent, Recorded
    <3>4. Exempt(b, m)'
      BY <1>1, <1>2, <3>3 DEF KeyOK, Exempt
    <3> QED
      BY <3>2, <3>4 DEF KeyOK
  <2>4. \/ snaps'[b][m] = Baseline(snaps[b][m], rows[b][m])
        \/ snaps'[b][m] = snaps[b][m]
        \/ /\ snaps'[b][m] = Close(snaps[b][m], rows[b][m].at)
           /\ Present(rows[b][m]) /\ OpenUpserts(snaps[b][m]) = {} /\ snaps[b][m] # {}
    <3>1. snaps[b][m] = {} => Close(snaps[b][m], rows[b][m].at) = {}
      BY DEF Close
    <3> QED
      BY <1>4, <3>1 DEF HalfRead, CutBaseline
  <2> QED
    BY <2>1, <2>2, <2>3, <2>4
<1>5. ASSUME NEW t \in Nat, HalfWritten(b, m, t) PROVE KeyOK(b, m)'
  <2>1. <<b, m>> \in torn' /\ (snaps'[b][m] = snaps[b][m] \/ snaps'[b][m] = Close(snaps[b][m], t))
    BY <1>5 DEF HalfWritten
  <2>2. OneOpen(snaps[b][m])'
    <3>1. \A s \in Close(snaps[b][m], t) : s.until # Open
      BY <1>1, CloseLine
    <3> QED
      BY <1>1, <2>1, <3>1 DEF KeyOK, OneOpen
  <2> QED
    BY <2>1, <2>2 DEF KeyOK, Exempt, NotLost
<1> QED
  BY <1>3, <1>4, <1>5 DEF Struck

\* A crash, wherever it falls, keeps the invariant.
LEMMA CrashInv == ASSUME Inv, Crash PROVE Inv'
<1>1. Core /\ CoreType /\ TablesLeft /\ Fallen /\ MergeInv'
      /\ torn' \subseteq Branch \X Memory /\ job' \in [Client -> Job]
      /\ \A b \in Branch, m \in Memory : Struck(b, m)
  BY CrashLeaves DEF Inv, Core, Wreck
<1>2. \A c \in Client : ~Running(c)' /\ job'[c].op = "idle"
  BY <1>1, NotRunning DEF Fallen, Running
<1>3. CoreType'
  BY <1>1 DEF CoreType, TablesLeft, Fallen
<1>4. Loaded' /\ Met' /\ Gone'
  BY <1>2 DEF Loaded, Met, Gone
<1>5. \A b \in Branch, m \in Memory : KeyOK(b, m)'
  BY <1>1, StruckKey
<1> QED
  BY <1>1, <1>3, <1>4, <1>5 DEF Inv, Core, Keys

-----------------------------------------------------------------------------
(***************************************************************************)
(* Merges.                                                                 *)
(***************************************************************************)

\* A merge that has dealt with a memory still has read what is left.
LEMMA MergeShrinks ==
  ASSUME MergeInv, NEW c \in Client, merge[c] # Null, NEW m,
         \/ merge' = [merge EXCEPT ![c].ups = @ \ {m}]
         \/ merge' = [merge EXCEPT ![c].dels = @ \ {m}]
  PROVE  MergeInv'
<1>1. merge[c] \in Merge
  BY DEF MergeInv
<1> DEFINE M == merge[c]
<1>2. PICK ups \in SUBSET M.ups, dels \in SUBSET M.dels :
        merge'= [merge EXCEPT ![c] = [source |-> M.source, target |-> M.target,
                   wins |-> M.wins, copy |-> M.copy, ups |-> ups, dels |-> dels]]
  <2>1. CASE merge' = [merge EXCEPT ![c].ups = @ \ {m}]
    <3>1. merge' = [merge EXCEPT ![c] = [source |-> M.source, target |-> M.target,
                     wins |-> M.wins, copy |-> M.copy, ups |-> M.ups \ {m}, dels |-> M.dels]]
      BY <1>1, <2>1 DEF Merge
    <3> QED
      BY <3>1
  <2>2. CASE merge' = [merge EXCEPT ![c].dels = @ \ {m}]
    <3>1. merge' = [merge EXCEPT ![c] = [source |-> M.source, target |-> M.target,
                     wins |-> M.wins, copy |-> M.copy, ups |-> M.ups, dels |-> M.dels \ {m}]]
      BY <1>1, <2>2 DEF Merge
    <3> QED
      BY <3>1
  <2> QED
    BY <2>1, <2>2
<1> DEFINE N == [source |-> M.source, target |-> M.target, wins |-> M.wins,
                 copy |-> M.copy, ups |-> ups, dels |-> dels]
<1>3. N \in Merge /\ N.ups \subseteq M.ups /\ N.copy = M.copy
  BY <1>1 DEF Merge
<1>4. /\ merge' \in [Client -> Merge \cup {Null}]
      /\ merge'[c] = N /\ \A d \in Client \ {c} : merge'[d] = merge[d]
  BY <1>2, <1>3 DEF MergeInv
<1> HIDE DEF N
<1> QED
  BY <1>3, <1>4 DEF MergeInv

\* What a merge is about to write is a row of its target with content.
LEMMA NextRowType ==
  ASSUME MergeInv, NEW c \in Client, NEW m \in Memory, NextRow(c, m)
  PROVE  merge[c].target \in Branch /\ merge[c].copy[m].version \in Version
<1>1. merge[c] \in Merge /\ Present(merge[c].copy[m])
  BY DEF MergeInv, NextRow
<1> QED
  BY <1>1 DEF Merge, Row, Present

\* Every step of a merge keeps the invariant.
LEMMA MergeStepInv ==
  ASSUME Inv, NEW c \in Client, NEW m \in Memory,
         MergeRow(c, m) \/ KeepRow(c, m) \/ MergeDelete(c, m) \/ KeepDeleted(c, m)
  PROVE  Inv'
<1>1. Core /\ MergeInv /\ job[c] = Idle /\ merge[c] # Null
  BY DEF Inv, MergeRow, KeepRow, MergeDelete, KeepDeleted, NextRow, NextDelete
<1>2. MergeInv'
  <2>1. \/ merge' = [merge EXCEPT ![c].ups = @ \ {m}]
        \/ merge' = [merge EXCEPT ![c].dels = @ \ {m}]
    BY DEF MergeRow, KeepRow, MergeDelete, KeepDeleted
  <2> QED
    BY <1>1, <2>1, MergeShrinks
<1>3. CASE MergeRow(c, m)
  <2>1. /\ merge[c].target \in Branch /\ merge[c].copy[m].version \in Version
        /\ StartUpsert(c, merge[c].target, m, merge[c].copy[m].version, Main)
    BY <1>1, <1>3, NextRowType DEF MergeRow
  <2> QED
    BY <1>1, <1>2, <2>1, StartUpsertInv, ModelAssumption DEF Inv
<1>4. CASE MergeDelete(c, m)
  <2>1. merge[c].target \in Branch
    <3>1. merge[c] \in Merge
      BY <1>1 DEF MergeInv
    <3> QED
      BY <3>1 DEF Merge
  <2>2. StartDelete(c, merge[c].target, m) \/ DeleteAbsent(c, merge[c].target, m)
    BY <1>4 DEF MergeDelete
  <2> QED
    BY <1>1, <1>2, <2>1, <2>2, StartDeleteInv, DeleteAbsentInv DEF Inv
<1>5. CASE KeepRow(c, m) \/ KeepDeleted(c, m)
  <2>1. UNCHANGED <<clock, tables, job, suspect, torn>>
    BY <1>5 DEF KeepRow, KeepDeleted
  <2>2. clock' \in Nat /\ parent' \in [Branch -> Branch \cup {Null}] /\ job' \in [Client -> Job]
    BY <1>1, <2>1 DEF tables, Core, CoreType
  <2> QED
    BY <1>1, <1>2, <2>1, <2>2, QuietInv DEF Inv, tables
<1> QED
  BY <1>3, <1>4, <1>5

\* A merge begins with the source's rows as they are.
LEMMA BeginMergeInv ==
  ASSUME Inv, NEW c \in Client, NEW source \in Branch, NEW target \in Branch,
         NEW wins \in Strategies, BeginMerge(c, source, target, wins)
  PROVE  Inv'
<1>1. Core /\ MergeInv /\ CoreType
  BY DEF Inv, Core
<1>2. /\ parent' \in [Branch -> Branch \cup {Null}] /\ clock' \in Nat
      /\ job' \in [Client -> Job]
  BY <1>1, ModelAssumption DEF BeginMerge, Ensure, CoreType
<1>3. Core'
  BY <1>1, <1>2, QuietInv DEF BeginMerge
<1> DEFINE M == [source |-> source, target |-> target, wins |-> wins, copy |-> rows[source],
                 ups |-> {m \in Memory : Present(rows[source][m])}, dels |-> tombs[source]]
<1>4. M \in Merge /\ \A m \in M.ups : Present(M.copy[m])
  BY <1>1, ServiceAssumption DEF Merge, CoreType
<1>5. merge' = [merge EXCEPT ![c] = M]
  BY DEF BeginMerge
<1> HIDE DEF M
<1>6. MergeInv'
  BY <1>1, <1>4, <1>5 DEF MergeInv
<1> QED
  BY <1>3, <1>6 DEF Inv

-----------------------------------------------------------------------------
(***************************************************************************)
(* The theorems.                                                           *)
(***************************************************************************)

\* A database as the program finds it, legacy rows included.
LEMMA InvInit == Init => Inv
<1> SUFFICES ASSUME Init PROVE Inv
  OBVIOUS
<1>1. PICK content \in [Legacy -> Version] :
        rows = [b \in Branch |-> [m \in Memory |->
                  IF b = Main /\ m \in Legacy
                  THEN [version |-> content[m], at |-> 0] ELSE NoRow]]
  BY DEF Init
<1>2. \A m \in Legacy : [version |-> content[m], at |-> 0] \in Row
  BY DEF Row
<1>3. rows \in [Branch -> [Memory -> Row]]
  BY <1>1, <1>2, Values
<1>4. CoreType
  BY <1>3, Values, ModelAssumption DEF Init, CoreType
<1>5. \A c \in Client : job[c].op = "idle"
  BY NotRunning DEF Init
<1>6. Loaded /\ Met /\ Gone
  BY <1>5 DEF Loaded, Met, Gone, Running
<1>7. ASSUME NEW b \in Branch, NEW m \in Memory
      PROVE  KeyOK(b, m)
  <2>1. snaps[b][m] = {} /\ m \notin tombs[b]
    BY DEF Init
  <2>2. Present(rows[b][m]) => b = Main /\ m \in Legacy
    BY <1>1 DEF NoRow, Present
  <2> QED
    BY <2>1, <2>2 DEF KeyOK, OneOpen, Consistent, Recorded, NotLost, OpenUpserts, OpenDeletes
<1>8. MergeInv
  BY DEF Init, MergeInv
<1> QED
  BY <1>4, <1>6, <1>7, <1>8 DEF Inv, Core, Keys

\* A request that is no merge keeps the invariant.
LEMMA RequestInv ==
  ASSUME Inv, NEW c \in Client, NEW b \in Branch
  PROVE  /\ \A from \in Branch : CreateBranch(c, b, from) => Inv'
         /\ \A from \in Branch, m \in Memory, v \in Version :
              RequestUpsert(c, b, m, v, from) => Inv'
         /\ \A m \in Memory : RequestDelete(c, b, m) \/ DeleteById(c, b, m) => Inv'
         /\ TemporalRead(c, b) => Inv'
<1>1. Core /\ MergeInv /\ CoreType
  BY DEF Inv, Core
<1>2. ASSUME Request(c)
      PROVE  job[c] = Idle /\ MergeInv'
  BY <1>1, <1>2 DEF Request, Free, MergeInv
<1>3. ASSUME NEW from \in Branch, CreateBranch(c, b, from)
      PROVE  Inv'
  <2>1. /\ parent' \in [Branch -> Branch \cup {Null}] /\ clock' \in Nat
        /\ job' \in [Client -> Job]
    BY <1>1, <1>3 DEF CreateBranch, Ensure, CoreType
  <2>2. Core'
    BY <1>1, <1>3, <2>1, QuietInv DEF CreateBranch
  <2> QED
    BY <1>2, <1>3, <2>2 DEF Inv, CreateBranch
<1>4. ASSUME NEW from \in Branch, NEW m \in Memory, NEW v \in Version,
             RequestUpsert(c, b, m, v, from)
      PROVE  Inv'
  BY <1>1, <1>2, <1>4, StartUpsertInv DEF Inv, RequestUpsert
<1>5. ASSUME NEW m \in Memory, RequestDelete(c, b, m)
      PROVE  Inv'
  BY <1>1, <1>2, <1>5, StartDeleteInv, DeleteAbsentInv DEF Inv, RequestDelete
<1>6. ASSUME NEW m \in Memory, DeleteById(c, b, m)
      PROVE  Inv'
  <2>1. Core'
    BY <1>1, <1>6, DeleteByIdInv
  <2> QED
    BY <1>2, <1>6, <2>1 DEF Inv, DeleteById
<1>7. ASSUME TemporalRead(c, b)
      PROVE  Inv'
  <2>1. Core'
    BY <1>1, <1>7, TemporalReadInv
  <2> QED
    BY <1>2, <1>7, <2>1 DEF Inv, TemporalRead
<1> QED
  BY <1>3, <1>4, <1>5, <1>6, <1>7

\* A request in progress keeps it, and so does a merge that ends.
LEMMA ProgressInv ==
  ASSUME Inv, NEW c \in Client, WriteUpsert(c) \/ WriteDelete(c) \/ Return(c) \/ EndMerge(c)
  PROVE  Inv'
<1>1. Core /\ MergeInv /\ CoreType
  BY DEF Inv, Core
<1>2. CASE WriteUpsert(c)
  BY <1>1, <1>2, WriteUpsertInv DEF Inv, MergeInv, WriteUpsert
<1>3. CASE WriteDelete(c)
  BY <1>1, <1>3, WriteDeleteInv DEF Inv, MergeInv, WriteDelete
<1>4. CASE Return(c)
  <2>1. /\ rows' = rows /\ tombs' = tombs /\ snaps' = snaps /\ suspect' = suspect
        /\ torn' = torn /\ clock' \in Nat /\ parent' \in [Branch -> Branch \cup {Null}]
        /\ merge' = merge
    BY <1>1, <1>4 DEF Return, tables, CoreType
  <2>2. ~Running(c) /\ job' = [job EXCEPT ![c] = Idle]
    BY <1>4 DEF Return, Running
  <2>3. /\ job' \in [Client -> Job]
        /\ \A d \in Client : job'[d] = job[d] \/ (job'[d] = Idle /\ ~Running(d))
    BY <1>1, <2>2, Values DEF CoreType
  <2> QED
    BY <1>1, <2>1, <2>3, QuietInv DEF Inv, MergeInv
<1>5. CASE EndMerge(c)
  <2>1. /\ UNCHANGED <<clock, parent, rows, tombs, snaps, job, suspect, torn>>
        /\ merge' = [merge EXCEPT ![c] = Null]
    BY <1>5 DEF EndMerge, tables
  <2>2. MergeInv'
    BY <1>1, <2>1 DEF MergeInv
  <2>3. /\ clock' \in Nat /\ parent' \in [Branch -> Branch \cup {Null}]
        /\ job' \in [Client -> Job]
    BY <1>1, <2>1 DEF CoreType
  <2> QED
    BY <1>1, <2>1, <2>2, <2>3, QuietInv DEF Inv
<1> QED
  BY <1>2, <1>3, <1>4, <1>5

\* Every step keeps the invariant.
LEMMA InvNext == Inv /\ [Next]_vars => Inv'
<1> SUFFICES ASSUME Inv, [Next]_vars PROVE Inv'
  OBVIOUS
<1>1. Core /\ MergeInv /\ CoreType
  BY DEF Inv, Core
<1>2. CASE Tick \/ UNCHANGED vars
  <2>1. /\ UNCHANGED <<parent, rows, tombs, snaps, job, merge, suspect, torn>>
        /\ clock' \in Nat
    BY <1>1, <1>2 DEF Tick, vars, tables, CoreType
  <2>2. parent' \in [Branch -> Branch \cup {Null}] /\ job' \in [Client -> Job]
    BY <1>1, <2>1 DEF CoreType
  <2> QED
    BY <1>1, <2>1, <2>2, QuietInv DEF Inv, MergeInv
<1>3. CASE Crash
  BY <1>3, CrashInv
<1> QED
  BY <1>2, <1>3, RequestInv, ProgressInv, MergeStepInv, BeginMergeInv DEF Next

\* Tables, jobs, merges and ghosts keep their types.
THEOREM TypeCorrect == Spec => []TypeOK
<1>1. Inv => TypeOK
  BY DEF Inv, Core, CoreType, MergeInv, TypeOK
<1> QED
  BY <1>1, InvInit, InvNext, PTL DEF Spec

\* Requests that overlap and crashes between any two statements harm no key but
\* those two requests met on and those whose last write, upsert or delete, a crash
\* cut short, until they are written again: of all others rows, tombstones and
\* timelines agree, and no key ever has two open snapshots.
THEOREM DamageConfined == Spec => []LedgerUnlessSuspect
<1>1. Inv => LedgerUnlessSuspect
  BY DEF Inv, Core, Keys, KeyOK, OneOpen, Exempt, Consistent, Recorded, LedgerUnlessSuspect
<1> QED
  BY <1>1, InvInit, InvNext, PTL DEF Spec

\* However requests overlap and wherever a crash falls, a row that is gone while
\* its timeline says otherwise is one a delete is about to record or a crash kept
\* it from recording.
THEOREM DeletesRecorded == Spec => []NoLostDelete
<1>1. Inv => NoLostDelete
  BY DEF Inv, Core, Keys, KeyOK, NotLost, NoLostDelete
<1> QED
  BY <1>1, InvInit, InvNext, PTL DEF Spec
-----------------------------------------------------------------------------
(***************************************************************************)
(* The past before the requests in flight.                                 *)
(***************************************************************************)

\* Timelines and rows are of the past; of a key no two requests met on, torn or
\* not, at no instant are two snapshots valid, and both a request in flight and a
\* read that finds the row without a snapshot will write at the end of its timeline.
KeyPast(b, m) ==
  /\ Past(snaps[b][m], clock) /\ rows[b][m].at <= clock
  /\ <<b, m>> \notin suspect =>
       /\ Single(snaps[b][m])
       /\ Present(rows[b][m]) /\ OpenUpserts(snaps[b][m]) = {} => Past(snaps[b][m], rows[b][m].at)
       /\ \A c \in Client : OnKey(c, b, m) =>
            Past(snaps[b][m], job[c].at) /\ rows[b][m].at <= job[c].at

PastInv ==
  /\ \A c \in Client : Running(c) => job[c].at <= clock
  /\ \A b \in Branch, m \in Memory : KeyPast(b, m)

\* What a step does to a key: nothing to its timeline,
Stays(b, m) ==
  snaps'[b][m] = snaps[b][m] /\ (rows'[b][m] = rows[b][m] \/ rows'[b][m] = NoRow)

\* the write of the request that is in flight on it,
WrittenBy(c, b, m) ==
  /\ OnKey(c, b, m) /\ ~Running(c)'
  /\ UNCHANGED <<clock, suspect>> /\ \A d \in Client \ {c} : job'[d] = job[d]
  /\ \/ \E v \in Version :
          /\ snaps'[b][m] = Written(snaps[b][m], "upsert", v, job[c].at)
          /\ rows'[b][m] = [version |-> v, at |-> job[c].at]
     \/ /\ snaps'[b][m] = Written(snaps[b][m], "delete", Null, job[c].at)
        /\ rows'[b][m] = rows[b][m] /\ job[c].op = "delete"

\* a delete at once, alone on the key,
DeletedNow(b, m) ==
  /\ snaps'[b][m] = Written(snaps[b][m], "delete", Null, clock)
  /\ rows'[b][m] = NoRow \/ (rows'[b][m] = rows[b][m] /\ ~Present(rows[b][m]))
  /\ clock' = clock
  /\ (\A c \in Client : ~OnKey(c, b, m)) \/ <<b, m>> \in suspect'

\* the baseline a temporal read writes,
BaseWritten(b, m) ==
  /\ snaps'[b][m] = Baseline(snaps[b][m], rows[b][m])
  /\ rows'[b][m] = rows[b][m]
  /\ UNCHANGED <<clock, job, suspect>>

\* or what a crash leaves of it.
CutShort(b, m) ==
  /\ Struck(b, m)
  /\ UNCHANGED <<clock, suspect>> /\ \A c \in Client : ~Running(c)'

KeyStep(b, m) ==
  \/ Stays(b, m) \/ DeletedNow(b, m) \/ BaseWritten(b, m) \/ CutShort(b, m)
  \/ \E c \in Client : WrittenBy(c, b, m)

\* Requests that begin are stamped with the clock; time and suspects only grow.
Flow ==
  /\ clock \in Nat /\ clock' \in Nat /\ clock <= clock'
  /\ suspect \subseteq suspect'
  /\ \A c \in Client : Running(c)' => job'[c] = job[c] \/ job'[c].at = clock

-----------------------------------------------------------------------------
\* A request begins.
LEMMA BeginStep ==
  ASSUME CoreType, NEW c \in Client, job[c] = Idle, NEW b \in Branch, NEW m \in Memory,
         NEW k \in Branch, NEW n \in Memory
  PROVE  /\ \A v \in Version, from \in Branch :
              StartUpsert(c, b, m, v, from) => Flow /\ KeyStep(k, n)
         /\ StartDelete(c, b, m) \/ DeleteAbsent(c, b, m) => Flow /\ KeyStep(k, n)
<1>1. clock \in Nat /\ ~Running(c)
  BY NotRunning DEF CoreType, Running
<1>2. ASSUME NEW j, job' = [job EXCEPT ![c] = j], j.op \in Op, j.at = clock, clock' = clock, Mark(c, b, m)
      PROVE  Flow
  <2>1. job'[c] = j /\ \A d \in Client \ {c} : job'[d] = job[d]
    BY <1>2 DEF CoreType
  <2> QED
    BY <1>1, <1>2, <2>1 DEF Flow, Mark
<1>3. ASSUME NEW v \in Version, NEW from \in Branch, StartUpsert(c, b, m, v, from)
      PROVE  Flow /\ KeyStep(k, n)
  <2> DEFINE j == [op |-> "upsert", b |-> b, m |-> m, v |-> v, at |-> clock, row |-> NoRow]
  <2>1. job' = [job EXCEPT ![c] = j] /\ j.op \in Op /\ j.at = clock
    BY <1>3 DEF StartUpsert, Op
  <2> HIDE DEF j
  <2>2. Flow
    BY <1>2, <1>3, <2>1 DEF StartUpsert
  <2> QED
    BY <1>3, <2>2 DEF StartUpsert, KeyStep, Stays
<1>4. ASSUME StartDelete(c, b, m)
      PROVE  Flow /\ KeyStep(k, n)
  <2> DEFINE j == [op |-> "delete", b |-> b, m |-> m, v |-> Null, at |-> clock, row |-> rows[b][m]]
  <2>1. job' = [job EXCEPT ![c] = j] /\ j.op \in Op /\ j.at = clock
    BY <1>4 DEF StartDelete, Op
  <2> HIDE DEF j
  <2>2. Flow
    BY <1>2, <1>4, <2>1 DEF StartDelete
  <2>3. Stays(k, n)
    BY <1>4 DEF StartDelete, Stays, CoreType
  <2> QED
    BY <2>2, <2>3 DEF KeyStep
<1>5. ASSUME DeleteAbsent(c, b, m)
      PROVE  Flow /\ KeyStep(k, n)
  <2>1. /\ job' = [job EXCEPT ![c] = Done(clock)] /\ Done(clock).op \in Op /\ Done(clock).at = clock
        /\ clock' = clock /\ rows' = rows /\ Mark(c, b, m) /\ ~Present(rows[b][m])
        /\ snaps' = [snaps EXCEPT ![b][m] = DeleteAt(@, clock)]
    BY <1>5 DEF DeleteAbsent, Op, Done, Idle
  <2>2. Flow
    BY <1>2, <2>1
  <2>3. CASE k = b /\ n = m
    <3>1. snaps'[b][m] = Written(snaps[b][m], "delete", Null, clock)
      BY <2>1, WriteForms DEF CoreType
    <3>2. (\A d \in Client : ~OnKey(d, b, m)) \/ <<b, m>> \in suspect'
      BY <1>1, <2>1 DEF Mark, Clash, OnKey
    <3> QED
      BY <2>1, <2>2, <2>3, <3>1, <3>2 DEF DeletedNow, KeyStep
  <2>4. CASE ~(k = b /\ n = m)
    BY <2>1, <2>2, <2>4 DEF Stays, KeyStep, CoreType
  <2> QED
    BY <2>3, <2>4
<1> QED
  BY <1>3, <1>4, <1>5

\* A request writes.
LEMMA WriteStep ==
  ASSUME CoreType, Loaded, NEW c \in Client, WriteUpsert(c) \/ WriteDelete(c),
         NEW k \in Branch, NEW n \in Memory
  PROVE  Flow /\ KeyStep(k, n)
<1> DEFINE b == job[c].b
           m == job[c].m
           t == job[c].at
<1>1. /\ clock \in Nat /\ clock' = clock /\ suspect' = suspect
      /\ job' = [job EXCEPT ![c] = Done(t)]
      /\ Running(c) /\ b \in Branch /\ m \in Memory
  BY DEF CoreType, Loaded, Running, WriteUpsert, WriteDelete, Job
<1>2. /\ job'[c] = Done(t) /\ \A d \in Client \ {c} : job'[d] = job[d]
      /\ ~Running(c)'
  BY <1>1, NotRunning DEF CoreType, Running
<1> HIDE DEF b, m, t
<1>3. Flow
  BY <1>1, <1>2 DEF Flow, Running
<1>4. OnKey(c, b, m)
  BY <1>1 DEF OnKey, b, m
<1>5. CASE WriteUpsert(c)
  <2>1. /\ job[c].v \in Version
        /\ rows' = [rows EXCEPT ![b][m] = [version |-> job[c].v, at |-> t]]
        /\ snaps' = [snaps EXCEPT ![b][m] = UpsertAt(@, job[c].v, t)]
    BY <1>5 DEF WriteUpsert, Loaded, b, m, t
  <2>2. CASE k = b /\ n = m
    <3>1. /\ rows'[b][m] = [version |-> job[c].v, at |-> t]
          /\ snaps'[b][m] = Written(snaps[b][m], "upsert", job[c].v, t)
      BY <1>1, <2>1, WriteForms DEF CoreType
    <3>2. WrittenBy(c, b, m)
      BY <1>1, <1>2, <1>4, <2>1, <3>1 DEF WrittenBy, t
    <3> QED
      BY <1>3, <2>2, <3>2 DEF KeyStep
  <2>3. CASE ~(k = b /\ n = m)
    BY <1>1, <1>3, <2>1, <2>3 DEF Stays, KeyStep, CoreType
  <2> QED
    BY <2>2, <2>3
<1>6. CASE WriteDelete(c)
  <2>1. /\ job[c].op = "delete" /\ rows' = rows
        /\ snaps' = [snaps EXCEPT ![b][m] = DeleteAt(@, t)]
    BY <1>6 DEF WriteDelete, b, m, t
  <2>2. CASE k = b /\ n = m
    <3>1. snaps'[b][m] = Written(snaps[b][m], "delete", Null, t)
      BY <1>1, <2>1, WriteForms DEF CoreType
    <3>2. WrittenBy(c, b, m)
      BY <1>1, <1>2, <1>4, <2>1, <3>1 DEF WrittenBy, t
    <3> QED
      BY <1>3, <2>2, <3>2 DEF KeyStep
  <2>3. CASE ~(k = b /\ n = m)
    BY <1>1, <1>3, <2>1, <2>3 DEF Stays, KeyStep, CoreType
  <2> QED
    BY <2>2, <2>3
<1> QED
  BY <1>5, <1>6

\* A delete by id, and a temporal read.
LEMMA AtOnceStep ==
  ASSUME CoreType, NEW c \in Client, NEW b \in Branch, NEW k \in Branch, NEW n \in Memory
  PROVE  /\ \A m \in Memory : DeleteById(c, b, m) => Flow /\ KeyStep(k, n)
         /\ TemporalRead(c, b) => Flow /\ KeyStep(k, n)
<1>1. ASSUME NEW m \in Memory, DeleteById(c, b, m)
      PROVE  Flow /\ KeyStep(k, n)
  <2>1. /\ clock' = clock /\ job' = job /\ Mark(c, b, m) /\ ~Running(c)
        /\ rows' = [rows EXCEPT ![b][m] = NoRow]
        /\ snaps' = [snaps EXCEPT ![b][m] = DeleteAt(@, clock)]
    BY <1>1, NotRunning DEF DeleteById, Request, Free, Running
  <2>2. Flow
    BY <2>1 DEF Flow, Mark, CoreType
  <2>3. CASE k = b /\ n = m
    <3>1. snaps'[b][m] = Written(snaps[b][m], "delete", Null, clock) /\ rows'[b][m] = NoRow
      BY <2>1, WriteForms DEF CoreType
    <3>2. (\A d \in Client : ~OnKey(d, b, m)) \/ <<b, m>> \in suspect'
      BY <2>1 DEF Mark, Clash, OnKey
    <3>3. clock' = clock
      BY <2>1
    <3>4. DeletedNow(b, m)
      BY <3>1, <3>2, <3>3 DEF DeletedNow
    <3> QED
      BY <2>2, <2>3, <3>4 DEF KeyStep
  <2>4. CASE ~(k = b /\ n = m)
    BY <2>1, <2>2, <2>4 DEF Stays, KeyStep, CoreType
  <2> QED
    BY <2>3, <2>4
<1>2. ASSUME TemporalRead(c, b)
      PROVE  Flow /\ KeyStep(k, n)
  <2>1. /\ rows' = rows /\ UNCHANGED <<clock, job, suspect>>
        /\ snaps'[k][n] = Baseline(snaps[k][n], rows[k][n]) \/ snaps'[k][n] = snaps[k][n]
    BY <1>2 DEF TemporalRead
  <2>2. Flow
    BY <2>1 DEF Flow, CoreType
  <2> QED
    BY <2>1, <2>2 DEF BaseWritten, Stays, KeyStep
<1> QED
  BY <1>1, <1>2

\* The tables and the requests in flight stay, but for one that is answered.
LEMMA QuietStep ==
  ASSUME CoreType, UNCHANGED <<rows, snaps>>, clock' \in Nat, clock <= clock',
         suspect \subseteq suspect',
         \A c \in Client : job'[c] = job[c] \/ ~Running(c)',
         NEW k \in Branch, NEW n \in Memory
  PROVE  Flow /\ KeyStep(k, n)
  BY DEF Flow, KeyStep, Stays, CoreType

\* Every step is of these kinds.
LEMMA StepsFlow ==
  ASSUME Inv, [Next]_vars, NEW k \in Branch, NEW n \in Memory
  PROVE  Flow /\ KeyStep(k, n)
<1>1. CoreType /\ Loaded /\ MergeInv /\ clock \in Nat
  BY DEF Inv, Core, CoreType
<1>2. CASE UNCHANGED vars
  BY <1>1, <1>2, QuietStep DEF vars, tables
<1>3. CASE Tick
  BY <1>1, <1>3, QuietStep DEF Tick, tables
<1>4. CASE Crash
  <2>1. Struck(k, n) /\ Fallen
    BY <1>4, CrashLeaves DEF Wreck
  <2>2. \A c \in Client : ~Running(c)'
    BY <2>1, NotRunning DEF Fallen, Running
  <2>3. Flow /\ CutShort(k, n)
    BY <1>1, <2>1, <2>2 DEF Fallen, Flow, CutShort
  <2> QED
    BY <2>3 DEF KeyStep
<1>5. ASSUME NEW c \in Client, WriteUpsert(c) \/ WriteDelete(c)
      PROVE  Flow /\ KeyStep(k, n)
  BY <1>1, <1>5, WriteStep
<1>6. ASSUME NEW c \in Client, Return(c)
      PROVE  Flow /\ KeyStep(k, n)
  <2>1. \A d \in Client : job'[d] = job[d] \/ ~Running(d)'
    BY <1>1, <1>6, NotRunning DEF Return, Running, CoreType
  <2> QED
    BY <1>1, <1>6, <2>1, QuietStep DEF Return, tables
<1>7. ASSUME NEW c \in Client,
             \/ EndMerge(c) \/ \E m \in Memory : KeepRow(c, m) \/ KeepDeleted(c, m)
             \/ \E b, from \in Branch : CreateBranch(c, b, from)
             \/ \E source, target \in Branch, wins \in Strategies : BeginMerge(c, source, target, wins)
      PROVE  Flow /\ KeyStep(k, n)
  <2>1. UNCHANGED <<clock, rows, snaps, job, suspect>>
    BY <1>7 DEF EndMerge, KeepRow, KeepDeleted, CreateBranch, BeginMerge, tables
  <2> QED
    BY <1>1, <2>1, QuietStep
<1>8. ASSUME NEW c \in Client, NEW m \in Memory, MergeRow(c, m)
      PROVE  Flow /\ KeyStep(k, n)
  <2>1. /\ job[c] = Idle /\ merge[c] \in Merge /\ m \in merge[c].ups
        /\ StartUpsert(c, merge[c].target, m, merge[c].copy[m].version, Main)
    BY <1>1, <1>8 DEF MergeRow, NextRow, MergeInv
  <2>2. merge[c].target \in Branch /\ merge[c].copy[m].version \in Version
    BY <1>1, <1>8, NextRowType DEF MergeRow
  <2> QED
    BY <1>1, <2>1, <2>2, BeginStep, ModelAssumption
<1>9. ASSUME NEW c \in Client, NEW m \in Memory, MergeDelete(c, m)
      PROVE  Flow /\ KeyStep(k, n)
  <2>1. /\ job[c] = Idle /\ merge[c].target \in Branch
        /\ StartDelete(c, merge[c].target, m) \/ DeleteAbsent(c, merge[c].target, m)
    BY <1>1, <1>9 DEF MergeDelete, NextDelete, MergeInv, Merge
  <2> QED
    BY <1>1, <2>1, BeginStep
<1>10. ASSUME NEW c \in Client, NEW b \in Branch, NEW from \in Branch, NEW m \in Memory,
              NEW v \in Version, RequestUpsert(c, b, m, v, from)
       PROVE  Flow /\ KeyStep(k, n)
  BY <1>1, <1>10, BeginStep DEF RequestUpsert, Request, Free
<1>11. ASSUME NEW c \in Client, NEW b \in Branch, NEW m \in Memory, RequestDelete(c, b, m)
       PROVE  Flow /\ KeyStep(k, n)
  BY <1>1, <1>11, BeginStep DEF RequestDelete, Request, Free
<1>12. ASSUME NEW c \in Client, NEW b \in Branch,
              TemporalRead(c, b) \/ \E m \in Memory : DeleteById(c, b, m)
       PROVE  Flow /\ KeyStep(k, n)
  BY <1>1, <1>12, AtOnceStep
<1> QED
  BY <1>2, <1>3, <1>4, <1>5, <1>6, <1>7, <1>8, <1>9, <1>10, <1>11, <1>12 DEF Next

-----------------------------------------------------------------------------
\* A write leaves every snapshot in the past of any later instant.
LEMMA WriteBounded ==
  ASSUME NEW line \in SUBSET Snapshot, NEW t \in Nat, NEW n \in Nat, t <= n,
         NEW op \in {"upsert", "delete"}, NEW v \in Version \cup {Null}, Past(line, n)
  PROVE  Past(Written(line, op, v, t), n) /\ Written(line, op, v, t) # {}
<1>1. \A r \in line : /\ Closed(r, t).from = r.from /\ r.from <= n /\ r.until <= n
                      /\ Closed(r, t).until = IF r.until = Open THEN t ELSE r.until
  BY ClosedType DEF Past, Snapshot
<1>2. Fresh(op, v, t).from = t /\ Fresh(op, v, t).until = Open
  BY DEF Fresh
<1>3. \A s \in Written(line, op, v, t) :
        s = Fresh(op, v, t) \/ \E r \in line : s = Closed(r, t)
  BY WriteOld
<1>4. Past(Written(line, op, v, t), n)
  BY <1>1, <1>2, <1>3 DEF Past, Open
<1> QED
  BY <1>4, WriteLine

\* A key that is recorded, and no two requests met on, reads as its timeline says.
LEMMA SettledKey ==
  ASSUME Inv, NEW b \in Branch, NEW m \in Memory, <<b, m>> \notin suspect \cup torn
  PROVE  /\ Present(rows[b][m]) => ~InDelete(b, m)
         /\ snaps[b][m] = {} \/ Baseline(snaps[b][m], rows[b][m]) = snaps[b][m]
<1>1. KeyOK(b, m) /\ Gone
  BY DEF Inv, Core, Keys
<1>2. Present(rows[b][m]) => ~InDelete(b, m)
  BY <1>1 DEF Gone, InDelete
<1>3. ASSUME Present(rows[b][m]), snaps[b][m] # {}
      PROVE  OpenUpserts(snaps[b][m]) # {}
  BY <1>1, <1>2, <1>3 DEF KeyOK, Exempt, Consistent, Recorded
<1> QED
  BY <1>2, <1>3 DEF Baseline

\* After an upsert or a baseline there is an open upsert.
LEMMA UpsertOpens ==
  ASSUME NEW line \in SUBSET Snapshot, NEW v \in Version \cup {Null}, NEW t \in Nat
  PROVE  OpenUpserts(UpsertAt(line, v, t)) # {}
<1>1. OpenUpserts(UpsertAt(line, v, t)) = {Fresh("upsert", v, t)}
  BY UpsertLine
<1> QED
  BY <1>1

\* A timeline's end can only move to a later instant.
LEMMA PastGrows ==
  ASSUME NEW line \in SUBSET Snapshot, NEW t \in Nat, NEW n \in Nat, t <= n, Past(line, t)
  PROVE  Past(line, n)
<1>1. \A r \in line : r.from \in Nat /\ (r.until \in Nat \/ r.until = Open) /\ r.from <= t /\ r.until <= t
  BY DEF Past, Snapshot
<1> QED
  BY <1>1 DEF Past, Open

\* What a crash leaves of the past of a key.
LEMMA CutPast ==
  ASSUME CoreType, Gone, NEW b \in Branch, NEW m \in Memory, KeyPast(b, m), CutShort(b, m),
         \A c \in Client : Running(c) => job[c].at <= clock
  PROVE  KeyPast(b, m)'
<1> DEFINE line == snaps[b][m]
           row == rows[b][m]
<1>1. /\ line \in SUBSET Snapshot /\ row \in Row /\ row.at \in Nat /\ clock \in Nat
      /\ clock' = clock /\ suspect' = suspect /\ \A c \in Client : ~OnKey(c, b, m)'
      /\ Past(line, clock) /\ row.at <= clock
  BY DEF CoreType, Row, CutShort, OnKey, KeyPast
<1>2. <<b, m>> \notin suspect =>
        /\ Single(line) /\ (Present(row) /\ OpenUpserts(line) = {} => Past(line, row.at))
        /\ \A c \in Client : OnKey(c, b, m) => Past(line, job[c].at)
  BY DEF KeyPast
<1>3. CASE Spared(b, m)
  BY <1>1, <1>2, <1>3 DEF Spared, KeyPast
<1>4. CASE HalfRead(b, m)
  <2>1. rows'[b][m] = row
        /\ (snaps'[b][m] = Baseline(line, row) \/ snaps'[b][m] = CutBaseline(line, row))
    BY <1>4 DEF HalfRead
  <2> HIDE DEF line, row
  <2>2. CASE snaps'[b][m] = line
    BY <1>1, <1>2, <2>1, <2>2 DEF KeyPast, line, row
  <2>3. CASE Present(row) /\ OpenUpserts(line) = {} /\ snaps'[b][m] = UpsertAt(line, row.version, row.at)
    <3>1. row.version \in Version \cup {Null} /\ row.at \in Nat
      BY <1>1 DEF Row
    <3>2. snaps'[b][m] = Written(line, "upsert", row.version, row.at)
      BY <2>3, <3>1, WriteForms
    <3>3. Past(snaps'[b][m], clock)
      BY <1>1, <3>1, <3>2, WriteBounded
    <3>4. <<b, m>> \notin suspect => Single(snaps'[b][m])
      <4>1. SUFFICES ASSUME <<b, m>> \notin suspect PROVE Single(snaps'[b][m])
        OBVIOUS
      <4>2. Single(line) /\ Past(line, row.at)
        BY <1>2, <2>3, <4>1
      <4> QED
        BY <1>1, <3>1, <3>2, <4>2, WritePast
    <3>5. OpenUpserts(snaps'[b][m]) # {}
      BY <1>1, <2>3, <3>1, UpsertOpens
    <3> QED
      BY <1>1, <2>1, <3>3, <3>4, <3>5 DEF KeyPast, line, row
  <2>4. CASE Present(row) /\ OpenUpserts(line) = {} /\ snaps'[b][m] = Close(line, row.at)
    <3>1. Past(snaps'[b][m], clock)
      BY <1>1, <2>4, CloseLine
    <3>2. <<b, m>> \notin suspect => Single(snaps'[b][m]) /\ Past(snaps'[b][m], row.at)
      <4>1. SUFFICES ASSUME <<b, m>> \notin suspect
                     PROVE  Single(snaps'[b][m]) /\ Past(snaps'[b][m], row.at)
        OBVIOUS
      <4>2. Single(line) /\ Past(line, row.at) /\ row.at <= row.at
        BY <1>1, <1>2, <2>4, <4>1
      <4> QED
        <5> DEFINE at == row.at
        <5>1. at \in Nat /\ at <= at /\ Past(line, at) /\ Single(line) /\ snaps'[b][m] = Close(line, at)
          BY <1>1, <2>4, <4>2
        <5> HIDE DEF at
        <5>2. Single(Close(line, at)) /\ Past(Close(line, at), at)
          BY <1>1, <5>1, CloseLine, ClosePast
        <5> QED
          BY <5>1, <5>2 DEF at
    <3> QED
      BY <1>1, <2>1, <3>1, <3>2 DEF KeyPast, line, row
  <2> QED
    BY <2>1, <2>2, <2>3, <2>4, Zenon DEF Baseline, CutBaseline
<1>5. ASSUME NEW t \in Nat, HalfWritten(b, m, t) PROVE KeyPast(b, m)'
  <2>1. /\ t = clock \/ \E c \in Client : OnKey(c, b, m) /\ t = job[c].at
        /\ snaps'[b][m] = line \/ snaps'[b][m] = Close(line, t)
        /\ \/ rows'[b][m] = NoRow
           \/ rows'[b][m] = row /\ (Present(row) => <<b, m>> \in suspect)
           \/ \E v \in Version : rows'[b][m] = [version |-> v, at |-> t]
    BY <1>5 DEF HalfWritten
  <2>2. t <= clock /\ (<<b, m>> \notin suspect => Past(line, t))
    <3>1. t <= clock
      BY <1>1, <2>1 DEF OnKey
    <3> QED
      BY <1>1, <1>2, <2>1, <3>1, Zenon
  <2> HIDE DEF line, row
  <2>3. Past(snaps'[b][m], clock)
    <3>1. Past(Close(line, t), clock)
      <4>1. line \in SUBSET Snapshot /\ clock \in Nat /\ t <= clock /\ Past(line, clock)
        BY <1>1, <2>2
      <4> QED
        BY <4>1, CloseLine
    <3> QED
      BY <1>1, <2>1, <3>1, Zenon
  <2>4. ASSUME <<b, m>> \notin suspect PROVE Single(snaps'[b][m]) /\ Past(snaps'[b][m], t)
    <3>1. Single(line) /\ Past(line, t) /\ t <= t
      BY <1>2, <2>2, <2>4
    <3>2. Single(Close(line, t)) /\ Past(Close(line, t), t)
      BY <1>1, <3>1, CloseLine, ClosePast
    <3> QED
      BY <2>1, <3>1, <3>2, Zenon
  <2>5. /\ rows'[b][m].at <= clock
        /\ Present(rows'[b][m]) /\ <<b, m>> \notin suspect => rows'[b][m].at = t
    <3>1. CASE rows'[b][m] = NoRow
      BY <1>1, <3>1 DEF NoRow, Present
    <3>2. CASE rows'[b][m] = row /\ (Present(row) => <<b, m>> \in suspect)
      BY <1>1, <3>2
    <3>3. CASE \E v \in Version : rows'[b][m] = [version |-> v, at |-> t]
      BY <2>2, <3>3
    <3> QED
      BY <2>1, <3>1, <3>2, <3>3
  <2> QED
    BY <1>1, <2>3, <2>4, <2>5 DEF KeyPast
<1> QED
  BY <1>3, <1>4, <1>5 DEF CutShort, Struck

\* Each kind of step keeps what is known of a key.
LEMMA KeyPastNext ==
  ASSUME Inv, PastInv, Flow, NEW b \in Branch, NEW m \in Memory, KeyStep(b, m)
  PROVE  KeyPast(b, m)'
<1>1. /\ CoreType /\ Met /\ Gone /\ KeyPast(b, m)
      /\ clock \in Nat /\ clock' \in Nat /\ clock <= clock'
      /\ snaps[b][m] \in SUBSET Snapshot /\ rows[b][m] \in Row /\ rows[b][m].at \in Nat
      /\ \A c \in Client : job[c].at \in Nat
  BY DEF Inv, Core, CoreType, PastInv, Flow, Row, Job
<1>2. \A l \in SUBSET Snapshot : Past(l, clock) => Past(l, clock')
  BY <1>1 DEF Past, Snapshot, Open
<1>3. ASSUME NEW c \in Client, OnKey(c, b, m)'
      PROVE  (OnKey(c, b, m) /\ job'[c].at = job[c].at) \/ job'[c].at = clock
  BY <1>3 DEF OnKey, Flow, Running
<1>4. <<b, m>> \notin suspect' => <<b, m>> \notin suspect
  BY DEF Flow
<1>5. CASE Stays(b, m)
  <2>1. /\ Past(snaps'[b][m], clock') /\ rows'[b][m].at <= clock'
        /\ Past(snaps'[b][m], clock) /\ rows'[b][m].at <= rows[b][m].at /\ rows'[b][m].at <= clock
    BY <1>1, <1>2, <1>5 DEF KeyPast, Stays, NoRow
  <2>2. ASSUME <<b, m>> \notin suspect'
        PROVE  /\ Single(snaps'[b][m])
               /\ Present(rows'[b][m]) /\ OpenUpserts(snaps'[b][m]) = {}
                    => Past(snaps'[b][m], rows'[b][m].at)
    <3>1. ~Present(NoRow)
      BY DEF Present, NoRow
    <3> QED
      BY <1>1, <1>4, <1>5, <2>2, <3>1 DEF KeyPast, Stays
  <2>3. ASSUME <<b, m>> \notin suspect', NEW c \in Client, OnKey(c, b, m)'
        PROVE  Past(snaps'[b][m], job'[c].at) /\ rows'[b][m].at <= job'[c].at
    <3>1. CASE job'[c].at = clock
      BY <2>1, <3>1
    <3>2. CASE OnKey(c, b, m) /\ job'[c].at = job[c].at
      <4>1. Past(snaps[b][m], job[c].at) /\ rows[b][m].at <= job[c].at
        BY <1>1, <1>4, <2>3, <3>2 DEF KeyPast
      <4>2. rows'[b][m].at = rows[b][m].at \/ rows'[b][m].at = 0
        BY <1>5 DEF Stays, NoRow
      <4> QED
        BY <1>1, <1>5, <3>2, <4>1, <4>2 DEF Stays
    <3> QED
      BY <1>3, <2>3, <3>1, <3>2
  <2> QED
    BY <2>1, <2>2, <2>3 DEF KeyPast
<1>6. ASSUME NEW c \in Client, WrittenBy(c, b, m)
      PROVE  KeyPast(b, m)'
  <2> DEFINE t == job[c].at
  <2>1. t \in Nat /\ t <= clock /\ OnKey(c, b, m)
    BY <1>1, <1>6 DEF WrittenBy, OnKey, PastInv, CoreType, Job
  <2>2. PICK op \in {"upsert", "delete"}, v \in Version \cup {Null} :
          snaps'[b][m] = Written(snaps[b][m], op, v, t)
    BY <1>6 DEF WrittenBy
  <2> HIDE DEF t
  <2>3. Past(snaps'[b][m], clock) /\ snaps'[b][m] # {}
    BY <1>1, <2>1, <2>2, WriteBounded DEF KeyPast
  <2>4. rows'[b][m].at <= clock'
    <3>1. clock' = clock
      BY <1>6 DEF WrittenBy
    <3>2. (\E w \in Version : rows'[b][m] = [version |-> w, at |-> t]) \/ rows'[b][m] = rows[b][m]
      BY <1>6, Zenon DEF WrittenBy, t
    <3>3. CASE rows'[b][m] = rows[b][m]
      BY <1>1, <3>1, <3>3 DEF KeyPast
    <3>4. CASE \E w \in Version : rows'[b][m] = [version |-> w, at |-> t]
      <4>1. rows'[b][m].at = t
        BY <3>4
      <4> QED
        BY <2>1, <3>1, <4>1
    <3> QED
      BY <3>2, <3>3, <3>4
  <2>5. ASSUME <<b, m>> \notin suspect'
        PROVE  /\ Single(snaps'[b][m])
               /\ ~(Present(rows'[b][m]) /\ OpenUpserts(snaps'[b][m]) = {})
               /\ \A d \in Client : ~OnKey(d, b, m)'
    <3>1. Past(snaps[b][m], t) /\ Single(snaps[b][m])
      BY <1>1, <1>4, <2>1, <2>5 DEF KeyPast, t
    <3>2. Single(snaps'[b][m])
      BY <1>1, <2>1, <2>2, <3>1, WritePast
    <3>3. ASSUME NEW d \in Client, OnKey(d, b, m)'
          PROVE  FALSE
      <4>1. d # c
        BY <1>6, <3>3 DEF WrittenBy, OnKey
      <4>2. OnKey(d, b, m)
        BY <1>6, <3>3, <4>1 DEF WrittenBy, OnKey, Running
      <4>3. <<b, m>> \in suspect
        BY <1>1, <2>1, <4>1, <4>2 DEF Met, SameKey, OnKey
      <4> QED
        BY <1>4, <2>5, <4>3
    <3>4. ~Present(rows'[b][m]) \/ OpenUpserts(snaps'[b][m]) # {}
      <4>1. CASE \E w \in Version : snaps'[b][m] = Written(snaps[b][m], "upsert", w, t)
        <5>1. PICK w \in Version : snaps'[b][m] = Written(snaps[b][m], "upsert", w, t)
          BY <4>1
        <5>2. snaps'[b][m] = UpsertAt(snaps[b][m], w, t) /\ w \in Version \cup {Null}
          BY <5>1, WriteForms
        <5> QED
          BY <1>1, <2>1, <5>2, UpsertOpens
      <4>2. CASE rows'[b][m] = rows[b][m] /\ job[c].op = "delete"
        BY <1>1, <1>4, <2>1, <2>5, <4>2 DEF Gone, OnKey
      <4> QED
        BY <1>6, <4>1, <4>2, Zenon DEF WrittenBy, t
    <3> QED
      BY <3>2, <3>3, <3>4
  <2> QED
    BY <1>1, <1>2, <1>6, <2>3, <2>4, <2>5 DEF KeyPast, WrittenBy
<1>7. CASE DeletedNow(b, m)
  <2>1. snaps'[b][m] = Written(snaps[b][m], "delete", Null, clock) /\ clock' = clock
    BY <1>7 DEF DeletedNow
  <2>2. Past(snaps'[b][m], clock) /\ snaps'[b][m] # {}
    BY <1>1, <2>1, WriteBounded DEF KeyPast
  <2>3. rows'[b][m].at <= clock' /\ ~Present(rows'[b][m])
    <3>1. ~Present(NoRow) /\ NoRow.at = 0
      BY DEF Present, NoRow
    <3> QED
      BY <1>1, <1>7, <2>1, <3>1 DEF DeletedNow, KeyPast
  <2>4. ASSUME <<b, m>> \notin suspect'
        PROVE  /\ Single(snaps'[b][m])
               /\ \A d \in Client : OnKey(d, b, m)' => job'[d].at = clock
    <3>1. Past(snaps[b][m], clock) /\ Single(snaps[b][m])
      BY <1>1, <1>4, <2>4 DEF KeyPast
    <3>2. Single(snaps'[b][m])
      BY <1>1, <2>1, <3>1, WritePast
    <3>3. \A d \in Client : ~OnKey(d, b, m)
      BY <1>7, <2>4 DEF DeletedNow
    <3> QED
      BY <1>3, <3>2, <3>3
  <2> QED
    BY <2>1, <2>2, <2>3, <2>4 DEF KeyPast
<1>8. CASE BaseWritten(b, m)
  <2>1. CASE snaps'[b][m] = snaps[b][m]
    BY <1>5, <1>8, <2>1 DEF BaseWritten, Stays
  <2>2. CASE snaps'[b][m] # snaps[b][m]
    <3> DEFINE row == rows[b][m]
    <3>1. /\ Present(row) /\ OpenUpserts(snaps[b][m]) = {}
          /\ snaps'[b][m] = UpsertAt(snaps[b][m], row.version, row.at)
          /\ UNCHANGED <<clock, job, suspect>> /\ rows'[b][m] = row
      BY <1>8, <2>2 DEF BaseWritten, Baseline
    <3>2. snaps'[b][m] = Written(snaps[b][m], "upsert", row.version, row.at)
      BY <3>1, WriteForms
    <3>3. row.version \in Version \cup {Null} /\ row.at \in Nat /\ row.at <= clock
      BY <1>1 DEF Row, KeyPast
    <3>4. Past(snaps'[b][m], clock) /\ snaps'[b][m] # {}
      BY <1>1, <3>2, <3>3, WriteBounded DEF KeyPast
    <3>5. OpenUpserts(snaps'[b][m]) # {}
      <4> HIDE DEF row
      <4> QED
        BY <1>1, <3>1, <3>3, UpsertOpens
    <3>6. ASSUME <<b, m>> \notin suspect
          PROVE  /\ Single(snaps'[b][m])
                 /\ \A c \in Client : OnKey(c, b, m) =>
                      Past(snaps'[b][m], job[c].at) /\ row.at <= job[c].at
      <4>1. /\ Past(snaps[b][m], row.at) /\ Single(snaps[b][m])
            /\ \A c \in Client : OnKey(c, b, m) => row.at <= job[c].at
        BY <1>1, <3>1, <3>6 DEF KeyPast
      <4> HIDE DEF row
      <4>2. Single(snaps'[b][m]) /\ Past(snaps'[b][m], row.at)
        BY <1>1, <3>2, <3>3, <4>1, WritePast
      <4>3. snaps'[b][m] \in SUBSET Snapshot
        <5>1. Written(snaps[b][m], "upsert", row.version, row.at) \in SUBSET Snapshot
          BY <1>1, <3>3, WriteLine
        <5> QED
          BY <3>2, <5>1
      <4>4. ASSUME NEW c \in Client, OnKey(c, b, m)
            PROVE  Past(snaps'[b][m], job[c].at)
        <5>1. row.at \in Nat /\ job[c].at \in Nat /\ row.at <= job[c].at
          BY <1>1, <3>3, <4>1, <4>4
        <5> QED
          BY <4>2, <4>3, <5>1, PastGrows
      <4> QED
        BY <4>1, <4>2, <4>4
    <3> HIDE DEF row
    <3> QED
      BY <1>1, <3>1, <3>3, <3>4, <3>5, <3>6 DEF KeyPast, OnKey, Running
  <2> QED
    BY <2>1, <2>2
<1>9. CASE CutShort(b, m)
  BY <1>1, <1>9, CutPast DEF PastInv
<1> QED
  BY <1>5, <1>6, <1>7, <1>8, <1>9 DEF KeyStep

\* Every step keeps the past in order.
LEMMA PastInvNext == Inv /\ PastInv /\ [Next]_vars => PastInv'
<1> SUFFICES ASSUME Inv, PastInv, [Next]_vars PROVE PastInv'
  OBVIOUS
<1>1. \A b \in Branch, m \in Memory : KeyPast(b, m)'
  BY StepsFlow, KeyPastNext
<1>2. ASSUME NEW c \in Client, Running(c)'
      PROVE  job'[c].at <= clock'
  <2>1. job'[c].m \in Memory
    BY <1>2, InvNext DEF Inv, Core, Loaded
  <2>2. Flow
    BY <2>1, StepsFlow, ModelAssumption
  <2>3. job'[c].at = clock \/ (Running(c) /\ job'[c].at = job[c].at /\ job[c].at <= clock)
    BY <1>2, <2>2, Zenon DEF Flow, PastInv, Running
  <2>4. clock \in Nat /\ clock' \in Nat /\ clock <= clock' /\ job[c].at \in Nat
    BY <2>2 DEF Flow, Inv, Core, CoreType, Job
  <2> QED
    BY <2>3, <2>4
<1> QED
  BY <1>1, <1>2 DEF PastInv

\* What reads as the same twice reads as the same.
LEMMA SameTwice ==
  ASSUME NEW l, NEW j, NEW k, NEW t, SameAt(l, j, t), SameAt(j, k, t)
  PROVE  SameAt(l, k, t)
  BY DEF SameAt

\* A timeline, with its baseline, that answers about t as line does.
Answers(line, snap, row, t) ==
  /\ Baseline(snap, row) \in SUBSET Snapshot /\ Single(Baseline(snap, row))
  /\ SameAt(line, Baseline(snap, row), t)

\* A crash in a write stamped at, after t: what it has written, and the baseline a
\* read then writes, begin at that stamp.
LEMMA CutAnswers ==
  ASSUME NEW line \in SUBSET Snapshot, NEW at \in Nat, NEW t \in Nat, t < at,
         Past(line, at), Single(line), NEW snap, snap = line \/ snap = Close(line, at),
         NEW row \in Row, Present(row) => row.at = at
  PROVE  Answers(line, snap, row, t)
<1>1. /\ snap \in SUBSET Snapshot /\ Single(snap) /\ SameAt(line, snap, t) /\ Past(snap, at)
  <2>1. SameAt(line, line, t)
    BY DEF SameAt, Single
  <2>2. at <= at
    OBVIOUS
  <2>3. /\ Close(line, at) \in SUBSET Snapshot /\ Past(Close(line, at), at)
        /\ Single(Close(line, at)) /\ SameAt(line, Close(line, at), t)
    BY <2>2, CloseLine, ClosePast
  <2> QED
    BY <2>1, <2>3, Zenon
<1>2. CASE ~(Present(row) /\ OpenUpserts(snap) = {})
  BY <1>1, <1>2 DEF Baseline, Answers
<1>3. CASE Present(row) /\ OpenUpserts(snap) = {}
  <2> DEFINE new == Written(snap, "upsert", row.version, at)
  <2>1. row.version \in Version \cup {Null} /\ row.at = at
    BY <1>3 DEF Row
  <2>2. Baseline(snap, row) = new
    <3>1. Baseline(snap, row) = UpsertAt(snap, row.version, at)
      BY <1>3, <2>1 DEF Baseline
    <3> QED
      BY <2>1, <3>1, WriteForms
  <2>3. new \in SUBSET Snapshot
    BY <1>1, <2>1, WriteLine
  <2>4. Single(new) /\ SameAt(snap, new, t)
    BY <1>1, <2>1, WritePast
  <2> HIDE DEF new
  <2>5. SameAt(line, new, t)
    BY <1>1, <2>4, SameTwice
  <2> QED
    BY <2>2, <2>3, <2>4, <2>5 DEF Answers
<1> QED
  BY <1>2, <1>3

\* No step changes an answer about the past before the requests in flight.
LEMMA SettledKept ==
  ASSUME Inv, PastInv, [Next]_vars, NEW b \in Branch, NEW m \in Memory,
         NEW t \in 1 .. clock - 1, Lineage(parent', b) = Lineage(parent, b),
         \A s \in Stamps(m) : t < s,
         \A c \in Branch : <<c, m>> \notin suspect \cup torn,
         \A c \in Branch : Present(rows[c][m]) \/ InDelete(c, m) => snaps[c][m] # {}
  PROVE  AsOf(parent', rows', snaps', b, m, t) = AsOf(parent, rows, snaps, b, m, t)
<1>1. /\ parent \in [Branch -> Branch \cup {Null}] /\ parent' \in [Branch -> Branch \cup {Null}]
      /\ snaps \in [Branch -> [Memory -> SUBSET Snapshot]]
      /\ snaps' \in [Branch -> [Memory -> SUBSET Snapshot]]
      /\ rows' \in [Branch -> [Memory -> Row]]
      /\ clock \in Nat /\ t \in Nat /\ t < clock
      /\ job \in [Client -> Job]
  BY InvNext DEF Inv, Core, CoreType
<1>2. ASSUME NEW c \in Branch
      PROVE  /\ Baseline(snaps[c][m], rows[c][m]) = snaps[c][m] /\ Single(snaps[c][m])
             /\ Answers(snaps[c][m], snaps'[c][m], rows'[c][m], t)
  <2>1. /\ <<c, m>> \notin suspect \cup torn /\ Present(rows[c][m]) => snaps[c][m] # {}
        /\ KeyPast(c, m) /\ KeyStep(c, m) /\ Gone
        /\ snaps[c][m] \in SUBSET Snapshot /\ snaps'[c][m] \in SUBSET Snapshot
        /\ rows'[c][m] \in Row
    BY <1>1, StepsFlow DEF PastInv, Inv, Core
  <2>2. /\ Baseline(snaps[c][m], rows[c][m]) = snaps[c][m] /\ Single(snaps[c][m])
        /\ Present(rows[c][m]) => OpenUpserts(snaps[c][m]) # {}
    <3>1. Baseline(snaps[c][m], rows[c][m]) = snaps[c][m]
      BY <2>1, SettledKey DEF Baseline
    <3>2. ASSUME Present(rows[c][m]) PROVE OpenUpserts(snaps[c][m]) # {}
      BY <2>1, <3>2, SettledKey DEF Inv, Core, Keys, KeyOK, Exempt, Consistent, Recorded
    <3> QED
      BY <2>1, <3>1, <3>2 DEF KeyPast
  <2>3. ~Present(NoRow)
    BY DEF Present, NoRow
  <2>4. CASE Stays(c, m)
    <3>1. Baseline(snaps'[c][m], rows'[c][m]) = snaps'[c][m]
      BY <2>2, <2>3, <2>4 DEF Stays, Baseline
    <3> QED
      BY <2>1, <2>2, <2>4, <3>1 DEF Stays, SameAt, Single, Answers
  <2>5. ASSUME NEW d \in Client, WrittenBy(d, c, m)
        PROVE  Answers(snaps[c][m], snaps'[c][m], rows'[c][m], t)
    <3> DEFINE at == job[d].at
    <3>1. OnKey(d, c, m) /\ at \in Nat
      BY <1>1, <2>5 DEF WrittenBy, Job
    <3>2. t < at
      <4>1. at \in Stamps(m)
        BY <3>1 DEF Stamps, OnKey
      <4> QED
        BY <4>1
    <3> HIDE DEF at
    <3>3. Past(snaps[c][m], at) /\ Single(snaps[c][m])
      BY <2>1, <3>1 DEF KeyPast, at
    <3>4. \/ \E v \in Version : /\ snaps'[c][m] = Written(snaps[c][m], "upsert", v, at)
                                /\ rows'[c][m] = [version |-> v, at |-> at]
          \/ /\ snaps'[c][m] = Written(snaps[c][m], "delete", Null, at)
             /\ rows'[c][m] = rows[c][m] /\ job[d].op = "delete"
      BY <2>5, Zenon DEF WrittenBy, at
    <3>5. CASE \E v \in Version : /\ snaps'[c][m] = Written(snaps[c][m], "upsert", v, at)
                                  /\ rows'[c][m] = [version |-> v, at |-> at]
      <4>1. PICK v \in Version : snaps'[c][m] = Written(snaps[c][m], "upsert", v, at)
        BY <3>5
      <4>2. /\ Single(Written(snaps[c][m], "upsert", v, at))
            /\ SameAt(snaps[c][m], Written(snaps[c][m], "upsert", v, at), t)
        BY <1>1, <2>1, <3>1, <3>2, <3>3, WritePast
      <4>3. OpenUpserts(snaps'[c][m]) # {}
        <5>1. snaps'[c][m] = UpsertAt(snaps[c][m], v, at) /\ v \in Version \cup {Null}
          BY <4>1, WriteForms
        <5> QED
          BY <2>1, <3>1, <5>1, UpsertOpens
      <4> QED
        BY <2>1, <4>1, <4>2, <4>3 DEF Baseline, Answers
    <3>6. CASE /\ snaps'[c][m] = Written(snaps[c][m], "delete", Null, at)
               /\ rows'[c][m] = rows[c][m] /\ job[d].op = "delete"
      <4>1. /\ Single(Written(snaps[c][m], "delete", Null, at))
            /\ SameAt(snaps[c][m], Written(snaps[c][m], "delete", Null, at), t)
        BY <1>1, <2>1, <3>1, <3>2, <3>3, WritePast
      <4>2. ~Present(rows[c][m])
        BY <2>1, <3>1, <3>6 DEF Gone, OnKey
      <4> QED
        BY <2>1, <3>6, <4>1, <4>2 DEF Baseline, Answers
    <3> QED
      BY <3>4, <3>5, <3>6
  <2>6. CASE DeletedNow(c, m)
    <3>1. snaps'[c][m] = Written(snaps[c][m], "delete", Null, clock) /\ ~Present(rows'[c][m])
      BY <2>3, <2>6 DEF DeletedNow
    <3>2. Past(snaps[c][m], clock) /\ Single(snaps[c][m])
      BY <2>1 DEF KeyPast
    <3>3. /\ Single(Written(snaps[c][m], "delete", Null, clock))
          /\ SameAt(snaps[c][m], Written(snaps[c][m], "delete", Null, clock), t)
      BY <1>1, <2>1, <3>2, WritePast
    <3>4. /\ Baseline(snaps'[c][m], rows'[c][m]) = Written(snaps[c][m], "delete", Null, clock)
          /\ Baseline(snaps'[c][m], rows'[c][m]) \in SUBSET Snapshot
      BY <2>1, <3>1 DEF Baseline
    <3> QED
      BY <2>2, <3>3, <3>4, Zenon DEF Answers
  <2>7. CASE BaseWritten(c, m)
    <3>1. Stays(c, m)
      BY <2>2, <2>7 DEF BaseWritten, Stays
    <3> QED
      BY <2>4, <3>1
  <2>8. CASE CutShort(c, m)
    <3>1. CASE Spared(c, m) \/ HalfRead(c, m)
      <4>1. CutBaseline(snaps[c][m], rows[c][m]) = snaps[c][m]
        BY <2>2 DEF CutBaseline
      <4>2. Stays(c, m)
        BY <2>2, <3>1, <4>1 DEF Spared, HalfRead, Stays
      <4> QED
        BY <2>4, <4>2
    <3>2. ASSUME NEW at \in Nat, HalfWritten(c, m, at)
          PROVE  Answers(snaps[c][m], snaps'[c][m], rows'[c][m], t)
      <4>1. /\ at = clock \/ \E d \in Client : OnKey(d, c, m) /\ at = job[d].at
            /\ snaps'[c][m] = snaps[c][m] \/ snaps'[c][m] = Close(snaps[c][m], at)
            /\ \/ rows'[c][m] = NoRow
               \/ rows'[c][m] = rows[c][m] /\ ~Present(rows[c][m])
               \/ \E v \in Version : rows'[c][m] = [version |-> v, at |-> at]
        BY <2>1, <3>2 DEF HalfWritten
      <4>2. t < at /\ Past(snaps[c][m], at) /\ Single(snaps[c][m])
        <5>1. CASE at = clock
          BY <1>1, <2>1, <5>1 DEF KeyPast
        <5>2. ASSUME NEW d \in Client, OnKey(d, c, m), at = job[d].at
              PROVE  t < at /\ Past(snaps[c][m], at)
          <6>1. at \in Stamps(m)
            BY <5>2 DEF Stamps, OnKey
          <6> QED
            BY <2>1, <5>2, <6>1 DEF KeyPast
        <5> QED
          BY <2>2, <4>1, <5>1, <5>2
      <4>3. Present(rows'[c][m]) => rows'[c][m].at = at
        <5>1. ASSUME NEW v \in Version, rows'[c][m] = [version |-> v, at |-> at]
              PROVE  rows'[c][m].at = at
          BY <5>1
        <5> QED
          BY <2>3, <4>1, <5>1, Zenon
      <4> QED
        BY <1>1, <2>1, <4>1, <4>2, <4>3, CutAnswers
    <3>3. Spared(c, m) \/ HalfRead(c, m) \/ \E at \in Nat : HalfWritten(c, m, at)
      BY <2>8, Zenon DEF CutShort, Struck
    <3> QED
      BY <2>2, <3>1, <3>2, <3>3
  <2> QED
    BY <2>1, <2>2, <2>4, <2>5, <2>6, <2>7, <2>8 DEF KeyStep
<1>3. SameLines(rows, snaps, rows', snaps', m, t)
  BY <1>1, <1>2 DEF SameLines, Answers
<1>4. /\ parent \in [Branch -> Branch \cup {Null}] /\ parent' \in [Branch -> Branch \cup {Null}]
      /\ t \in Nat /\ Lineage(parent', b) = Lineage(parent, b)
  BY <1>1
<1> QED
  BY <1>3, <1>4, SameAnswer

\* However requests overlap, however long they take and wherever a crash falls,
\* an asOf read of an instant before every request in flight keeps its answer,
\* for memories no two requests met on and no earlier crash left torn.
THEOREM PastIsSettled == Spec => SettledHistoryIsFinal
<1>1. Init => PastInv
  <2> SUFFICES ASSUME Init PROVE PastInv
    OBVIOUS
  <2>1. PICK content \in [Legacy -> Version] :
          rows = [b \in Branch |-> [m \in Memory |->
                    IF b = Main /\ m \in Legacy
                    THEN [version |-> content[m], at |-> 0] ELSE NoRow]]
    BY DEF Init
  <2>2. \A c \in Client : ~Running(c)
    BY NotRunning DEF Init, Running
  <2>3. ASSUME NEW b \in Branch, NEW m \in Memory
        PROVE  KeyPast(b, m)
    <3>1. rows[b][m].at = 0 /\ snaps[b][m] = {} /\ clock = 1
      BY <2>1 DEF Init, NoRow
    <3> QED
      BY <2>2, <3>1 DEF KeyPast, Past, Single, Valid, OnKey
  <2> QED
    BY <2>2, <2>3 DEF PastInv
<1>2. Inv /\ PastInv /\ [Next]_vars =>
        [\A b \in Branch, m \in Memory, t \in 1 .. clock - 1 :
           /\ Lineage(parent', b) = Lineage(parent, b)
           /\ \A s \in Stamps(m) : t < s
           /\ \A c \in Branch : <<c, m>> \notin suspect \cup torn
           /\ \A c \in Branch : Present(rows[c][m]) \/ InDelete(c, m) => snaps[c][m] # {}
           => AsOf(parent', rows', snaps', b, m, t) = AsOf(parent, rows, snaps, b, m, t)]_vars
  BY SettledKept
<1> QED
  BY <1>1, <1>2, InvInit, InvNext, PastInvNext, PTL DEF Spec, SettledHistoryIsFinal

-----------------------------------------------------------------------------
(***************************************************************************)
(* When requests do not overlap, each step is one of MemoryStore's         *)
(* operations or changes nothing there, so what is proved of MemoryStore   *)
(* holds of its implementation.                                            *)
(***************************************************************************)

\* MemoryStore's theorems, of the instant and the rows the service shows.
SP == INSTANCE MemoryStoreProofs WITH clock <- StoreClock, rows <- StoreRows

\* The store's operators on branches, rows and timelines are the service's.
LEMMA StoreModel ==
  /\ Store!NoRow = NoRow /\ Store!Open = Open
  /\ \A r : Store!Present(r) = Present(r)
  /\ \A p, b, from : Store!Ensure(p, b, from) = Ensure(p, b, from)
  /\ \A p, b : Store!ParentOf(p, b) = ParentOf(p, b)
  /\ \A w : Store!Seen(w) = Seen(w)
  /\ \A p, b : Store!Lineage(p, b) = Lineage(p, b)
  /\ \A w, B : Store!FirstBranch(w, B) = FirstBranch(w, B)
  /\ \A R, m : Store!Holders(R, m) = Holders(R, m)
  /\ \A l, v, t : Store!UpsertAt(l, v, t) = UpsertAt(l, v, t)
  /\ \A l, t : Store!DeleteAt(l, t) = DeleteAt(l, t)
  /\ \A l : Store!OpenUpserts(l) = OpenUpserts(l)
  /\ \A l : Store!OpenDeletes(l) = OpenDeletes(l)
  /\ \A l, r : Store!Baseline(l, r) = Baseline(l, r)
  /\ \A l, t : Store!Valid(l, t) = Valid(l, t)
<1>1. Store!NoRow = NoRow /\ Store!Open = Open
  BY DEF Store!NoRow, NoRow, Store!Open, Open
<1>2. \A r : Store!Present(r) = Present(r)
  BY Zenon DEF Store!Present, Present
<1>3. \A p, b, from : Store!Ensure(p, b, from) = Ensure(p, b, from)
  BY Zenon DEF Store!Ensure, Ensure
<1>4. \A p, b : Store!ParentOf(p, b) = ParentOf(p, b)
  BY Zenon DEF Store!ParentOf, ParentOf
<1>5. \A w : Store!Seen(w) = Seen(w)
  BY Zenon DEF Store!Seen, Seen
<1>6. \A p, b : Store!Lineage(p, b) = Lineage(p, b)
  BY Zenon DEF Store!Lineage, Lineage, Store!Seen, Seen, Store!ParentOf, ParentOf
<1>7. \A w, B : Store!FirstBranch(w, B) = FirstBranch(w, B)
  BY Zenon DEF Store!FirstBranch, FirstBranch
<1>8. \A R, m : Store!Holders(R, m) = Holders(R, m)
  BY Zenon DEF Store!Holders, Holders, Store!Present, Present
<1>9. \A l, v, t : Store!UpsertAt(l, v, t) = UpsertAt(l, v, t)
  BY Zenon DEF Store!UpsertAt, UpsertAt, Store!Insert, Insert, Store!Close, Close, Store!Open, Open
<1>10. \A l, t : Store!DeleteAt(l, t) = DeleteAt(l, t)
  BY Zenon DEF Store!DeleteAt, DeleteAt, Store!Insert, Insert, Store!Close, Close, Store!Open, Open
<1>11. \A l : Store!OpenUpserts(l) = OpenUpserts(l)
  BY Zenon DEF Store!OpenUpserts, OpenUpserts, Store!Open, Open
<1>12. \A l : Store!OpenDeletes(l) = OpenDeletes(l)
  BY Zenon DEF Store!OpenDeletes, OpenDeletes, Store!Open, Open
<1>13. \A l, r : Store!Baseline(l, r) = Baseline(l, r)
  BY <1>2, <1>9, <1>11, Zenon DEF Store!Baseline, Baseline
<1>14. \A l, t : Store!Valid(l, t) = Valid(l, t)
  BY Zenon DEF Store!Valid, Valid, Store!Open, Open
<1> QED
  BY <1>1, <1>2, <1>3, <1>4, <1>5, <1>6, <1>7, <1>8, <1>9, <1>10, <1>11, <1>12, <1>13, <1>14

-----------------------------------------------------------------------------
\* The instant and the rows the store is shown, of the jobs J, the rows R and time t.
ClockOf(J, t) ==
  LET busy == {c \in Client : J[c].op # "idle"}
  IN  IF busy = {} THEN t ELSE J[CHOOSE c \in busy : TRUE].at

Takers(J, b, m) == {c \in Client : J[c].op = "delete" /\ J[c].b = b /\ J[c].m = m}

RowsOf(J, R) ==
  [b \in Branch |-> [m \in Memory |->
     IF Takers(J, b, m) = {} THEN R[b][m] ELSE J[CHOOSE c \in Takers(J, b, m) : TRUE].row]]

\* What the store is shown, now and after a step, as a function of jobs, rows and time.
LEMMA StoreViews ==
  /\ StoreClock = ClockOf(job, clock) /\ StoreClock' = ClockOf(job', clock')
  /\ StoreRows = RowsOf(job, rows) /\ StoreRows' = RowsOf(job', rows')
<1>1. StoreClock = ClockOf(job, clock) /\ StoreClock' = ClockOf(job', clock')
  BY Zenon DEF StoreClock, ClockOf
<1>2. StoreRows = RowsOf(job, rows) /\ StoreRows' = RowsOf(job', rows')
  BY Zenon DEF StoreRows, RowsOf, Deleters, Takers
<1> QED
  BY <1>1, <1>2

\* No request is in progress; none but client c's is.
Quiet(J) == \A c \in Client : J[c].op = "idle"

Only(J, c) == \A d \in Client \ {c} : J[d].op = "idle"

\* Without a request in progress the store is what the tables are.
LEMMA QuietMap ==
  ASSUME NEW J, NEW R \in [Branch -> [Memory -> Row]], NEW t, Quiet(J)
  PROVE  ClockOf(J, t) = t /\ RowsOf(J, R) = R
<1>1. {c \in Client : J[c].op # "idle"} = {} /\ \A b, m : Takers(J, b, m) = {}
  BY DEF Quiet, Takers
<1>2. ClockOf(J, t) = t
  BY <1>1 DEF ClockOf
<1>3. RowsOf(J, R) = [b \in Branch |-> [m \in Memory |-> R[b][m]]]
  BY <1>1 DEF RowsOf
<1> QED
  BY <1>2, <1>3

\* The rows with the one under key (b, m) put back.
Put(R, b, m, row) ==
  [k \in Branch |-> [n \in Memory |-> IF k = b /\ n = m THEN row ELSE R[k][n]]]

\* With one request in progress the store is at that request's stamp.
LEMMA OnlyClock ==
  ASSUME NEW J, NEW t, NEW c \in Client, Only(J, c), J[c].op # "idle"
  PROVE  ClockOf(J, t) = J[c].at
<1>1. {d \in Client : J[d].op # "idle"} = {c}
  BY DEF Only
<1> QED
  BY <1>1 DEF ClockOf

\* Its rows are the tables' unless that request is a delete.
LEMMA OnlyRows ==
  ASSUME NEW J, NEW R \in [Branch -> [Memory -> Row]], NEW c \in Client,
         Only(J, c), J[c].op # "delete"
  PROVE  RowsOf(J, R) = R
<1>1. \A b, m : Takers(J, b, m) = {}
  BY DEF Only, Takers
<1>2. RowsOf(J, R) = [b \in Branch |-> [m \in Memory |-> R[b][m]]]
  BY <1>1 DEF RowsOf
<1> QED
  BY <1>2

\* A delete's row is still there.
LEMMA OnlyDelete ==
  ASSUME NEW J, NEW R, NEW c \in Client, NEW b, NEW m, NEW row, Only(J, c),
         J[c].op = "delete", J[c].b = b, J[c].m = m, J[c].row = row
  PROVE  RowsOf(J, R) = Put(R, b, m, row)
<1>1. \A k, n : Takers(J, k, n) = IF k = b /\ n = m THEN {c} ELSE {}
  BY DEF Only, Takers
<1>2. ASSUME NEW k, NEW n
      PROVE  (IF Takers(J, k, n) = {} THEN R[k][n] ELSE J[CHOOSE d \in Takers(J, k, n) : TRUE].row)
             = IF k = b /\ n = m THEN row ELSE R[k][n]
  <2>1. CASE k = b /\ n = m
    <3>1. Takers(J, k, n) = {c}
      BY <1>1, <2>1
    <3> QED
      BY <2>1, <3>1
  <2>2. CASE ~(k = b /\ n = m)
    <3>1. Takers(J, k, n) = {}
      BY <1>1, <2>2
    <3> QED
      BY <2>2, <3>1
  <2> QED
    BY <2>1, <2>2
<1> QED
  BY <1>2 DEF RowsOf, Put

-----------------------------------------------------------------------------
\* One request at a time.
Alone == \A c, d \in Client : c # d => Free(c) \/ Free(d)

\* Every client but c is idle.
Others(c) == \A d \in Client \ {c} : Free(d)

\* A request's stamp is an instant of the past or now, and time keeps its bound.
Stamped ==
  /\ clock \in Nat \ {0}
  /\ clock # 1 => clock <= MaxTime
  /\ \A c \in Client : job[c].op # "idle" => job[c].at \in Nat \ {0} /\ job[c].at <= clock

\* The absence of a row has one form.
Clean == \A b \in Branch, m \in Memory : Present(rows[b][m]) \/ rows[b][m] = NoRow

\* The row a delete is about to record the end of is gone.
TakenOut == \A c \in Client : job[c].op = "delete" => rows[job[c].b][job[c].m] = NoRow

\* The branch an upsert will write is registered.
Registered ==
  \A c \in Client : job[c].op = "upsert" => job[c].b = Main \/ parent[job[c].b] # Null

Side == Stamped /\ Clean /\ TakenOut /\ Registered

\* No two requests have met.
Unmet == suspect = {}

\* The inductive invariant of a service that handles one request at a time.
SoloInv == Inv /\ Alone /\ Side /\ Unmet

\* An idle client has no job.
LEMMA OthersIdle ==
  ASSUME NEW c \in Client, Others(c)
  PROVE  Only(job, c) /\ (job[c] = Idle => Quiet(job))
  BY NotRunning DEF Others, Only, Quiet, Free

\* Registered branches stay registered.
LEMMA EnsureKeeps ==
  ASSUME NEW P \in [Branch -> Branch \cup {Null}], NEW b \in Branch, NEW from \in Branch
  PROVE  /\ \A k \in Branch : P[k] # Null => Ensure(P, b, from)[k] # Null
         /\ b = Main \/ Ensure(P, b, from)[b] # Null
         /\ b = Main \/ P[b] # Null => Ensure(P, b, from) = P
  BY ModelAssumption DEF Ensure

\* An operation of the store, or nothing to it.
StoreStep == Store!Next \/ UNCHANGED Store!vars

\* An upsert begins: the store registers its branch.
LEMMA StartUpsertMaps ==
  ASSUME SoloInv, NEW c \in Client, NEW b \in Branch, NEW m \in Memory, NEW v \in Version,
         NEW from \in Branch, Others(c), job[c] = Idle, StartUpsert(c, b, m, v, from)
  PROVE  Side' /\ StoreStep
<1> DEFINE new == [op |-> "upsert", b |-> b, m |-> m, v |-> v, at |-> clock, row |-> NoRow]
<1>1. CoreType /\ Only(job, c) /\ Quiet(job) /\ Stamped /\ Clean /\ TakenOut /\ Registered
  BY OthersIdle DEF SoloInv, Inv, Core, Side
<1>2. /\ job' = [job EXCEPT ![c] = new] /\ rows' = rows /\ tombs' = tombs /\ snaps' = snaps
      /\ clock' = clock /\ parent' = Ensure(parent, b, from)
  BY DEF StartUpsert
<1>3. job'[c] = new /\ \A d \in Client \ {c} : job'[d] = job[d]
  BY <1>1, <1>2 DEF CoreType
<1>4. new.op = "upsert" /\ new.b = b /\ new.at = clock
  OBVIOUS
<1> HIDE DEF new
<1>5. Only(job', c)
  BY <1>1, <1>3 DEF Only
<1>6. /\ StoreClock = clock /\ StoreRows = rows /\ StoreClock' = clock /\ StoreRows' = rows
  <2>1. ClockOf(job, clock) = clock /\ RowsOf(job, rows) = rows
    BY <1>1, QuietMap DEF CoreType
  <2>2. ClockOf(job', clock') = clock /\ RowsOf(job', rows') = rows
    <3>1. job'[c].op # "idle" /\ job'[c].op # "delete" /\ job'[c].at = clock
      BY <1>3, <1>4
    <3> QED
      BY <1>1, <1>2, <1>5, <3>1, OnlyClock, OnlyRows DEF CoreType
  <2> QED
    BY <2>1, <2>2, StoreViews
<1>7. StoreStep
  <2>1. Store!CreateBranch(b, from)
    BY <1>2, <1>6, StoreModel DEF Store!CreateBranch
  <2> QED
    BY <2>1 DEF StoreStep, Store!Next
<1>8. Stamped'
  BY <1>1, <1>2, <1>3, <1>4 DEF Stamped
<1>9. Clean'
  BY <1>1, <1>2 DEF Clean
<1>10. TakenOut'
  BY <1>1, <1>2, <1>3, <1>4 DEF TakenOut
<1>11. Registered'
  <2>2. b = Main \/ parent'[b] # Null
    BY <1>1, <1>2, EnsureKeeps DEF CoreType
  <2>3. \A d \in Client \ {c} : job'[d].op # "upsert"
    BY <1>1, <1>3 DEF Only
  <2> QED
    BY <1>3, <1>4, <2>2, <2>3 DEF Registered
<1> QED
  BY <1>7, <1>8, <1>9, <1>10, <1>11 DEF Side

\* It writes: the store's upsert, at the instant of the stamp.
LEMMA WriteUpsertMaps ==
  ASSUME SoloInv, NEW c \in Client, Others(c), WriteUpsert(c)
  PROVE  Side' /\ StoreStep
<1> DEFINE b == job[c].b
           m == job[c].m
           v == job[c].v
           t == job[c].at
<1>1. /\ CoreType /\ Only(job, c) /\ Stamped /\ Clean /\ TakenOut /\ Registered
      /\ job[c].op = "upsert" /\ b \in Branch /\ m \in Memory /\ v \in Version /\ t \in Nat
  BY OthersIdle DEF SoloInv, Inv, Core, Side, CoreType, Loaded, WriteUpsert, Running, Job
<1>2. /\ rows' = [rows EXCEPT ![b][m] = [version |-> v, at |-> t]]
      /\ tombs' = [tombs EXCEPT ![b] = @ \ {m}]
      /\ snaps' = [snaps EXCEPT ![b][m] = UpsertAt(@, v, t)]
      /\ job' = [job EXCEPT ![c] = Done(t)]
      /\ clock' = clock /\ parent' = parent
  BY DEF WriteUpsert
<1>3. job'[c] = Done(t) /\ \A d \in Client \ {c} : job'[d] = job[d]
  BY <1>1, <1>2 DEF CoreType
<1>4. Done(t).op = "done" /\ Done(t).at = t
  BY DEF Done, Idle
<1>5. Only(job', c) /\ rows' \in [Branch -> [Memory -> Row]]
  <2>1. Only(job', c)
    BY <1>1, <1>3 DEF Only
  <2>2. [version |-> v, at |-> t] \in Row
    BY <1>1 DEF Row
  <2> QED
    BY <1>1, <1>2, <2>1, <2>2 DEF CoreType
<1> HIDE DEF b, m, v, t
<1>6. StoreClock = t /\ StoreRows = rows /\ StoreClock' = t /\ StoreRows' = rows'
  <2>1. ClockOf(job, clock) = t /\ RowsOf(job, rows) = rows
    BY <1>1, OnlyClock, OnlyRows DEF CoreType, t
  <2>2. ClockOf(job', clock') = t /\ RowsOf(job', rows') = rows'
    <3>1. job'[c].op # "idle" /\ job'[c].op # "delete" /\ job'[c].at = t
      BY <1>3, <1>4
    <3> QED
      BY <1>5, <3>1, OnlyClock, OnlyRows
  <2> QED
    BY <2>1, <2>2, StoreViews
<1>7. StoreStep
  <2>1. parent' = Ensure(parent, b, Main)
    BY <1>1, <1>2, EnsureKeeps, ModelAssumption DEF CoreType, Registered, b
  <2>2. Store!Upsert(b, m, v, Main)
    BY <1>2, <1>6, <2>1, StoreModel DEF Store!Upsert
  <2> QED
    BY <1>1, <2>2, ModelAssumption DEF StoreStep, Store!Next
<1>8. Stamped'
  BY <1>1, <1>2, <1>3, <1>4 DEF Stamped, t
<1>9. Clean'
  <2>1. Present([version |-> v, at |-> t])
    BY <1>1, ModelAssumption DEF Present
  <2> QED
    BY <1>1, <1>2, <2>1 DEF Clean, CoreType
<1>10. TakenOut' /\ Registered'
  <2>1. \A d \in Client : job'[d].op # "delete" /\ job'[d].op # "upsert"
    BY <1>3, <1>4, <1>5 DEF Only
  <2> QED
    BY <2>1 DEF TakenOut, Registered
<1> QED
  BY <1>7, <1>8, <1>9, <1>10 DEF Side

\* A delete takes its row out: the store still has it.
LEMMA StartDeleteMaps ==
  ASSUME SoloInv, NEW c \in Client, NEW b \in Branch, NEW m \in Memory,
         Others(c), job[c] = Idle, StartDelete(c, b, m)
  PROVE  Side' /\ StoreStep
<1> DEFINE new == [op |-> "delete", b |-> b, m |-> m, v |-> Null, at |-> clock, row |-> rows[b][m]]
<1>1. CoreType /\ Only(job, c) /\ Quiet(job) /\ Stamped /\ Clean /\ TakenOut /\ Registered
  BY OthersIdle DEF SoloInv, Inv, Core, Side
<1>2. /\ job' = [job EXCEPT ![c] = new] /\ rows' = [rows EXCEPT ![b][m] = NoRow]
      /\ tombs' = tombs /\ snaps' = snaps /\ clock' = clock /\ parent' = parent
  BY DEF StartDelete
<1>3. job'[c] = new /\ \A d \in Client \ {c} : job'[d] = job[d]
  BY <1>1, <1>2 DEF CoreType
<1>4. /\ new.op = "delete" /\ new.b = b /\ new.m = m /\ new.at = clock /\ new.row = rows[b][m]
  OBVIOUS
<1> HIDE DEF new
<1>5. Only(job', c) /\ rows' \in [Branch -> [Memory -> Row]]
  <2>1. Only(job', c)
    BY <1>1, <1>3 DEF Only
  <2> QED
    BY <1>1, <1>2, <2>1, Values DEF CoreType
<1>6. \A k \in Branch, n \in Memory :
        rows'[k][n] = IF k = b /\ n = m THEN NoRow ELSE rows[k][n]
  BY <1>1, <1>2 DEF CoreType
<1>7. /\ StoreClock = clock /\ StoreRows = rows /\ StoreClock' = clock /\ StoreRows' = rows
  <2>1. ClockOf(job, clock) = clock /\ RowsOf(job, rows) = rows
    BY <1>1, QuietMap DEF CoreType
  <2>2. job'[c].op # "idle" /\ job'[c].op = "delete" /\ job'[c].at = clock
        /\ job'[c].b = b /\ job'[c].m = m /\ job'[c].row = rows[b][m]
    BY <1>3, <1>4
  <2>3. ClockOf(job', clock') = clock
    BY <1>5, <2>2, OnlyClock
  <2>4. RowsOf(job', rows') = Put(rows', b, m, rows[b][m])
    BY <1>5, <2>2, OnlyDelete
  <2>5. \A k \in Branch, n \in Memory :
          (IF k = b /\ n = m THEN rows[b][m] ELSE rows'[k][n]) = rows[k][n]
    BY <1>6
  <2>6. RowsOf(job', rows') = rows
    BY <1>1, <2>4, <2>5 DEF CoreType, Put
  <2> QED
    BY <2>1, <2>3, <2>6, StoreViews
<1>8. StoreStep
  BY <1>2, <1>7 DEF StoreStep, Store!vars
<1>9. Stamped'
  BY <1>1, <1>2, <1>3, <1>4 DEF Stamped
<1>10. Clean'
  BY <1>1, <1>6 DEF Clean
<1>11. TakenOut'
  <2>1. \A d \in Client \ {c} : job'[d].op # "delete"
    BY <1>5 DEF Only
  <2> QED
    BY <1>3, <1>4, <1>6, <2>1 DEF TakenOut
<1>12. Registered'
  <2>1. \A d \in Client : job'[d].op # "upsert"
    BY <1>3, <1>4, <1>5 DEF Only
  <2> QED
    BY <2>1 DEF Registered
<1> QED
  BY <1>8, <1>9, <1>10, <1>11, <1>12 DEF Side

\* It records itself: the store's delete, at the instant of the stamp.
LEMMA WriteDeleteMaps ==
  ASSUME SoloInv, NEW c \in Client, Others(c), WriteDelete(c)
  PROVE  Side' /\ StoreStep
<1> DEFINE b == job[c].b
           m == job[c].m
           t == job[c].at
<1>1. /\ CoreType /\ Only(job, c) /\ Stamped /\ Clean /\ TakenOut /\ Registered
      /\ job[c].op = "delete" /\ b \in Branch /\ m \in Memory /\ t \in Nat
  BY OthersIdle DEF SoloInv, Inv, Core, Side, CoreType, Loaded, WriteDelete, Running, Job
<1>2. /\ tombs' = Tombed(b, m) /\ snaps' = [snaps EXCEPT ![b][m] = DeleteAt(@, t)]
      /\ job' = [job EXCEPT ![c] = Done(t)]
      /\ rows' = rows /\ clock' = clock /\ parent' = parent
  BY DEF WriteDelete
<1>3. job'[c] = Done(t) /\ \A d \in Client \ {c} : job'[d] = job[d]
  BY <1>1, <1>2 DEF CoreType
<1>4. Done(t).op = "done" /\ Done(t).at = t
  BY DEF Done, Idle
<1>5. Only(job', c)
  BY <1>1, <1>3 DEF Only
<1>6. rows[b][m] = NoRow
  BY <1>1 DEF TakenOut
<1> HIDE DEF b, m, t
<1>7. /\ StoreClock = t /\ StoreClock' = t /\ StoreRows' = rows
      /\ StoreRows = Put(rows, b, m, job[c].row)
  <2>1. ClockOf(job, clock) = t
    BY <1>1, OnlyClock DEF t
  <2>3. RowsOf(job, rows) = Put(rows, b, m, job[c].row)
    BY <1>1, OnlyDelete DEF b, m
  <2>2. ClockOf(job', clock') = t /\ RowsOf(job', rows') = rows
    <3>1. job'[c].op # "idle" /\ job'[c].op # "delete" /\ job'[c].at = t
      BY <1>3, <1>4
    <3> QED
      BY <1>1, <1>2, <1>5, <3>1, OnlyClock, OnlyRows DEF CoreType
  <2> QED
    BY <2>1, <2>2, <2>3, StoreViews
<1>8. StoreRows' = [StoreRows EXCEPT ![b][m] = NoRow]
  <2> DEFINE S == Put(rows, b, m, job[c].row)
  <2>1. rows = [S EXCEPT ![b][m] = NoRow]
    <3>1. [S EXCEPT ![b][m] = NoRow] = [k \in Branch |-> [n \in Memory |->
             IF k = b /\ n = m THEN NoRow ELSE rows[k][n]]]
      BY <1>1 DEF Put
    <3>2. \A k \in Branch, n \in Memory : (IF k = b /\ n = m THEN NoRow ELSE rows[k][n]) = rows[k][n]
      BY <1>6
    <3> QED
      BY <1>1, <3>1, <3>2 DEF CoreType
  <2> HIDE DEF S
  <2>2. StoreRows = S
    BY <1>7 DEF S
  <2> QED
    BY <1>7, <2>1, <2>2
<1>9. StoreStep
  <2>1. Store!Delete(b, m)
    BY <1>2, <1>7, <1>8, StoreModel DEF Store!Delete, Tombed
  <2> QED
    BY <1>1, <2>1 DEF StoreStep, Store!Next
<1>10. Stamped'
  BY <1>1, <1>2, <1>3, <1>4 DEF Stamped, t
<1>11. Clean'
  BY <1>1, <1>2 DEF Clean
<1>12. TakenOut' /\ Registered'
  <2>1. \A d \in Client : job'[d].op # "delete" /\ job'[d].op # "upsert"
    BY <1>3, <1>4, <1>5 DEF Only
  <2> QED
    BY <2>1 DEF TakenOut, Registered
<1> QED
  BY <1>9, <1>10, <1>11, <1>12 DEF Side

\* A delete of no row is the store's delete at once.
LEMMA DeleteAbsentMaps ==
  ASSUME SoloInv, NEW c \in Client, NEW b \in Branch, NEW m \in Memory,
         Others(c), job[c] = Idle, DeleteAbsent(c, b, m)
  PROVE  Side' /\ StoreStep
<1>1. CoreType /\ Only(job, c) /\ Quiet(job) /\ Stamped /\ Clean /\ TakenOut /\ Registered
  BY OthersIdle DEF SoloInv, Inv, Core, Side
<1>2. /\ tombs' = Tombed(b, m) /\ snaps' = [snaps EXCEPT ![b][m] = DeleteAt(@, clock)]
      /\ job' = [job EXCEPT ![c] = Done(clock)] /\ ~Present(rows[b][m])
      /\ rows' = rows /\ clock' = clock /\ parent' = parent
  BY DEF DeleteAbsent
<1>3. job'[c] = Done(clock) /\ \A d \in Client \ {c} : job'[d] = job[d]
  BY <1>1, <1>2 DEF CoreType
<1>4. Done(clock).op = "done" /\ Done(clock).at = clock
  BY DEF Done, Idle
<1>5. Only(job', c)
  BY <1>1, <1>3 DEF Only
<1>6. rows[b][m] = NoRow
  BY <1>1, <1>2 DEF Clean
<1>7. StoreClock = clock /\ StoreClock' = clock /\ StoreRows' = rows /\ StoreRows = rows
  <2>1. ClockOf(job, clock) = clock /\ RowsOf(job, rows) = rows
    BY <1>1, QuietMap DEF CoreType
  <2>2. ClockOf(job', clock') = clock /\ RowsOf(job', rows') = rows
    <3>1. job'[c].op # "idle" /\ job'[c].op # "delete" /\ job'[c].at = clock
      BY <1>3, <1>4
    <3> QED
      BY <1>1, <1>2, <1>5, <3>1, OnlyClock, OnlyRows DEF CoreType
  <2> QED
    BY <2>1, <2>2, StoreViews
<1>8. rows = [rows EXCEPT ![b][m] = NoRow]
  BY <1>1, <1>6 DEF CoreType
<1>9. StoreStep
  <2>1. Store!Delete(b, m)
    BY <1>2, <1>7, <1>8, StoreModel DEF Store!Delete, Tombed
  <2> QED
    BY <2>1 DEF StoreStep, Store!Next
<1>10. Stamped'
  BY <1>1, <1>2, <1>3, <1>4 DEF Stamped
<1>11. Clean'
  BY <1>1, <1>2 DEF Clean
<1>12. TakenOut' /\ Registered'
  <2>1. \A d \in Client : job'[d].op # "delete" /\ job'[d].op # "upsert"
    BY <1>3, <1>4, <1>5 DEF Only
  <2> QED
    BY <2>1 DEF TakenOut, Registered
<1> QED
  BY <1>9, <1>10, <1>11, <1>12 DEF Side

\* The answer: time goes on for the store too.
LEMMA ReturnMaps ==
  ASSUME SoloInv, NEW c \in Client, Others(c), Return(c)
  PROVE  Side' /\ StoreStep
<1>1. /\ CoreType /\ Only(job, c) /\ Stamped /\ Clean /\ TakenOut /\ Registered
      /\ job[c].op = "done"
  BY OthersIdle DEF SoloInv, Inv, Core, Side, Return
<1>2. /\ job' = [job EXCEPT ![c] = Idle] /\ clock' = clock /\ parent' = parent
      /\ rows' = rows /\ tombs' = tombs /\ snaps' = snaps
  BY DEF Return, tables
<1>3. job'[c] = Idle /\ \A d \in Client \ {c} : job'[d] = job[d]
  BY <1>1, <1>2 DEF CoreType
<1>4. Quiet(job')
  BY <1>1, <1>3, NotRunning DEF Only, Quiet
<1>5. StoreClock = job[c].at /\ StoreRows = rows /\ StoreClock' = clock /\ StoreRows' = rows
  <2>1. ClockOf(job, clock) = job[c].at /\ RowsOf(job, rows) = rows
    BY <1>1, OnlyClock, OnlyRows DEF CoreType
  <2>2. ClockOf(job', clock') = clock /\ RowsOf(job', rows') = rows
    BY <1>1, <1>2, <1>4, QuietMap DEF CoreType
  <2> QED
    BY <2>1, <2>2, StoreViews
<1>6. StoreStep
  <2>1. CASE job[c].at = clock
    BY <1>2, <1>5, <2>1 DEF StoreStep, Store!vars
  <2>2. CASE job[c].at # clock
    <3>1. job[c].at \in Nat \ {0} /\ job[c].at <= clock /\ clock \in Nat
      BY <1>1 DEF Stamped
    <3>2. job[c].at < clock /\ clock # 1
      BY <2>2, <3>1
    <3>3. clock <= MaxTime
      BY <1>1, <3>2 DEF Stamped
    <3>4. clock \in (job[c].at + 1) .. MaxTime
      BY <3>1, <3>2, <3>3, ServiceAssumption
    <3>5. Store!Tick
      BY <1>2, <1>5, <3>4 DEF Store!Tick
    <3> QED
      BY <3>5 DEF StoreStep, Store!Next
  <2> QED
    BY <2>1, <2>2
<1>7. Stamped' /\ Clean' /\ TakenOut' /\ Registered'
  BY <1>1, <1>2, <1>4 DEF Stamped, Clean, TakenOut, Registered, Quiet
<1> QED
  BY <1>6, <1>7 DEF Side

-----------------------------------------------------------------------------
\* Who writes nothing and starts nothing changes nothing in the store.
LEMMA StillMaps ==
  ASSUME SoloInv, UNCHANGED <<clock, parent, rows, tombs, snaps, job>>
  PROVE  Side' /\ StoreStep
<1>1. StoreClock' = StoreClock /\ StoreRows' = StoreRows
  BY Zenon, StoreViews
<1>2. StoreStep
  BY <1>1 DEF StoreStep, Store!vars
<1>3. Side'
  BY DEF SoloInv, Side, Stamped, Clean, TakenOut, Registered
<1> QED
  BY <1>2, <1>3

\* Only the table of branches changes: the store's createMemoryBranch or the
\* beginning of a merge.
LEMMA BranchesMap ==
  ASSUME SoloInv, NEW c \in Client, Others(c), Free(c),
         NEW P \in [Branch -> Branch \cup {Null}], parent' = P,
         UNCHANGED <<clock, rows, tombs, snaps, job>>
  PROVE  /\ Side'
         /\ \A b, from \in Branch : P = Ensure(parent, b, from) => StoreStep
         /\ \A b, from \in Branch :
              P = Ensure(Ensure(parent, b, Main), from, Main) => StoreStep
<1>1. CoreType /\ Only(job, c) /\ Quiet(job) /\ Stamped /\ Clean /\ TakenOut /\ Registered
  BY OthersIdle DEF SoloInv, Inv, Core, Side, Free
<1>2. StoreClock' = StoreClock /\ StoreRows' = StoreRows
  BY Zenon, StoreViews
<1>3. Side'
  BY <1>1, ModelAssumption DEF Side, Stamped, Clean, TakenOut, Registered, Quiet
<1>4. ASSUME NEW b \in Branch, NEW from \in Branch, P = Ensure(parent, b, from)
      PROVE  StoreStep
  <2>1. Store!CreateBranch(b, from)
    BY <1>2, <1>4, StoreModel DEF Store!CreateBranch
  <2> QED
    BY <2>1 DEF StoreStep, Store!Next
<1>5. ASSUME NEW b \in Branch, NEW from \in Branch,
             P = Ensure(Ensure(parent, b, Main), from, Main)
      PROVE  StoreStep
  <2>1. Store!BeginMerge(b, from)
    BY <1>2, <1>5, StoreModel DEF Store!BeginMerge
  <2> QED
    BY <2>1 DEF StoreStep, Store!Next
<1> QED
  BY <1>3, <1>4, <1>5

\* deleteMemoriesByIds of one row.
LEMMA DeleteByIdMaps ==
  ASSUME SoloInv, NEW c \in Client, NEW b \in Branch, NEW m \in Memory,
         Others(c), DeleteById(c, b, m)
  PROVE  Side' /\ StoreStep
<1>1. CoreType /\ Only(job, c) /\ Quiet(job) /\ Stamped /\ Clean /\ TakenOut /\ Registered
  BY OthersIdle DEF SoloInv, Inv, Core, Side, Free, DeleteById, Request
<1>2. /\ rows' = [rows EXCEPT ![b][m] = NoRow] /\ Present(rows[b][m])
      /\ snaps' = [snaps EXCEPT ![b][m] = DeleteAt(@, clock)]
      /\ clock' = clock /\ parent' = parent /\ tombs' = tombs /\ job' = job
  BY DEF DeleteById
<1>3. rows' \in [Branch -> [Memory -> Row]]
  BY <1>1, <1>2, Values DEF CoreType
<1>4. StoreClock = clock /\ StoreRows = rows /\ StoreClock' = clock /\ StoreRows' = rows'
  <2>1. ClockOf(job, clock) = clock /\ RowsOf(job, rows) = rows
    BY <1>1, QuietMap DEF CoreType
  <2>2. ClockOf(job', clock') = clock /\ RowsOf(job', rows') = rows'
    BY <1>1, <1>2, <1>3, QuietMap
  <2> QED
    BY <2>1, <2>2, StoreViews
<1>5. StoreStep
  <2>1. rows' = [k \in Branch |-> [n \in Memory |->
                   IF <<k, n>> \in {<<b, m>>} /\ Present(rows[k][n])
                   THEN NoRow ELSE rows[k][n]]]
    BY <1>1, <1>2 DEF CoreType
  <2>2. snaps' = [k \in Branch |-> [n \in Memory |->
                   IF <<k, n>> \in {<<b, m>>} /\ Present(rows[k][n])
                   THEN DeleteAt(snaps[k][n], clock) ELSE snaps[k][n]]]
    BY <1>1, <1>2 DEF CoreType
  <2>3. /\ \A k, n : Store!Present(rows[k][n]) = Present(rows[k][n])
        /\ \A k, n : Store!DeleteAt(snaps[k][n], clock) = DeleteAt(snaps[k][n], clock)
        /\ Store!NoRow = NoRow
    BY StoreModel
  <2>4. StoreRows' = [k \in Branch |-> [n \in Memory |->
                        IF <<k, n>> \in {<<b, m>>} /\ Store!Present(StoreRows[k][n])
                        THEN Store!NoRow ELSE StoreRows[k][n]]]
    BY <1>4, <2>1, <2>3
  <2>5. snaps' = [k \in Branch |-> [n \in Memory |->
                    IF <<k, n>> \in {<<b, m>>} /\ Store!Present(StoreRows[k][n])
                    THEN Store!DeleteAt(snaps[k][n], StoreClock) ELSE snaps[k][n]]]
    BY <1>4, <2>2, <2>3
  <2>6. UNCHANGED <<StoreClock, parent, tombs>>
    BY <1>2, <1>4
  <2>7. Store!DeleteByIds({<<b, m>>})
    BY <2>4, <2>5, <2>6, Zenon DEF Store!DeleteByIds
  <2>8. {<<b, m>>} \in SUBSET (Branch \X Memory)
    OBVIOUS
  <2> QED
    BY <2>7, <2>8 DEF StoreStep, Store!Next
<1>6. Stamped' /\ TakenOut' /\ Registered'
  BY <1>1, <1>2 DEF Stamped, TakenOut, Registered, Quiet
<1>7. Clean'
  BY <1>1, <1>2 DEF Clean, CoreType
<1> QED
  BY <1>5, <1>6, <1>7 DEF Side

\* A temporal read or diff.
LEMMA TemporalReadMaps ==
  ASSUME SoloInv, NEW c \in Client, NEW b \in Branch, Others(c), TemporalRead(c, b)
  PROVE  Side' /\ StoreStep
<1>1. CoreType /\ Only(job, c) /\ Quiet(job) /\ Stamped /\ Clean /\ TakenOut /\ Registered
  BY OthersIdle DEF SoloInv, Inv, Core, Side, Free, TemporalRead, Request
<1>2. /\ snaps' = [d \in Branch |-> [m \in Memory |->
                     IF d \in Seen(Lineage(parent, b))
                     THEN Baseline(snaps[d][m], rows[d][m]) ELSE snaps[d][m]]]
      /\ UNCHANGED <<clock, parent, rows, tombs, job>>
  BY DEF TemporalRead
<1>3. StoreClock' = StoreClock /\ StoreRows' = StoreRows
  BY <1>2, Zenon, StoreViews
<1>4. StoreRows = rows
  BY <1>1, QuietMap, StoreViews DEF CoreType
<1>5. StoreStep
  <2>1. Store!TemporalRead(b)
    BY <1>2, <1>3, <1>4, StoreModel DEF Store!TemporalRead
  <2> QED
    BY <2>1 DEF StoreStep, Store!Next
<1>6. Side'
  BY <1>1, <1>2 DEF Side, Stamped, Clean, TakenOut, Registered, Quiet
<1> QED
  BY <1>5, <1>6

\* Time passes for the store when no request holds it.
LEMMA TickMaps ==
  ASSUME SoloInv, Tick
  PROVE  Side' /\ StoreStep
<1>1. CoreType /\ Stamped /\ Clean /\ TakenOut /\ Registered
  BY DEF SoloInv, Inv, Core, Side
<1>2. clock < MaxTime /\ clock' = clock + 1 /\ UNCHANGED <<parent, rows, tombs, snaps, job>>
  BY DEF Tick, tables
<1>3. clock \in Nat /\ MaxTime \in Nat
  BY <1>1, ServiceAssumption DEF Stamped
<1>4. Side'
  <2>1. Stamped'
    BY <1>1, <1>2, <1>3 DEF Stamped
  <2> QED
    BY <1>1, <1>2, <2>1 DEF Side, Clean, TakenOut, Registered
<1>5. StoreStep
  <2>1. StoreRows' = StoreRows
    BY <1>2, Zenon, StoreViews
  <2>2. CASE Quiet(job)
    <3>1. StoreClock = clock /\ StoreClock' = clock + 1
      BY <1>1, <1>2, <2>2, QuietMap, StoreViews DEF CoreType
    <3>2. clock + 1 \in (clock + 1) .. MaxTime
      BY <1>2, <1>3
    <3>3. Store!Tick
      BY <1>2, <2>1, <3>1, <3>2 DEF Store!Tick
    <3> QED
      BY <3>3 DEF StoreStep, Store!Next
  <2>3. CASE ~Quiet(job)
    <3>1. PICK c \in Client : job[c].op # "idle"
      BY <2>3 DEF Quiet
    <3>2. {d \in Client : job[d].op # "idle"} # {}
      BY <3>1
    <3>3. StoreClock' = StoreClock
      BY <1>2, <3>2, StoreViews DEF ClockOf
    <3> QED
      BY <1>2, <2>1, <3>3 DEF StoreStep, Store!vars
  <2> QED
    BY <2>2, <2>3
<1> QED
  BY <1>4, <1>5

-----------------------------------------------------------------------------
\* What one client does.
Acts(c) ==
  \/ WriteUpsert(c) \/ WriteDelete(c) \/ Return(c) \/ EndMerge(c)
  \/ \E m \in Memory : MergeRow(c, m) \/ KeepRow(c, m) \/ MergeDelete(c, m) \/ KeepDeleted(c, m)
  \/ \E b \in Branch : TemporalRead(c, b)
  \/ \E b, from \in Branch : CreateBranch(c, b, from)
  \/ \E b, from \in Branch, m \in Memory, v \in Version : RequestUpsert(c, b, m, v, from)
  \/ \E b \in Branch, m \in Memory : RequestDelete(c, b, m) \/ DeleteById(c, b, m)
  \/ \E source, target \in Branch, wins \in Strategies : BeginMerge(c, source, target, wins)

\* Every step but the clock's and a crash is some client's.
LEMMA NextIsActs == Next <=> Tick \/ Crash \/ \E c \in Client : Acts(c)
  BY DEF Next, Acts

\* It leaves the other clients alone.
LEMMA Bystanders ==
  ASSUME SoloInv, NEW c \in Client, Acts(c), NEW d \in Client \ {c}
  PROVE  job'[d] = job[d] /\ merge'[d] = merge[d]
<1>1. /\ \A j : [job EXCEPT ![c] = j][d] = job[d]
      /\ \A g : [merge EXCEPT ![c] = g][d] = merge[d]
  BY DEF SoloInv, Inv, Core, CoreType, MergeInv
<1>2. \/ job' = job
      \/ \E j : job' = [job EXCEPT ![c] = j]
  BY DEF Acts, WriteUpsert, WriteDelete, Return, EndMerge, MergeRow, KeepRow, MergeDelete,
         KeepDeleted, TemporalRead, CreateBranch, RequestUpsert, RequestDelete, DeleteById,
         BeginMerge, StartUpsert, StartDelete, DeleteAbsent
<1>3. \/ merge' = merge
      \/ \E g : merge' = [merge EXCEPT ![c] = g]
  BY DEF Acts, WriteUpsert, WriteDelete, Return, EndMerge, MergeRow, KeepRow, MergeDelete,
         KeepDeleted, TemporalRead, CreateBranch, RequestUpsert, RequestDelete, DeleteById,
         BeginMerge, Request
<1> QED
  BY <1>1, <1>2, <1>3

\* Without overlap it acts alone.
LEMMA ActsAlone ==
  ASSUME SoloInv, ~Overlap, NEW c \in Client, Acts(c)
  PROVE  Others(c)
<1>1. ~Free(c) \/ MayBegin(c)
  BY NotRunning DEF Acts, WriteUpsert, WriteDelete, Return, EndMerge, MergeRow, KeepRow, MergeDelete,
         KeepDeleted, TemporalRead, CreateBranch, RequestUpsert, RequestDelete, DeleteById,
         BeginMerge, Request, NextRow, NextDelete, Free
<1> QED
  BY <1>1 DEF Others, SoloInv, Alone, MayBegin

-----------------------------------------------------------------------------
\* Each thing a client does alone is a step of the store, or none.
LEMMA ActsMap ==
  ASSUME SoloInv, ~Overlap, NEW c \in Client, Acts(c)
  PROVE  Side' /\ StoreStep
<1>1. Others(c) /\ CoreType /\ MergeInv
  BY ActsAlone DEF SoloInv, Inv, Core
<1>2. CASE WriteUpsert(c) \/ WriteDelete(c) \/ Return(c)
  BY <1>1, <1>2, WriteUpsertMaps, WriteDeleteMaps, ReturnMaps
<1>3. CASE EndMerge(c) \/ \E m \in Memory : KeepRow(c, m) \/ KeepDeleted(c, m)
  BY <1>3, StillMaps DEF EndMerge, KeepRow, KeepDeleted, tables
<1>4. ASSUME NEW m \in Memory, MergeRow(c, m)
      PROVE  Side' /\ StoreStep
  <2>1. /\ job[c] = Idle /\ merge[c] \in Merge /\ m \in merge[c].ups
        /\ StartUpsert(c, merge[c].target, m, merge[c].copy[m].version, Main)
    BY <1>1, <1>4 DEF MergeRow, NextRow, MergeInv
  <2>2. merge[c].target \in Branch /\ merge[c].copy[m].version \in Version
    BY <1>1, <1>4, NextRowType DEF MergeRow
  <2> QED
    BY <1>1, <2>1, <2>2, StartUpsertMaps, ModelAssumption
<1>5. ASSUME NEW m \in Memory, MergeDelete(c, m)
      PROVE  Side' /\ StoreStep
  <2>1. /\ job[c] = Idle /\ merge[c].target \in Branch
        /\ StartDelete(c, merge[c].target, m) \/ DeleteAbsent(c, merge[c].target, m)
    BY <1>1, <1>5 DEF MergeDelete, NextDelete, MergeInv, Merge
  <2> QED
    BY <1>1, <2>1, StartDeleteMaps, DeleteAbsentMaps
<1>6. ASSUME NEW b \in Branch, TemporalRead(c, b)
      PROVE  Side' /\ StoreStep
  BY <1>1, <1>6, TemporalReadMaps
<1>7. ASSUME NEW b \in Branch, NEW from \in Branch, CreateBranch(c, b, from)
      PROVE  Side' /\ StoreStep
  <2>1. /\ Free(c) /\ parent' = Ensure(parent, b, from)
        /\ UNCHANGED <<clock, rows, tombs, snaps, job>>
    BY <1>7 DEF CreateBranch, Request
  <2>2. Ensure(parent, b, from) \in [Branch -> Branch \cup {Null}]
    BY <1>1 DEF CoreType, Ensure
  <2> QED
    BY <1>1, <2>1, <2>2, BranchesMap
<1>8. ASSUME NEW b \in Branch, NEW from \in Branch, NEW m \in Memory, NEW v \in Version,
             RequestUpsert(c, b, m, v, from)
      PROVE  Side' /\ StoreStep
  BY <1>1, <1>8, StartUpsertMaps DEF RequestUpsert, Request, Free
<1>9. ASSUME NEW b \in Branch, NEW m \in Memory, RequestDelete(c, b, m)
      PROVE  Side' /\ StoreStep
  BY <1>1, <1>9, StartDeleteMaps, DeleteAbsentMaps DEF RequestDelete, Request, Free
<1>10. ASSUME NEW b \in Branch, NEW m \in Memory, DeleteById(c, b, m)
       PROVE  Side' /\ StoreStep
  BY <1>1, <1>10, DeleteByIdMaps
<1>11. ASSUME NEW source \in Branch, NEW target \in Branch, NEW wins \in Strategies,
              BeginMerge(c, source, target, wins)
       PROVE  Side' /\ StoreStep
  <2>1. /\ Free(c) /\ parent' = Ensure(Ensure(parent, source, Main), target, Main)
        /\ UNCHANGED <<clock, rows, tombs, snaps, job>>
    BY <1>11 DEF BeginMerge
  <2>2. Ensure(Ensure(parent, source, Main), target, Main) \in [Branch -> Branch \cup {Null}]
    <3>1. Ensure(parent, source, Main) \in [Branch -> Branch \cup {Null}]
      BY <1>1, ModelAssumption DEF CoreType, Ensure
    <3> HIDE DEF Ensure
    <3> QED
      BY <3>1, ModelAssumption DEF Ensure
  <2> QED
    BY <1>1, <2>1, <2>2, BranchesMap
<1> QED
  BY <1>2, <1>3, <1>4, <1>5, <1>6, <1>7, <1>8, <1>9, <1>10, <1>11 DEF Acts

\* A client that acts alone meets nobody.
LEMMA ActsUnmet ==
  ASSUME SoloInv, ~Overlap, NEW c \in Client, Acts(c)
  PROVE  Unmet'
<1>1. \A b \in Branch, m \in Memory : ~Clash(c, b, m)
  <2>1. \A d \in Client \ {c} : job[d].op = "idle"
    BY ActsAlone, NotRunning DEF Others, Free
  <2> QED
    BY <2>1 DEF Clash, Running
<1>2. suspect' = suspect \/ \E b \in Branch, m \in Memory : Mark(c, b, m)
  <2>1. CASE WriteUpsert(c) \/ WriteDelete(c) \/ Return(c) \/ EndMerge(c)
    BY <2>1 DEF WriteUpsert, WriteDelete, Return, EndMerge
  <2>2. ASSUME NEW m \in Memory,
               MergeRow(c, m) \/ KeepRow(c, m) \/ MergeDelete(c, m) \/ KeepDeleted(c, m)
        PROVE  suspect' = suspect \/ \E b \in Branch, n \in Memory : Mark(c, b, n)
    <3>1. merge[c].target \in Branch
      <4>1. merge[c] \in Merge
        BY <2>2 DEF SoloInv, Inv, MergeInv, MergeRow, KeepRow, MergeDelete, KeepDeleted,
                    NextRow, NextDelete
      <4> QED
        BY <4>1 DEF Merge
    <3>2. Mark(c, merge[c].target, m) \/ suspect' = suspect
      BY <2>2 DEF MergeRow, KeepRow, MergeDelete, KeepDeleted, StartUpsert, StartDelete, DeleteAbsent
    <3> QED
      BY <3>1, <3>2
  <2>3. ASSUME NEW b \in Branch, NEW m \in Memory, RequestDelete(c, b, m) \/ DeleteById(c, b, m)
        PROVE  Mark(c, b, m)
    BY <2>3 DEF RequestDelete, DeleteById, StartDelete, DeleteAbsent
  <2>4. ASSUME NEW b \in Branch, NEW from \in Branch, NEW m \in Memory, NEW v \in Version,
               RequestUpsert(c, b, m, v, from)
        PROVE  Mark(c, b, m)
    BY <2>4 DEF RequestUpsert, StartUpsert
  <2>5. CASE \/ \E b \in Branch : TemporalRead(c, b)
             \/ \E b, from \in Branch : CreateBranch(c, b, from)
             \/ \E source, target \in Branch, wins \in Strategies : BeginMerge(c, source, target, wins)
    BY <2>5 DEF TemporalRead, CreateBranch, BeginMerge
  <2> QED
    BY <2>1, <2>2, <2>3, <2>4, <2>5, Zenon DEF Acts
<1> QED
  BY <1>1, <1>2 DEF Mark, SoloInv, Unmet

\* A crash leaves tables that are as clean as they were.
LEMMA CrashSide ==
  ASSUME SoloInv, Crash
  PROVE  Alone' /\ Side' /\ Unmet'
<1>1. /\ Fallen /\ \A b \in Branch, m \in Memory : Struck(b, m)
      /\ Stamped /\ Clean /\ Unmet
  BY CrashLeaves DEF Wreck, SoloInv, Side
<1>2. /\ clock' = clock /\ parent' = parent /\ suspect' = suspect
      /\ \A c \in Client : job'[c] = Idle /\ merge'[c] = Null /\ job'[c].op = "idle"
  BY <1>1, NotRunning DEF Fallen
<1>3. Alone' /\ Unmet'
  BY <1>1, <1>2 DEF Alone, Free, Unmet
<1>4. Stamped' /\ TakenOut' /\ Registered'
  BY <1>1, <1>2 DEF Stamped, TakenOut, Registered
<1>5. ASSUME NEW b \in Branch, NEW m \in Memory
      PROVE  Present(rows'[b][m]) \/ rows'[b][m] = NoRow
  <2>1. CASE rows'[b][m] = rows[b][m]
    BY <1>1, <2>1 DEF Clean
  <2>2. ASSUME NEW t \in Nat, HalfWritten(b, m, t)
        PROVE  Present(rows'[b][m]) \/ rows'[b][m] = NoRow
    <3>1. ASSUME NEW v \in Version, rows'[b][m] = [version |-> v, at |-> t]
          PROVE  Present(rows'[b][m])
      BY <3>1, ModelAssumption DEF Present
    <3> QED
      BY <2>1, <2>2, <3>1 DEF HalfWritten
  <2>3. Struck(b, m)
    BY <1>1
  <2> QED
    BY <2>1, <2>2, <2>3, Zenon DEF Struck, Spared, HalfRead
<1> QED
  BY <1>3, <1>4, <1>5 DEF Side, Clean

\* What a crash tears is the one key that was being written.
LEMMA OneTorn ==
  ASSUME SoloInv, ~Overlap, Crash
  PROVE  \A j, k \in torn' \ torn : j = k
<1> DEFINE deletes == {d \in Client : job[d].op = "delete"}
           cut == {<<job[d].b, job[d].m>> : d \in deletes}
<1>1. \A c, d \in Client : c # d => Free(c) \/ Free(d)
  BY DEF SoloInv, Alone
<1>2. \A d \in Client : Free(d) => d \notin deletes
  BY NotRunning DEF Free
<1>3. ASSUME NEW c \in Client, \A d \in deletes : d = c
      PROVE  \A j \in cut : j = <<job[c].b, job[c].m>>
  BY <1>3
<1>4. ASSUME NEW c \in Client, ~Free(c)
      PROVE  \A d \in deletes : d = c
  BY <1>1, <1>2, <1>4
<1>5. ASSUME NEW c \in Client, Free(c), MayBegin(c)
      PROVE  cut = {}
  BY <1>2, <1>5 DEF MayBegin
<1>6. \A d, e \in deletes : d = e
  BY <1>1, <1>2
<1>7. ASSUME NEW keys, Die(keys)
      PROVE  \A j \in torn' \ torn : j \in keys \/ j \in cut
  BY <1>7 DEF Die
<1>8. \A j, k \in cut : j = k
  BY <1>6
<1>9. ASSUME Die({})
      PROVE  \A j, k \in torn' \ torn : j = k
  <2> HIDE DEF cut, deletes
  <2> QED
    BY <1>7, <1>8, <1>9
<1>10. ASSUME NEW c \in Client, CrashInUpsert(c) \/ CrashInDelete(c)
       PROVE  \A j, k \in torn' \ torn : j = k
  <2>1. ~Free(c) /\ Die({<<job[c].b, job[c].m>>})
    BY <1>10, NotRunning DEF CrashInUpsert, CrashInDelete, CutDelete, Free
  <2>2. \A j \in cut : j = <<job[c].b, job[c].m>>
    BY <1>3, <1>4, <2>1
  <2> HIDE DEF cut, deletes
  <2> QED
    BY <1>7, <2>1, <2>2
<1>11. ASSUME NEW c \in Client, NEW b \in Branch, NEW m \in Memory,
              CrashInDeleteAbsent(c, b, m) \/ CrashInDeleteById(c, b, m)
       PROVE  \A j, k \in torn' \ torn : j = k
  <2>1. Die({<<b, m>>})
    BY <1>11 DEF CrashInDeleteAbsent, CrashInDeleteById, CutDelete
  <2>2. cut = {}
    <3>1. CASE Free(c) /\ MayBegin(c)
      BY <1>5, <3>1
    <3>2. CASE NextDelete(c, m)
      <4>1. ~Free(c) /\ c \notin deletes
        BY <3>2, NotRunning DEF NextDelete, Free
      <4>2. deletes = {}
        BY <1>4, <4>1
      <4> QED
        BY <4>2
    <3> QED
      BY <1>11, <3>1, <3>2 DEF CrashInDeleteAbsent, CrashInDeleteById
  <2> HIDE DEF cut, deletes
  <2> QED
    BY <1>7, <2>1, <2>2
<1> QED
  BY <1>9, <1>10, <1>11 DEF Crash, CrashAtAwait, CrashInRead

\* Every other key is as it was, or has the baseline of a read.
LEMMA CrashContained ==
  ASSUME SoloInv, ~Overlap, Crash
  PROVE  Contained
<1>1. /\ Fallen /\ TablesLeft /\ \A b \in Branch, m \in Memory : Struck(b, m)
      /\ CoreType /\ Keys /\ Unmet
  BY CrashLeaves DEF Wreck, SoloInv, Inv, Core
<1>2. \A c \in Client : job'[c].op = "idle"
  BY <1>1, NotRunning DEF Fallen
<1>3. StoreRows' = rows'
  <2>1. Quiet(job')
    BY <1>2 DEF Quiet
  <2> QED
    BY <1>1, <2>1, QuietMap, StoreViews DEF TablesLeft
<1>4. ASSUME NEW b \in Branch, NEW m \in Memory, <<b, m>> \notin torn'
      PROVE  /\ StoreRows'[b][m] = StoreRows[b][m] /\ (m \in tombs'[b] <=> m \in tombs[b])
             /\ snaps'[b][m] \in {snaps[b][m], Baseline(snaps[b][m], rows[b][m])}
  <2>1. ~InDelete(b, m) /\ <<b, m>> \notin suspect \cup torn /\ KeyOK(b, m) /\ Struck(b, m)
    BY <1>1, <1>4 DEF Fallen, Unmet, Keys
  <2>2. StoreRows[b][m] = rows[b][m]
    <3>1. Takers(job, b, m) = {}
      BY <2>1 DEF Takers, InDelete
    <3> QED
      BY <3>1, StoreViews DEF RowsOf
  <2>3. Consistent(b, m)
    BY <2>1 DEF KeyOK, Exempt
  <2>4. CutBaseline(snaps[b][m], rows[b][m]) = snaps[b][m]
    <3>1. Present(rows[b][m]) /\ OpenUpserts(snaps[b][m]) = {} => snaps[b][m] = {}
      BY <2>3 DEF Consistent, Recorded
    <3>2. snaps[b][m] = {} => Close(snaps[b][m], rows[b][m].at) = {}
      BY DEF Close
    <3> QED
      BY <3>1, <3>2 DEF CutBaseline
  <2>5. Spared(b, m) \/ HalfRead(b, m)
    BY <1>4, <2>1, Zenon DEF Struck, HalfWritten
  <2>6. /\ rows'[b][m] = rows[b][m] /\ (m \in tombs'[b] <=> m \in tombs[b])
        /\ snaps'[b][m] = snaps[b][m] \/ snaps'[b][m] = Baseline(snaps[b][m], rows[b][m])
    BY <2>4, <2>5 DEF Spared, HalfRead
  <2> QED
    BY <1>3, <2>2, <2>6
<1> QED
  BY <1>4, OneTorn DEF Contained

\* Every step keeps the invariant, and is one of the store or a contained crash.
LEMMA SoloNext ==
  ASSUME ~Overlap, SoloInv, [Next]_vars
  PROVE  SoloInv' /\ (StoreStep \/ Contained)
<1>1. Inv'
  BY InvNext DEF SoloInv
<1>2. CASE UNCHANGED vars
  <2>1. UNCHANGED <<clock, parent, rows, tombs, snaps, job, merge, suspect>>
    BY <1>2 DEF vars, tables
  <2>2. Alone' /\ Unmet'
    BY <2>1 DEF SoloInv, Alone, Free, Unmet
  <2> QED
    BY <1>1, <2>1, <2>2, StillMaps DEF SoloInv
<1>3. CASE Tick
  <2>1. Alone' /\ Unmet'
    BY <1>3 DEF Tick, SoloInv, Alone, Free, Unmet
  <2> QED
    BY <1>1, <1>3, <2>1, TickMaps DEF SoloInv
<1>4. CASE Crash
  BY <1>1, <1>4, CrashSide, CrashContained DEF SoloInv
<1>5. ASSUME NEW c \in Client, Acts(c)
      PROVE  SoloInv' /\ StoreStep
  <2>1. Alone'
    BY <1>5, ActsAlone, Bystanders DEF Others, Alone, Free
  <2> QED
    BY <1>1, <1>5, <2>1, ActsMap, ActsUnmet DEF SoloInv
<1> QED
  BY <1>2, <1>3, <1>4, <1>5, NextIsActs

\* The tables the service starts with are the store's.
LEMMA SoloInit == Init => SoloInv /\ Store!Init
<1> SUFFICES ASSUME Init PROVE SoloInv /\ Store!Init
  OBVIOUS
<1>1. Inv /\ CoreType
  BY InvInit DEF Inv, Core
<1>2. Quiet(job) /\ Alone
  BY NotRunning DEF Init, Quiet, Alone, Free
<1>3. PICK content \in [Legacy -> Version] :
        rows = [b \in Branch |-> [m \in Memory |->
                  IF b = Main /\ m \in Legacy
                  THEN [version |-> content[m], at |-> 0] ELSE NoRow]]
  BY DEF Init
<1>4. StoreClock = clock /\ StoreRows = rows
  BY <1>1, <1>2, QuietMap, StoreViews DEF CoreType
<1>5. Side
  <2>1. Clean
    <3>1. \A m \in Legacy : Present([version |-> content[m], at |-> 0])
      BY ModelAssumption DEF Present
    <3> QED
      BY <1>3, <3>1 DEF Clean
  <2>2. Stamped
    BY <1>2 DEF Init, Stamped, Quiet
  <2> QED
    BY <1>2, <2>1, <2>2 DEF Side, TakenOut, Registered, Quiet
<1>6. Store!Init
  BY <1>3, <1>4, StoreModel DEF Init, Store!Init, Store!InitTables
<1>7. Unmet
  BY DEF Init, Unmet
<1> QED
  BY <1>1, <1>2, <1>5, <1>6, <1>7 DEF SoloInv

\* Handled one at a time, requests are atomic even though no transaction is opened
\* and the process may die between any two statements: each step of the service is
\* one of MemoryStore's operations at the instant of the request's stamp, or changes
\* nothing there, or is a crash that leaves one key damaged and every other as the
\* store had it.  For any number of clients and branches.
THEOREM OneByOne == ASSUME ~Overlap PROVE Spec => OnlyCrashesTear
<1>1. SoloInv /\ [Next]_vars => SoloInv' /\ [Store!Next \/ Contained]_(Store!vars)
  BY SoloNext DEF StoreStep
<1> QED
  BY <1>1, SoloInit, PTL DEF Spec, OnlyCrashesTear

\* Without a crash the service implements MemoryStore.
THEOREM Atomic == ASSUME ~Overlap, ~Crashes PROVE Spec => ImplementsStore
<1>1. SoloInv /\ [Next]_vars => SoloInv' /\ [Store!Next]_(Store!vars)
  <2>1. ASSUME SoloInv, Contained PROVE FALSE
    BY <2>1, CrashLeaves DEF Contained, SoloInv, Wreck, Die
  <2> QED
    BY <2>1, SoloNext DEF StoreStep
<1> QED
  BY <1>1, SoloInit, PTL DEF Spec, ImplementsStore, Store!Spec

-----------------------------------------------------------------------------
(***************************************************************************)
(* What the store's readers promise, kept by the service.                  *)
(***************************************************************************)

\* The instance with the theorems has the operators of the one that is refined,
LEMMA SPModel ==
  /\ SP!NoRow = Store!NoRow /\ SP!Open = Store!Open
  /\ \A r : SP!Present(r) = Store!Present(r)
  /\ \A p, b, from : SP!Ensure(p, b, from) = Store!Ensure(p, b, from)
  /\ \A p, b : SP!Lineage(p, b) = Store!Lineage(p, b)
  /\ \A w : SP!Seen(w) = Store!Seen(w)
  /\ \A w, B : SP!FirstBranch(w, B) = Store!FirstBranch(w, B)
  /\ \A R, m : SP!Holders(R, m) = Store!Holders(R, m)
  /\ \A l, v, t : SP!UpsertAt(l, v, t) = Store!UpsertAt(l, v, t)
  /\ \A l, t : SP!DeleteAt(l, t) = Store!DeleteAt(l, t)
  /\ \A l : SP!OpenUpserts(l) = Store!OpenUpserts(l)
  /\ \A l : SP!OpenDeletes(l) = Store!OpenDeletes(l)
  /\ \A l, r : SP!Baseline(l, r) = Store!Baseline(l, r)
  /\ \A l, t : SP!Valid(l, t) = Store!Valid(l, t)
<1>1. SP!NoRow = Store!NoRow /\ SP!Open = Store!Open
  BY Zenon DEF Store!NoRow, SP!NoRow, Store!Open, SP!Open
<1>2. \A r : SP!Present(r) = Store!Present(r)
  BY Zenon DEF Store!Present, SP!Present
<1>3. \A p, b, from : SP!Ensure(p, b, from) = Store!Ensure(p, b, from)
  BY Zenon DEF Store!Ensure, SP!Ensure
<1>5. \A w : SP!Seen(w) = Store!Seen(w)
  BY Zenon DEF Store!Seen, SP!Seen
<1>6. \A p, b : SP!Lineage(p, b) = Store!Lineage(p, b)
  BY Zenon DEF Store!Lineage, SP!Lineage, Store!Seen, SP!Seen, Store!ParentOf, SP!ParentOf
<1>7. \A w, B : SP!FirstBranch(w, B) = Store!FirstBranch(w, B)
  BY Zenon DEF Store!FirstBranch, SP!FirstBranch
<1>8. \A R, m : SP!Holders(R, m) = Store!Holders(R, m)
  BY Zenon DEF Store!Holders, SP!Holders, Store!Present, SP!Present
<1>9. \A l, v, t : SP!UpsertAt(l, v, t) = Store!UpsertAt(l, v, t)
  BY Zenon DEF Store!UpsertAt, SP!UpsertAt, Store!Insert, SP!Insert, Store!Close, SP!Close, Store!Open, SP!Open
<1>10. \A l, t : SP!DeleteAt(l, t) = Store!DeleteAt(l, t)
  BY Zenon DEF Store!DeleteAt, SP!DeleteAt, Store!Insert, SP!Insert, Store!Close, SP!Close, Store!Open, SP!Open
<1>11. \A l : SP!OpenUpserts(l) = Store!OpenUpserts(l)
  BY Zenon DEF Store!OpenUpserts, SP!OpenUpserts, Store!Open, SP!Open
<1>12. \A l : SP!OpenDeletes(l) = Store!OpenDeletes(l)
  BY Zenon DEF Store!OpenDeletes, SP!OpenDeletes, Store!Open, SP!Open
<1>13. \A l, r : SP!Baseline(l, r) = Store!Baseline(l, r)
  BY <1>2, <1>9, <1>11, Zenon DEF Store!Baseline, SP!Baseline
<1>14. \A l, t : SP!Valid(l, t) = Store!Valid(l, t)
  BY Zenon DEF Store!Valid, SP!Valid, Store!Baseline, SP!Baseline, Store!OpenUpserts, SP!OpenUpserts,
     Store!UpsertAt, SP!UpsertAt, Store!Insert, SP!Insert, Store!Close, SP!Close,
     Store!Open, SP!Open
<1> QED
  BY <1>1, <1>2, <1>3, <1>5, <1>6, <1>7, <1>8, <1>9, <1>10, <1>11, <1>12, <1>13, <1>14

\* the same initial states,
LEMMA SPInit == Store!Init => SP!Init
  BY Zenon DEF Store!Init, SP!Init, Store!InitTables, SP!InitTables, Store!NoRow, SP!NoRow

\* the same steps
LEMMA SPNext == Store!Next => SP!Next
<1>1. Store!Tick => SP!Tick
  BY Zenon DEF Store!Tick, SP!Tick
<1>2. \A b, from : Store!CreateBranch(b, from) => SP!CreateBranch(b, from)
  BY SPModel, Zenon DEF Store!CreateBranch, SP!CreateBranch
<1>3. \A b, from : Store!BeginMerge(b, from) => SP!BeginMerge(b, from)
  BY SPModel, Zenon DEF Store!BeginMerge, SP!BeginMerge
<1>4. \A b, m, v, from : Store!Upsert(b, m, v, from) => SP!Upsert(b, m, v, from)
  BY SPModel, Zenon DEF Store!Upsert, SP!Upsert
<1>5. \A b, m : Store!Delete(b, m) => SP!Delete(b, m)
  BY SPModel, Zenon DEF Store!Delete, SP!Delete
<1>6. \A keys : Store!DeleteByIds(keys) => SP!DeleteByIds(keys)
  BY Zenon DEF Store!DeleteByIds, SP!DeleteByIds, Store!NoRow, SP!NoRow, Store!Present, SP!Present,
     Store!DeleteAt, SP!DeleteAt, Store!Insert, SP!Insert, Store!Close, SP!Close, Store!Open, SP!Open
<1>7. \A b : Store!TemporalRead(b) => SP!TemporalRead(b)
  BY Zenon DEF Store!TemporalRead, SP!TemporalRead, Store!Seen, SP!Seen, Store!Lineage, SP!Lineage,
     Store!ParentOf, SP!ParentOf, Store!Baseline, SP!Baseline, Store!Present, SP!Present,
     Store!OpenUpserts, SP!OpenUpserts, Store!UpsertAt, SP!UpsertAt, Store!Insert, SP!Insert,
     Store!Close, SP!Close, Store!Open, SP!Open
<1> QED
  BY <1>1, <1>2, <1>3, <1>4, <1>5, <1>6, <1>7, Zenon DEF Store!Next, SP!Next

\* and the same readers.
LEMMA SPViews == SP!ViewsAgree => Store!ViewsAgree
<1>1. ASSUME NEW p, NEW r, NEW t, NEW b, NEW m
      PROVE  SP!View(p, r, t, b, m) = Store!View(p, r, t, b, m)
  <2> DEFINE lineage == Store!Lineage(p, b)
  <2>1. SP!Lineage(p, b) = lineage /\ SP!Holders(r, m) = Store!Holders(r, m)
    BY SPModel
  <2>2. \A B : SP!FirstBranch(lineage, B) = Store!FirstBranch(lineage, B)
    BY SPModel
  <2>3. SP!Seen(lineage) = Store!Seen(lineage)
    BY SPModel
  <2> QED
    BY <2>1, <2>2, <2>3, Zenon DEF Store!View, SP!View
<1>2. ASSUME NEW p, NEW r, NEW l, NEW b, NEW m, NEW t
      PROVE  SP!AsOf(p, r, l, b, m, t) = Store!AsOf(p, r, l, b, m, t)
  <2> DEFINE V(c) == Store!Valid(Store!Baseline(l[c][m], r[c][m]), t)
             W(c) == SP!Valid(SP!Baseline(l[c][m], r[c][m]), t)
             vOwner == Store!FirstBranch(Store!Lineage(p, b), {c \in Branch : V(c) # {}})
             wOwner == SP!FirstBranch(SP!Lineage(p, b), {c \in Branch : W(c) # {}})
             vLast == CHOOSE s \in V(vOwner) : \A u \in V(vOwner) : u.from <= s.from
             wLast == CHOOSE s \in W(wOwner) : \A u \in W(wOwner) : u.from <= s.from
  <2>1. Store!AsOf(p, r, l, b, m, t) = IF vOwner = Null THEN Null ELSE vLast.version
    BY Zenon DEF Store!AsOf
  <2>2. SP!AsOf(p, r, l, b, m, t) = IF wOwner = Null THEN Null ELSE wLast.version
    BY Zenon DEF SP!AsOf
  <2>3. \A c : W(c) = V(c)
    BY SPModel
  <2>4. wOwner = vOwner
    <3> HIDE DEF V, W
    <3>1. {c \in Branch : W(c) # {}} = {c \in Branch : V(c) # {}}
      BY <2>3
    <3> QED
      BY <3>1, SPModel
  <2>5. wLast = vLast
    <3>1. W(wOwner) = V(vOwner)
      BY <2>3, <2>4, Zenon
    <3> QED
      BY <3>1, Zenon
  <2> HIDE DEF V, W, vOwner, wOwner, vLast, wLast
  <2> QED
    BY <2>1, <2>2, <2>4, <2>5
<1>3. \A b, m : SP!CurrentView(b, m) = Store!CurrentView(b, m)
  BY <1>1, Zenon DEF SP!CurrentView, Store!CurrentView
<1>4. \A b, m, t : SP!ViewAsOf(b, m, t) = Store!ViewAsOf(b, m, t)
  BY <1>2, Zenon DEF SP!ViewAsOf, Store!ViewAsOf
<1>5. \A b, m : SP!Masked(b, m) = Store!Masked(b, m)
  BY SPModel, Zenon DEF SP!Masked, Store!Masked
<1>6. \A b, m : SP!BareDelete(b, m) = Store!BareDelete(b, m)
  BY SPModel, Zenon DEF SP!BareDelete, Store!BareDelete
<1>7. \A p, b : SP!Seen(SP!Lineage(p, b)) = Store!Seen(Store!Lineage(p, b))
  BY SPModel
<1> QED
  BY <1>3, <1>4, <1>5, <1>6, <1>7, Zenon DEF SP!ViewsAgree, Store!ViewsAgree

\* Handled one at a time and without a crash, requests leave the two readers of
\* each branch agreeing: what MemoryStore promises, its implementation keeps.
THEOREM ServedReadersAgree == ASSUME ~Overlap, ~Crashes PROVE Spec => []ViewsAgree
<1>1. SP!Spec => []SP!ViewsAgree
  BY SP!ReadersAgree, ModelAssumption, ServiceAssumption, PTL
<1>2. Spec => Store!Spec
  BY Atomic, PTL DEF ImplementsStore
<1>3. [Store!Next]_(Store!vars) => [SP!Next]_(SP!vars)
  BY SPNext, Zenon DEF Store!vars, SP!vars
<1>4. SP!ViewsAgree => ViewsAgree
  BY SPViews DEF ViewsAgree
<1> QED
  BY <1>1, <1>2, <1>3, <1>4, SPInit, PTL DEF Store!Spec, SP!Spec

-----------------------------------------------------------------------------
(***************************************************************************)
(* What a merge leaves.                                                    *)
(***************************************************************************)

\* A merge of one branch into another in which the source wins.
Carries(c) ==
  merge[c] # Null /\ merge[c].wins = "source" /\ merge[c].source # merge[c].target

\* What it has read is still so; each tombstone of the source, and each row that
\* no tombstone of the source hides, is one it has still to write, one it is
\* writing, or one the target has.  (A crash may have left a row beside a
\* tombstone; the merge writes the row and then, as deletes come last, removes it.)
Transfer(c) ==
  LET k == merge[c] j == job[c] s == k.source t == k.target
  IN  /\ k.copy = rows[s]
      /\ k.dels \subseteq tombs[s]
      /\ Running(c) => j.b = t
      /\ j.op = "upsert" => j.v = rows[s][j.m].version
      /\ j.op = "delete" => j.m \in tombs[s]
      /\ k.ups # {} \/ j.op = "upsert" => tombs[s] \subseteq k.dels
      /\ \A m \in Memory : Present(rows[s][m]) /\ m \notin tombs[s] =>
           m \in k.ups \/ (j.op = "upsert" /\ j.m = m) \/ rows[t][m].version = rows[s][m].version
      /\ \A m \in tombs[s] :
           \/ m \in k.dels \/ (j.op = "delete" /\ j.m = m)
           \/ ~Present(rows[t][m]) /\ (t = Main \/ m \in tombs[t])

MergeTold == \A c \in Client : Carries(c) => Transfer(c)

\* A client's step keeps account of the merge it is in.
LEMMA TransferNext ==
  ASSUME SoloInv, NEW c \in Client, Acts(c), Carries(c)',
         Carries(c) => Transfer(c)
  PROVE  Transfer(c)'
<1>1. CoreType /\ Loaded /\ TakenOut /\ MergeInv /\ job[c] \in Job /\ c \in DOMAIN job
      /\ c \in DOMAIN merge
  BY DEF SoloInv, Inv, Core, Side, CoreType, MergeInv
<1>2. ~Present(NoRow)
  BY DEF Present, NoRow
<1>3. CASE merge[c] = Null
  <2>1. PICK source \in Branch, target \in Branch, wins \in Strategies :
          BeginMerge(c, source, target, wins)
    <3>1. merge'[c] # Null
      BY DEF Carries
    <3> QED
      BY <1>1, <1>3, <3>1
      DEF Acts, WriteUpsert, WriteDelete, Return, EndMerge, MergeRow, KeepRow, MergeDelete,
          KeepDeleted, TemporalRead, CreateBranch, RequestUpsert, RequestDelete, DeleteById,
          Request, NextRow, NextDelete
  <2> DEFINE k == [source |-> source, target |-> target, wins |-> wins,
                   copy |-> rows[source],
                   ups |-> {m \in Memory : Present(rows[source][m])}, dels |-> tombs[source]]
  <2>2. merge'[c] = k /\ rows' = rows /\ tombs' = tombs /\ job' = job /\ job[c] = Idle
    BY <1>1, <2>1 DEF BeginMerge, Free
  <2>3. k.source = source /\ k.copy = rows[source] /\ k.dels = tombs[source]
        /\ k.ups = {m \in Memory : Present(rows[source][m])}
    OBVIOUS
  <2>4. job[c].op = "idle"
    BY <2>2 DEF Idle
  <2> HIDE DEF k
  <2> QED
    BY <2>2, <2>3, <2>4 DEF Transfer, Running
<1>4. CASE merge[c] # Null
  <2> DEFINE k == merge[c]
             s == k.source
             t == k.target
             j == job[c]
  <2>1. k \in Merge /\ s \in Branch /\ t \in Branch
    BY <1>1, <1>4 DEF MergeInv, Merge
  <2>2. /\ merge'[c] # Null
        /\ merge'[c].wins = "source" /\ merge'[c].source # merge'[c].target
    BY DEF Carries
  <2>4. CASE WriteUpsert(c)
    <3>1. merge' = merge /\ j.op = "upsert" /\ job'[c] = Done(j.at)
      BY <1>1, <2>4 DEF WriteUpsert
    <3>2. Transfer(c) /\ s # t
      BY <1>4, <2>2, <3>1 DEF Carries
    <3>3. j.b = t /\ j.m \in Memory /\ j.v = rows[s][j.m].version
      BY <1>1, <3>1, <3>2 DEF Transfer, Running, Loaded
    <3>4. \E i : rows' = [rows EXCEPT ![t][j.m] = [version |-> j.v, at |-> i]]
      BY <2>4, <3>3 DEF WriteUpsert
    <3>5. tombs' = [tombs EXCEPT ![t] = @ \ {j.m}]
      BY <2>4, <3>3 DEF WriteUpsert
    <3>6. job'[c].op = "done"
      BY <3>1 DEF Done, Idle
    <3>7. /\ rows'[s] = rows[s] /\ tombs'[s] = tombs[s]
          /\ rows'[t][j.m].version = rows[s][j.m].version
          /\ \A m \in Memory \ {j.m} : rows'[t][m] = rows[t][m]
          /\ \A m \in Memory \ {j.m} : m \in tombs[t] => m \in tombs'[t]
      BY <1>1, <2>1, <3>2, <3>3, <3>4, <3>5 DEF CoreType
    <3> QED
      <4>1. \A m \in Memory : Present(rows'[s][m]) /\ m \notin tombs'[s] =>
              m \in k.ups \/ rows'[t][m].version = rows'[s][m].version
        BY <3>2, <3>7 DEF Transfer
      <4>2. tombs'[s] \subseteq k.dels
        BY <3>1, <3>2, <3>7 DEF Transfer
      <4>3. ~Running(c)'
        BY <3>6 DEF Running
      <4>4. k.copy = rows'[s] /\ k.dels \subseteq tombs'[s]
        BY <3>2, <3>7 DEF Transfer
      <4> QED
        BY <3>1, <3>6, <4>1, <4>2, <4>3, <4>4 DEF Transfer
  <2>5. CASE WriteDelete(c)
    <3>1. merge' = merge /\ j.op = "delete" /\ job'[c] = Done(j.at) /\ rows' = rows
      BY <1>1, <2>5 DEF WriteDelete
    <3>2. Transfer(c) /\ s # t
      BY <1>4, <2>2, <3>1 DEF Carries
    <3>3. j.b = t /\ j.m \in Memory /\ j.m \in tombs[s] /\ ~Present(rows[t][j.m])
      BY <1>1, <1>2, <3>1, <3>2 DEF Transfer, Running, Loaded, TakenOut, Present, NoRow
    <3>4. tombs' = Tombed(t, j.m)
      BY <2>5, <3>3 DEF WriteDelete
    <3>5. job'[c].op = "done"
      BY <3>1 DEF Done, Idle
    <3>6. tombs'[s] = tombs[s] /\ tombs[t] \subseteq tombs'[t] /\ (t = Main \/ j.m \in tombs'[t])
      BY <1>1, <2>1, <3>2, <3>4 DEF CoreType, Tombed
    <3> QED
      BY <3>1, <3>2, <3>3, <3>5, <3>6 DEF Transfer, Running
  <2>6. CASE Return(c)
    <3>1. merge' = merge /\ j.op = "done" /\ job'[c] = Idle /\ rows' = rows /\ tombs' = tombs
      BY <1>1, <2>6 DEF Return, tables
    <3>2. Transfer(c) /\ job'[c].op = "idle"
      BY <1>4, <2>2, <3>1 DEF Carries, Idle
    <3> QED
      BY <3>1, <3>2 DEF Transfer, Running
  <2>7. ASSUME NEW m \in Memory, MergeRow(c, m)
        PROVE  Transfer(c)'
    <3>1. /\ merge' = [merge EXCEPT ![c].ups = @ \ {m}] /\ rows' = rows /\ tombs' = tombs
          /\ job'[c] = [op |-> "upsert", b |-> t, m |-> m, v |-> k.copy[m].version,
                        at |-> clock, row |-> NoRow]
      BY <1>1, <2>7 DEF MergeRow, StartUpsert
    <3>2. merge'[c] = [k EXCEPT !.ups = @ \ {m}]
      BY <1>1, <3>1
    <3>3. /\ merge'[c].ups = k.ups \ {m} /\ merge'[c].source = s /\ merge'[c].target = t
          /\ merge'[c].wins = k.wins /\ merge'[c].copy = k.copy /\ merge'[c].dels = k.dels
      BY <2>1, <3>2 DEF Merge
    <3>4. Transfer(c) /\ s # t /\ j = Idle
      BY <1>4, <2>2, <2>7, <3>3 DEF Carries, MergeRow, NextRow
    <3>5. job'[c].op = "upsert" /\ job'[c].b = t /\ job'[c].m = m /\ job'[c].v = k.copy[m].version
      BY <3>1
    <3>6. j.op = "idle" /\ m \in k.ups
      BY <2>7, <3>4 DEF Idle, MergeRow, NextRow
    <3>7. tombs'[s] \subseteq k.dels
      BY <3>1, <3>4, <3>6 DEF Transfer
    <3>8. \A n \in Memory : Present(rows'[s][n]) /\ n \notin tombs'[s] =>
            \/ n \in k.ups \ {m} \/ n = m
            \/ rows'[t][n].version = rows'[s][n].version
      BY <3>1, <3>4, <3>6 DEF Transfer
    <3>9. k.copy = rows'[s] /\ k.dels \subseteq tombs'[s]
      BY <3>1, <3>4 DEF Transfer
    <3> QED
      BY <3>3, <3>5, <3>7, <3>8, <3>9 DEF Transfer, Running
  <2>8. ASSUME NEW m \in Memory, KeepRow(c, m) \/ KeepDeleted(c, m)
        PROVE  Transfer(c)'
    <3>1. k.wins = "target"
      BY <2>8 DEF KeepRow, KeepDeleted, Keep
    <3>2. merge'[c] = [k EXCEPT !.ups = @ \ {m}] \/ merge'[c] = [k EXCEPT !.dels = @ \ {m}]
      BY <1>1, <2>8 DEF KeepRow, KeepDeleted
    <3>3. merge'[c].wins = k.wins
      BY <2>1, <3>2 DEF Merge
    <3> QED
      BY <2>2, <3>1, <3>3
  <2>9. ASSUME NEW m \in Memory, MergeDelete(c, m)
        PROVE  Transfer(c)'
    <3>1. merge' = [merge EXCEPT ![c].dels = @ \ {m}] /\ m \in k.dels /\ j = Idle
      BY <2>9 DEF MergeDelete, NextDelete
    <3>2. merge'[c] = [k EXCEPT !.dels = @ \ {m}]
      BY <1>1, <3>1
    <3>3. /\ merge'[c].dels = k.dels \ {m} /\ merge'[c].source = s /\ merge'[c].target = t
          /\ merge'[c].wins = k.wins /\ merge'[c].copy = k.copy /\ merge'[c].ups = k.ups
      BY <2>1, <3>2 DEF Merge
    <3>4. Transfer(c) /\ s # t /\ j.op = "idle"
      BY <1>4, <2>2, <3>1, <3>3 DEF Carries, Idle
    <3>5. m \in tombs[s] /\ k.ups = {}
      BY <2>9, <3>1, <3>4 DEF Transfer, MergeDelete, NextDelete
    <3>6. CASE StartDelete(c, t, m)
      <4>1. /\ rows' = [rows EXCEPT ![t][m] = NoRow] /\ tombs' = tombs
            /\ job'[c].op = "delete" /\ job'[c].b = t /\ job'[c].m = m
        BY <1>1, <3>6 DEF StartDelete
      <4>2. rows'[s] = rows[s] /\ ~Present(rows'[t][m])
            /\ \A n \in Memory \ {m} : rows'[t][n] = rows[t][n]
        BY <1>1, <1>2, <2>1, <3>4, <4>1 DEF CoreType, Present, NoRow
      <4>3. tombs[s] \subseteq Memory
        BY <1>1, <2>1 DEF CoreType
      <4>4. \A n \in Memory : Present(rows'[s][n]) /\ n \notin tombs'[s] =>
              n \in k.ups \/ rows'[t][n].version = rows'[s][n].version
        <5>1. ASSUME NEW n \in Memory, Present(rows[s][n]), n \notin tombs[s]
              PROVE  n \in k.ups \/ rows[t][n].version = rows[s][n].version
          BY <3>4, <5>1 DEF Transfer
        <5> QED
          BY <3>5, <4>1, <4>2, <5>1
      <4>5. \A n \in tombs'[s] :
              \/ n \in k.dels \ {m} \/ m = n
              \/ ~Present(rows'[t][n]) /\ (t = Main \/ n \in tombs'[t])
        <5>1. ASSUME NEW n \in tombs[s]
              PROVE  \/ n \in k.dels
                     \/ ~Present(rows[t][n]) /\ (t = Main \/ n \in tombs[t])
          BY <3>4, <5>1 DEF Transfer
        <5> QED
          BY <4>1, <4>2, <4>3, <5>1
      <4>6. k.copy = rows'[s] /\ k.dels \ {m} \subseteq tombs'[s] /\ m \in tombs'[s]
        BY <3>4, <3>5, <4>1, <4>2 DEF Transfer
      <4>7. ~(merge'[c].ups # {} \/ job'[c].op = "upsert")
        BY <3>3, <3>5, <4>1
      <4> QED
        BY <3>3, <3>5, <4>1, <4>4, <4>5, <4>6, <4>7 DEF Transfer
    <3>7. CASE DeleteAbsent(c, t, m)
      <4>1. /\ rows' = rows /\ tombs' = Tombed(t, m) /\ job'[c] = Done(clock)
            /\ ~Present(rows[t][m])
        BY <1>1, <3>7 DEF DeleteAbsent
      <4>2. tombs'[s] = tombs[s] /\ tombs[t] \subseteq tombs'[t] /\ (t = Main \/ m \in tombs'[t])
        BY <1>1, <2>1, <3>4, <4>1 DEF CoreType, Tombed
      <4>3. job'[c].op = "done"
        BY <4>1 DEF Done, Idle
      <4> QED
        BY <3>3, <3>4, <3>5, <4>1, <4>2, <4>3 DEF Transfer, Running
    <3> QED
      BY <2>9, <3>6, <3>7 DEF MergeDelete
  <2>10. ~EndMerge(c)
    BY <1>1, <2>2 DEF EndMerge
  <2> QED
    BY <1>4, <2>4, <2>5, <2>6, <2>7, <2>8, <2>9, <2>10
    DEF Acts, TemporalRead, CreateBranch, RequestUpsert, RequestDelete, DeleteById, BeginMerge,
        Request, Free
<1> QED
  BY <1>3, <1>4

\* Neither a step of a client, handled alone, nor any other loses that account.
LEMMA MergeToldNext ==
  ASSUME ~Overlap, SoloInv, MergeTold, [Next]_vars
  PROVE  MergeTold'
<1>1. CASE UNCHANGED vars
  <2>1. rows' = rows /\ tombs' = tombs /\ job' = job /\ merge' = merge
    BY <1>1 DEF vars, tables
  <2> QED
    BY <2>1 DEF MergeTold, Carries, Transfer, Running
<1>2. CASE Tick
  <2>1. rows' = rows /\ tombs' = tombs /\ job' = job /\ merge' = merge
    BY <1>2 DEF Tick, tables
  <2> QED
    BY <2>1 DEF MergeTold, Carries, Transfer, Running
<1>3. CASE Crash
  <2>1. \A c \in Client : merge'[c] = Null
    BY <1>3, CrashLeaves DEF SoloInv, Fallen
  <2> QED
    BY <2>1 DEF MergeTold, Carries
<1>4. ASSUME NEW c \in Client, Acts(c)
      PROVE  MergeTold'
  <2>2. Carries(c)' => Transfer(c)'
    BY <1>4, TransferNext DEF MergeTold
  <2>3. ASSUME NEW d \in Client \ {c}
        PROVE  ~Carries(d)'
    BY <1>4, ActsAlone, Bystanders DEF Others, Free, Carries
  <2> QED
    BY <2>2, <2>3 DEF MergeTold
<1> QED
  BY <1>1, <1>2, <1>3, <1>4, NextIsActs

\* When the last step of the merge is due both branches read the same.
LEMMA MergedAlike == SoloInv /\ MergeTold => MergeConverges
<1> SUFFICES ASSUME SoloInv, MergeTold, NEW c \in Client, Merged(c),
                    merge[c].wins = "source", merge[c].source # Main,
                    ParentOf(parent, merge[c].source) = merge[c].target,
                    Whole(merge[c].source), NEW m \in Memory
             PROVE  CurrentView(merge[c].target, m) = CurrentView(merge[c].source, m)
  BY DEF MergeConverges
<1> DEFINE s == merge[c].source
           t == merge[c].target
<1>1. CoreType /\ MergeInv
  BY DEF SoloInv, Inv, Core
<1>2. merge[c] # Null /\ job[c].op = "idle" /\ merge[c].ups = {} /\ merge[c].dels = {}
  BY DEF Merged, Idle
<1>3. s \in Branch \ {Main}
  BY <1>1, <1>2 DEF MergeInv, Merge
<1>4. CASE s = t
  BY <1>4
<1>5. CASE s # t
  <2>1. Transfer(c)
    BY <1>2, <1>5 DEF MergeTold, Carries
  <2>2. /\ Present(rows[s][m]) /\ m \notin tombs[s] => rows[t][m].version = rows[s][m].version
        /\ m \in tombs[s] => ~Present(rows[t][m]) /\ (t = Main \/ m \in tombs[t])
    BY <1>2, <2>1 DEF Transfer
  <2>3. \A b \in Seen(Lineage(parent, s)) \ {Main} :
          ParentOf(parent, b) \in Seen(Lineage(parent, s))
    BY DEF Whole
  <2>4. parent \in [Branch -> Branch \cup {Null}] /\ rows \in [Branch -> [Memory -> Row]]
        /\ t = ParentOf(parent, s) /\ t # s
    BY <1>1, <1>5 DEF CoreType
  <2> HIDE DEF s, t
  <2>5. View(parent, rows, tombs, t, m) = View(parent, rows, tombs, s, m)
    BY <1>3, <2>2, <2>3, <2>4, SameViews
  <2> QED
    BY <2>5 DEF s, t, CurrentView
<1> QED
  BY <1>4, <1>5

\* A finished source-wins merge of a branch into its parent, handled alone,
\* leaves the two branches alike in every memory, for any forest or circle of
\* branches and whatever came before, crashes in the middle of a write included.
THEOREM MergesConverge == Spec => []MergeConverges
<1>1. CASE Overlap
  <2>1. MergeConverges
    BY <1>1 DEF MergeConverges
  <2> QED
    BY <2>1, PTL
<1>2. CASE ~Overlap
  <2>1. Init => SoloInv /\ MergeTold
    BY SoloInit DEF Init, MergeTold, Carries
  <2>2. SoloInv /\ MergeTold /\ [Next]_vars => SoloInv' /\ MergeTold'
    BY <1>2, SoloNext, MergeToldNext
  <2> QED
    BY <2>1, <2>2, MergedAlike, PTL DEF Spec
<1> QED
  BY <1>1, <1>2
=============================================================================
