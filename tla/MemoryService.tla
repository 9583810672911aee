---------------------------- MODULE MemoryService ----------------------------
(***************************************************************************)
(* The memory service as the daemon runs it: upsertMemory, deleteMemory    *)
(* and mergeMemoryBranch are asynchronous, so that other requests run      *)
(* between the instant an operation takes its time stamp and the instant   *)
(* it writes.                                                              *)
(*                                                                         *)
(*   upsertMemory   stamp, ensure branch | await embedText | row,          *)
(*                  tombstone and snapshot | await the vector store        *)
(*   deleteMemory   stamp, delete row | await the vector store (only if    *)
(*                  there was a row) | tombstone and snapshot              *)
(*   mergeMemoryBranch  read the source | one of the above per memory      *)
(*                                                                         *)
(* What runs between two awaits no other request sees, and is one action.  *)
(* But no transaction is opened: each statement is a commit of its own, so *)
(* the process can die between any two, and the tables keep the first.     *)
(*                                                                         *)
(* With Overlap FALSE one operation runs at a time, and the service        *)
(* implements MemoryStore.  embedText and the vector calls never reject.   *)
(***************************************************************************)
EXTENDS MemoryModel

CONSTANTS Legacy, MaxTime,
          Client,     \* requests being handled
          Strategies, \* merge strategies asked for, of "source" and "target"
          Overlap,    \* requests may overlap
          Crashes     \* the process may crash and restart

ASSUME ServiceAssumption ==
  /\ Strategies \subseteq {"source", "target"}
  /\ Overlap \in BOOLEAN /\ Crashes \in BOOLEAN
  /\ Null \notin Memory /\ Legacy \subseteq Memory
  /\ MaxTime \in Nat

VARIABLES clock, parent, rows, tombs, snaps,
          job,        \* client -> the upsert or delete it is in
          merge,      \* client -> the merge it is in, or Null
          suspect,    \* keys two operations touched at once (ghost)
          torn        \* keys whose last write a crash cut short (ghost)

tables == <<parent, rows, tombs, snaps>>
vars == <<clock, tables, job, merge, suspect, torn>>

Op == {"idle", "upsert", "delete", "done"}

\* at is the time stamp; row is the row a delete has taken out.
Job == [op : Op, b : Branch, m : Memory \cup {Null}, v : Version \cup {Null},
        at : Nat, row : Row]

Idle == [op |-> "idle", b |-> Main, m |-> Null, v |-> Null, at |-> 0, row |-> NoRow]

Done(t) == [Idle EXCEPT !.op = "done", !.at = t]

\* copy is the source rows as read; ups and dels are what is left to do.
Merge == [source : Branch, target : Branch, wins : {"source", "target"},
          copy : [Memory -> Row], ups : SUBSET Memory, dels : SUBSET Memory]

Running(c) == job[c].op \in {"upsert", "delete"}

Free(c) == job[c] = Idle /\ merge[c] = Null

\* Nothing else is being handled, unless requests may overlap.
MayBegin(c) == Overlap \/ \A d \in Client \ {c} : Free(d)

\* An operation on key (b, m) meets one in flight.
Clash(c, b, m) == \E d \in Client \ {c} : Running(d) /\ job[d].b = b /\ job[d].m = m

Mark(c, b, m) == suspect' = IF Clash(c, b, m) THEN suspect \cup {<<b, m>>} ELSE suspect

\* A write of key (b, m) has gone through.
Mend(b, m) == torn' = torn \ {<<b, m>>}

TypeOK ==
  /\ clock \in Nat
  /\ parent \in [Branch -> Branch \cup {Null}]
  /\ rows \in [Branch -> [Memory -> Row]]
  /\ tombs \in [Branch -> SUBSET Memory]
  /\ snaps \in [Branch -> [Memory -> SUBSET Snapshot]]
  /\ job \in [Client -> Job]
  /\ merge \in [Client -> Merge \cup {Null}]
  /\ suspect \subseteq Branch \X Memory /\ torn \subseteq Branch \X Memory

\* Legacy rows as in MemoryStore.
Init ==
  /\ clock = 1
  /\ parent = [b \in Branch |-> Null]
  /\ \E content \in [Legacy -> Version] :
       rows = [b \in Branch |-> [m \in Memory |->
                 IF b = Main /\ m \in Legacy
                 THEN [version |-> content[m], at |-> 0] ELSE NoRow]]
  /\ tombs = [b \in Branch |-> {}]
  /\ snaps = [b \in Branch |-> [m \in Memory |-> {}]]
  /\ job = [c \in Client |-> Idle]
  /\ merge = [c \in Client |-> Null]
  /\ suspect = {} /\ torn = {}

Tick ==
  /\ clock < MaxTime
  /\ clock' = clock + 1
  /\ UNCHANGED <<tables, job, merge, suspect, torn>>

-----------------------------------------------------------------------------
(***************************************************************************)
(* upsertMemory                                                            *)
(***************************************************************************)

\* createMemory takes the time stamp, ensureMemoryBranch registers the branch.
StartUpsert(c, b, m, v, from) ==
  /\ parent' = Ensure(parent, b, from)
  /\ job' = [job EXCEPT ![c] = [op |-> "upsert", b |-> b, m |-> m, v |-> v,
                                at |-> clock, row |-> NoRow]]
  /\ Mark(c, b, m)
  /\ UNCHANGED <<clock, rows, tombs, snaps, torn>>

\* The row is stamped when it is written, the snapshot when the call came.
WriteUpsertMutant(c) ==
  LET j == job[c]
  IN  /\ j.op = "upsert"
      /\ rows' = [rows EXCEPT ![j.b][j.m] = [version |-> j.v, at |-> clock]]
      /\ tombs' = [tombs EXCEPT ![j.b] = @ \ {j.m}]
      /\ snaps' = [snaps EXCEPT ![j.b][j.m] = UpsertAt(@, j.v, j.at)]
      /\ job' = [job EXCEPT ![c] = Done(j.at)]
      /\ Mend(j.b, j.m)
      /\ UNCHANGED <<clock, parent, merge, suspect>>

\* Without removeBranchTombstone.
WriteUpsertTombMutant(c) ==
  LET j == job[c]
  IN  /\ j.op = "upsert"
      /\ rows' = [rows EXCEPT ![j.b][j.m] = [version |-> j.v, at |-> j.at]]
      /\ snaps' = [snaps EXCEPT ![j.b][j.m] = UpsertAt(@, j.v, j.at)]
      /\ job' = [job EXCEPT ![c] = Done(j.at)]
      /\ Mend(j.b, j.m)
      /\ UNCHANGED <<clock, parent, tombs, merge, suspect>>

\* The snapshot lacks its validFrom.
WriteUpsertTypeMutant(c) ==
  LET j == job[c]
  IN  /\ j.op = "upsert"
      /\ rows' = [rows EXCEPT ![j.b][j.m] = [version |-> j.v, at |-> j.at]]
      /\ tombs' = [tombs EXCEPT ![j.b] = @ \ {j.m}]
      /\ snaps' = [snaps EXCEPT ![j.b][j.m] = UpsertAt(@, j.v, Open)]
      /\ job' = [job EXCEPT ![c] = Done(j.at)]
      /\ Mend(j.b, j.m)
      /\ UNCHANGED <<clock, parent, merge, suspect>>

\* After the embedding: row, tombstone and snapshot, with the old stamp.
WriteUpsert(c) ==
  LET j == job[c]
  IN  /\ j.op = "upsert"
      /\ rows' = [rows EXCEPT ![j.b][j.m] = [version |-> j.v, at |-> j.at]]
      /\ tombs' = [tombs EXCEPT ![j.b] = @ \ {j.m}]
      /\ snaps' = [snaps EXCEPT ![j.b][j.m] = UpsertAt(@, j.v, j.at)]
      /\ job' = [job EXCEPT ![c] = Done(j.at)]
      /\ Mend(j.b, j.m)
      /\ UNCHANGED <<clock, parent, merge, suspect>>

-----------------------------------------------------------------------------
(***************************************************************************)
(* deleteMemory with a project                                             *)
(***************************************************************************)

Tombed(b, m) == IF b = Main THEN tombs ELSE [tombs EXCEPT ![b] = @ \cup {m}]

\* The row goes at once; only then are its vectors deleted.
StartDelete(c, b, m) ==
  /\ Present(rows[b][m])
  /\ rows' = [rows EXCEPT ![b][m] = NoRow]
  /\ job' = [job EXCEPT ![c] = [op |-> "delete", b |-> b, m |-> m, v |-> Null,
                                at |-> clock, row |-> rows[b][m]]]
  /\ Mark(c, b, m)
  /\ UNCHANGED <<clock, parent, tombs, snaps, torn>>

\* Without the delete snapshot.
WriteDeleteMutant(c) ==
  LET j == job[c]
  IN  /\ j.op = "delete"
      /\ tombs' = Tombed(j.b, j.m)
      /\ job' = [job EXCEPT ![c] = Done(j.at)]
      /\ Mend(j.b, j.m)
      /\ UNCHANGED <<clock, parent, rows, snaps, merge, suspect>>

\* After the vectors: tombstone and delete snapshot, with the old stamp.
WriteDelete(c) ==
  LET j == job[c]
  IN  /\ j.op = "delete"
      /\ tombs' = Tombed(j.b, j.m)
      /\ snaps' = [snaps EXCEPT ![j.b][j.m] = DeleteAt(@, j.at)]
      /\ job' = [job EXCEPT ![c] = Done(j.at)]
      /\ Mend(j.b, j.m)
      /\ UNCHANGED <<clock, parent, rows, merge, suspect>>

\* Without a row there is nothing to wait for.
DeleteAbsent(c, b, m) ==
  /\ ~Present(rows[b][m])
  /\ tombs' = Tombed(b, m)
  /\ snaps' = [snaps EXCEPT ![b][m] = DeleteAt(@, clock)]
  /\ job' = [job EXCEPT ![c] = Done(clock)]
  /\ Mark(c, b, m) /\ Mend(b, m)
  /\ UNCHANGED <<clock, parent, rows>>

\* The caller gets its answer; a merge goes on to its next memory.
Return(c) ==
  /\ job[c].op = "done"
  /\ job' = [job EXCEPT ![c] = Idle]
  /\ UNCHANGED <<clock, tables, merge, suspect, torn>>

-----------------------------------------------------------------------------
(***************************************************************************)
(* mergeMemoryBranch                                                       *)
(***************************************************************************)

\* The source's tombstones are not read.
BeginMergeMutant(c, source, target, wins) ==
  /\ Free(c) /\ MayBegin(c)
  /\ parent' = Ensure(Ensure(parent, source, Main), target, Main)
  /\ merge' = [merge EXCEPT ![c] =
       [source |-> source, target |-> target, wins |-> wins, copy |-> rows[source],
        ups |-> {m \in Memory : Present(rows[source][m])}, dels |-> {}]]
  /\ UNCHANGED <<clock, rows, tombs, snaps, job, suspect, torn>>

\* Both branches are registered, then the source's rows and tombstones read.  (A
\* crash after the first leaves what CreateBranch would.)
BeginMerge(c, source, target, wins) ==
  /\ Free(c) /\ MayBegin(c)
  /\ parent' = Ensure(Ensure(parent, source, Main), target, Main)
  /\ merge' = [merge EXCEPT ![c] =
       [source |-> source, target |-> target, wins |-> wins,
        copy |-> rows[source],
        ups |-> {m \in Memory : Present(rows[source][m])}, dels |-> tombs[source]]]
  /\ UNCHANGED <<clock, rows, tombs, snaps, job, suspect, torn>>

\* The conflict check looks at the wrong branch.
KeepMutant(c, m) == merge[c].wins = "target" /\ ~Present(rows[merge[c].source][m])

\* hasTargetBranchLocalWrite looks at rows only.
Keep(c, m) == merge[c].wins = "target" /\ Present(rows[merge[c].target][m])

\* The next source row, the latest first.
NextRow(c, m) ==
  /\ merge[c] # Null /\ job[c] = Idle
  /\ m \in merge[c].ups
  /\ \A n \in merge[c].ups : merge[c].copy[n].at <= merge[c].copy[m].at

MergeRow(c, m) ==
  /\ NextRow(c, m)
  /\ ~Keep(c, m)
  /\ StartUpsert(c, merge[c].target, m, merge[c].copy[m].version, Main)
  /\ merge' = [merge EXCEPT ![c].ups = @ \ {m}]

\* A target-wins conflict: the target's row stays.
KeepRow(c, m) ==
  /\ NextRow(c, m)
  /\ Keep(c, m)
  /\ merge' = [merge EXCEPT ![c].ups = @ \ {m}]
  /\ UNCHANGED <<clock, tables, job, suspect, torn>>

\* The next source tombstone, once every row is done.
NextDelete(c, m) ==
  /\ merge[c] # Null /\ job[c] = Idle
  /\ merge[c].ups = {} /\ m \in merge[c].dels

MergeDelete(c, m) ==
  /\ NextDelete(c, m)
  /\ ~Keep(c, m)
  /\ StartDelete(c, merge[c].target, m) \/ DeleteAbsent(c, merge[c].target, m)
  /\ merge' = [merge EXCEPT ![c].dels = @ \ {m}]

KeepDeleted(c, m) ==
  /\ NextDelete(c, m)
  /\ Keep(c, m)
  /\ merge' = [merge EXCEPT ![c].dels = @ \ {m}]
  /\ UNCHANGED <<clock, tables, job, suspect, torn>>

EndMerge(c) ==
  /\ merge[c] # Null /\ job[c] = Idle
  /\ merge[c].ups = {} /\ merge[c].dels = {}
  /\ merge' = [merge EXCEPT ![c] = Null]
  /\ UNCHANGED <<clock, tables, job, suspect, torn>>

-----------------------------------------------------------------------------
(***************************************************************************)
(* Requests                                                                *)
(***************************************************************************)

Request(c) == Free(c) /\ MayBegin(c) /\ UNCHANGED merge

RequestUpsert(c, b, m, v, from) == Request(c) /\ StartUpsert(c, b, m, v, from)

RequestDelete(c, b, m) == Request(c) /\ (StartDelete(c, b, m) \/ DeleteAbsent(c, b, m))

CreateBranch(c, b, from) ==
  /\ Request(c)
  /\ parent' = Ensure(parent, b, from)
  /\ UNCHANGED <<clock, rows, tombs, snaps, job, suspect, torn>>

\* Rows go without a snapshot.
DeleteByIdMutant(c, b, m) ==
  /\ Request(c)
  /\ Present(rows[b][m])
  /\ rows' = [rows EXCEPT ![b][m] = NoRow]
  /\ Mark(c, b, m) /\ Mend(b, m)
  /\ UNCHANGED <<clock, parent, tombs, snaps, job>>

\* deleteMemoriesByIds of the one id that deleteMemory hands it where no project is
\* named; row and snapshot are written before its await.
DeleteById(c, b, m) ==
  /\ Request(c)
  /\ Present(rows[b][m])
  /\ rows' = [rows EXCEPT ![b][m] = NoRow]
  /\ snaps' = [snaps EXCEPT ![b][m] = DeleteAt(@, clock)]
  /\ Mark(c, b, m) /\ Mend(b, m)
  /\ UNCHANGED <<clock, parent, tombs, job>>

\* An asOf read or a diff of branch b.
TemporalRead(c, b) ==
  /\ Request(c)
  /\ snaps' = [d \in Branch |-> [m \in Memory |->
                 IF d \in Seen(Lineage(parent, b))
                 THEN Baseline(snaps[d][m], rows[d][m]) ELSE snaps[d][m]]]
  /\ UNCHANGED <<clock, parent, rows, tombs, job, suspect, torn>>

-----------------------------------------------------------------------------
(***************************************************************************)
(* Crashes.                                                                *)
(***************************************************************************)

\* The process dies and starts again: what was in flight is gone.  Torn are the
\* keys being written and those of deletes whose row is out but not recorded.
Die(keys) ==
  /\ Crashes
  /\ torn' = torn \cup keys \cup
       {<<job[c].b, job[c].m>> : c \in {d \in Client : job[d].op = "delete"}}
  /\ job' = [c \in Client |-> Idle]
  /\ merge' = [c \in Client |-> Null]
  /\ UNCHANGED <<clock, parent, suspect>>

\* At an await, or between two requests of a merge.
CrashAtAwait ==
  /\ \E c \in Client : ~Free(c)
  /\ Die({})
  /\ UNCHANGED tables

\* After the row, the tombstone or closeOpenSnapshot of an upsert.
CrashInUpsert(c) ==
  LET j == job[c]
  IN  /\ j.op = "upsert"
      /\ rows' = [rows EXCEPT ![j.b][j.m] = [version |-> j.v, at |-> j.at]]
      /\ \/ UNCHANGED <<tombs, snaps>>
         \/ /\ tombs' = [tombs EXCEPT ![j.b] = @ \ {j.m}]
            /\ snaps' \in {snaps, [snaps EXCEPT ![j.b][j.m] = Close(@, j.at)]}
      /\ Die({<<j.b, j.m>>})

\* After the tombstone, which Main has not, or closeOpenSnapshot of a delete stamped t.
CutDelete(b, m, t) ==
  /\ tombs' = Tombed(b, m)
  /\ \/ snaps' = [snaps EXCEPT ![b][m] = Close(@, t)]
     \/ b # Main /\ UNCHANGED snaps
  /\ UNCHANGED rows
  /\ Die({<<b, m>>})

CrashInDelete(c) == job[c].op = "delete" /\ CutDelete(job[c].b, job[c].m, job[c].at)

\* The delete of a memory without a row, asked for or part of a merge.
CrashInDeleteAbsent(c, b, m) ==
  /\ \/ Free(c) /\ MayBegin(c)
     \/ NextDelete(c, m) /\ ~Keep(c, m) /\ b = merge[c].target
  /\ ~Present(rows[b][m])
  /\ CutDelete(b, m, clock)

\* After the row or closeOpenSnapshot of deleteMemoriesByIds.
CrashInDeleteById(c, b, m) ==
  /\ Free(c) /\ MayBegin(c)
  /\ Present(rows[b][m])
  /\ rows' = [rows EXCEPT ![b][m] = NoRow]
  /\ snaps' \in {snaps, [snaps EXCEPT ![b][m] = Close(@, clock)]}
  /\ UNCHANGED tombs
  /\ Die({<<b, m>>})

\* A read that has written some of its baselines, and has closed the timeline of key cut.
CrashInRead(c, b) ==
  /\ Free(c) /\ MayBegin(c)
  /\ \E written \in SUBSET (Seen(Lineage(parent, b)) \X Memory),
        cut \in Seen(Lineage(parent, b)) \X Memory :
       snaps' = [d \in Branch |-> [m \in Memory |->
                   IF <<d, m>> \in written THEN Baseline(snaps[d][m], rows[d][m])
                   ELSE IF <<d, m>> = cut THEN CutBaseline(snaps[d][m], rows[d][m])
                   ELSE snaps[d][m]]]
  /\ UNCHANGED <<rows, tombs>>
  /\ Die({})

Crash ==
  \/ CrashAtAwait
  \/ \E c \in Client :
       \/ CrashInUpsert(c) \/ CrashInDelete(c)
       \/ \E b \in Branch, m \in Memory : CrashInDeleteAbsent(c, b, m) \/ CrashInDeleteById(c, b, m)
       \/ \E b \in Branch : CrashInRead(c, b)

Next ==
  \/ Tick
  \/ Crash
  \/ \E c \in Client :
       \/ WriteUpsert(c) \/ WriteDelete(c) \/ Return(c) \/ EndMerge(c)
       \/ \E m \in Memory :
            MergeRow(c, m) \/ KeepRow(c, m) \/ MergeDelete(c, m) \/ KeepDeleted(c, m)
       \/ \E b \in Branch : TemporalRead(c, b)
       \/ \E b, from \in Branch : CreateBranch(c, b, from)
       \/ \E b, from \in Branch, m \in Memory, v \in Version :
            RequestUpsert(c, b, m, v, from)
       \/ \E b \in Branch, m \in Memory : RequestDelete(c, b, m) \/ DeleteById(c, b, m)
       \/ \E source, target \in Branch, wins \in Strategies :
            BeginMerge(c, source, target, wins)

Spec == Init /\ [][Next]_vars

-----------------------------------------------------------------------------
(***************************************************************************)
(* One request at a time.                                                  *)
(***************************************************************************)

Deleters(b, m) == {c \in Client : job[c].op = "delete" /\ job[c].b = b /\ job[c].m = m}

\* To MemoryStore a request happens when it writes its snapshot, at the instant
\* of its stamp: a row a delete has taken out is still there until then.
StoreRows ==
  [b \in Branch |-> [m \in Memory |->
     IF Deleters(b, m) = {} THEN rows[b][m]
     ELSE job[CHOOSE c \in Deleters(b, m) : TRUE].row]]

StoreClock ==
  LET busy == {c \in Client : job[c].op # "idle"}
  IN  IF busy = {} THEN clock ELSE job[CHOOSE c \in busy : TRUE].at

Store == INSTANCE MemoryStore WITH clock <- StoreClock, rows <- StoreRows

\* Handled one at a time, requests do what MemoryStore says.
ImplementsStore == Store!Spec

\* A crash tears one key at most.  Every other keeps its row, its tombstone and
\* its timeline, but for a baseline that a read was writing.
Contained ==
  /\ Crash
  /\ \A j, k \in torn' \ torn : j = k
  /\ \A b \in Branch, m \in Memory : <<b, m>> \notin torn' =>
       /\ StoreRows'[b][m] = StoreRows[b][m] /\ (m \in tombs'[b] <=> m \in tombs[b])
       /\ snaps'[b][m] \in {snaps[b][m], Baseline(snaps[b][m], rows[b][m])}

\* The same when the process may die between any two statements: each step is one
\* of MemoryStore or changes nothing there, or is a crash that damages one key.
OnlyCrashesTear == Store!Init /\ [][Store!Next \/ Contained]_(Store!vars)

\* After each request the current view of a branch and its asOf view of now are
\* the same, up to what MemoryStore excepts, for branches in any parent relation.
ViewsAgree == Store!ViewsAgree

CurrentView(b, m) == View(parent, rows, tombs, b, m)

\* The last step of a merge is due: what it had to write is written.
Merged(c) == merge[c] # Null /\ job[c] = Idle /\ merge[c].ups = {} /\ merge[c].dels = {}

\* The lineage of branch b was not cut off at the limit of its walk.
Whole(b) ==
  LET line == Seen(Lineage(parent, b))
  IN  \A c \in line \ {Main} : ParentOf(parent, c) \in line

\* A finished source-wins merge of a branch into its own parent leaves the two
\* branches with the same view of every memory.  (Were the branch so deep that
\* its walk is cut off, the parent would see one ancestor more.)
MergeConverges ==
  ~Overlap => \A c \in Client :
    Merged(c) /\ merge[c].wins = "source" /\ merge[c].source # Main
      /\ ParentOf(parent, merge[c].source) = merge[c].target
      /\ Whole(merge[c].source)
    => \A m \in Memory :
         CurrentView(merge[c].target, m) = CurrentView(merge[c].source, m)

-----------------------------------------------------------------------------
(***************************************************************************)
(* Requests that overlap, and crashes.                                     *)
(***************************************************************************)

InDelete(b, m) == \E c \in Client : job[c].op = "delete" /\ job[c].b = b /\ job[c].m = m

\* Every key's timeline has one open snapshot at most, and the tables agree about
\* each key that no two requests met on, no delete is in the middle of and whose
\* last write no crash cut short: requests on other keys do no harm, and the next
\* write that goes through repairs what a crash tore.
LedgerUnlessSuspect ==
  \A b \in Branch, m \in Memory :
    LET row == rows[b][m] line == snaps[b][m]
    IN  /\ \A r, s \in line : r.until = Open /\ s.until = Open => r = s
        /\ <<b, m>> \notin suspect \cup torn /\ ~InDelete(b, m) =>
             /\ Present(row) => \/ b = Main /\ m \in Legacy /\ line = {}
                                \/ \E s \in OpenUpserts(line) :
                                     s.version = row.version /\ s.from = row.at
             /\ OpenUpserts(line) # {} => Present(row)
             /\ m \in tombs[b] => OpenDeletes(line) # {}

\* However requests overlap on a key: a memory whose timeline says it is there
\* but whose row is gone is one a delete in flight is about to record, or would
\* have recorded had the process not died, and then only until its next write.
NoLostDelete ==
  \A b \in Branch, m \in Memory :
    OpenUpserts(snaps[b][m]) # {} /\ ~Present(rows[b][m])
      => InDelete(b, m) \/ <<b, m>> \in torn

\* The stamps of the requests in flight on memory m.
Stamps(m) == {job[c].at : c \in {d \in Client : Running(d) /\ job[d].m = m}}

\* The past before every request in flight is final: however slow the requests,
\* and across a crash in the middle of a write, an asOf read of such an instant
\* keeps its answer, for memories no two requests met on - those torn before
\* excepted, until they are whole again.  (Between a request's stamp and its write
\* asOf reads still give the old answer; the write then changes it.)
SettledHistoryIsFinal ==
  [][\A b \in Branch, m \in Memory, t \in 1 .. clock - 1 :
       /\ Lineage(parent', b) = Lineage(parent, b)
       /\ \A s \in Stamps(m) : t < s
       /\ \A c \in Branch : <<c, m>> \notin suspect \cup torn
       /\ \A c \in Branch : Present(rows[c][m]) \/ InDelete(c, m) => snaps[c][m] # {}
       => AsOf(parent', rows', snaps', b, m, t) = AsOf(parent, rows, snaps, b, m, t)]_vars

-----------------------------------------------------------------------------
(***************************************************************************)
(* What the repository's documents say and the code does not do.           *)
(***************************************************************************)

\* .agents/skills/cortexa-branching.skill.md:31, "target-wins: preserve target
\* overlays on conflicts": such a merge writes no row over a row of the target.
TargetRowsKept ==
  [][\A c \in Client :
       /\ merge[c] # Null /\ merge'[c] # Null /\ merge[c].wins = "target"
       /\ job[c].op = "upsert" /\ job'[c].op = "done"
       => ~Present(rows[job[c].b][job[c].m])]_vars
=============================================================================
