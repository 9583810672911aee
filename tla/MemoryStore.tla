----------------------------- MODULE MemoryStore -----------------------------
(***************************************************************************)
(* What the Mempalace memory service promises: the branch-scoped store as  *)
(* it behaves when no two operations overlap.  Each exported operation of  *)
(* src/core/mempalace/memory.service.ts that changes the database is one   *)
(* action, stamped with the clock; MemoryService takes the operations      *)
(* apart at their awaits and is compared with this module.                 *)
(*                                                                         *)
(* The variables are the tables: memory_branches (parent), memories and    *)
(* memory_branch_memories (rows), memory_branch_tombstones (tombs) and     *)
(* memory_snapshots (snaps), all for one project.  Everything is on disk,  *)
(* so a restart between two operations changes nothing.                    *)
(***************************************************************************)
EXTENDS MemoryModel

CONSTANTS Legacy,   \* memories written before the snapshot table existed
          MaxTime   \* bound on the clock

ASSUME StoreAssumption == Legacy \subseteq Memory /\ MaxTime \in Nat

VARIABLES clock,    \* Date.now()
          parent,   \* branch -> parentBranch, Null without a branch row
          rows,     \* branch -> memory -> current row
          tombs,    \* branch -> memories with a tombstone
          snaps     \* branch -> memory -> timeline

vars == <<clock, parent, rows, tombs, snaps>>

TypeOK ==
  /\ clock \in Nat
  /\ parent \in [Branch -> Branch \cup {Null}]
  /\ rows \in [Branch -> [Memory -> Row]]
  /\ tombs \in [Branch -> SUBSET Memory]
  /\ snaps \in [Branch -> [Memory -> SUBSET Snapshot]]

\* A database that may date from before branches and snapshots: its memories
\* are rows of the main table, without a timeline.
InitTables ==
  /\ clock = 1
  /\ \E content \in [Legacy -> Version] :
       rows = [b \in Branch |-> [m \in Memory |->
                 IF b = Main /\ m \in Legacy
                 THEN [version |-> content[m], at |-> 0] ELSE NoRow]]
  /\ tombs = [b \in Branch |-> {}]
  /\ snaps = [b \in Branch |-> [m \in Memory |-> {}]]

Init == InitTables /\ parent = [b \in Branch |-> Null]

Tick ==
  /\ \E t \in (clock + 1) .. MaxTime : clock' = t
  /\ UNCHANGED <<parent, rows, tombs, snaps>>

\* createMemoryBranch; the named parent need not exist.
CreateBranch(b, from) ==
  /\ parent' = Ensure(parent, b, from)
  /\ UNCHANGED <<clock, rows, tombs, snaps>>

\* mergeMemoryBranch registers both branches, Main their parent if they are new;
\* its writes are upserts and deletes of their own.
BeginMerge(source, target) ==
  /\ parent' = Ensure(Ensure(parent, source, Main), target, Main)
  /\ UNCHANGED <<clock, rows, tombs, snaps>>

\* Without removeBranchTombstone.
UpsertMutant(b, m, v, from) ==
  /\ parent' = Ensure(parent, b, from)
  /\ rows' = [rows EXCEPT ![b][m] = [version |-> v, at |-> clock]]
  /\ snaps' = [snaps EXCEPT ![b][m] = UpsertAt(@, v, clock)]
  /\ UNCHANGED <<clock, tombs>>

\* The snapshot's validFrom is left open.
UpsertTypeMutant(b, m, v, from) ==
  /\ parent' = Ensure(parent, b, from)
  /\ rows' = [rows EXCEPT ![b][m] = [version |-> v, at |-> clock]]
  /\ tombs' = [tombs EXCEPT ![b] = @ \ {m}]
  /\ snaps' = [snaps EXCEPT ![b][m] = UpsertAt(@, v, Open)]
  /\ UNCHANGED clock

\* upsertMemory: the row and its timeline are stamped with the same instant.
Upsert(b, m, v, from) ==
  /\ parent' = Ensure(parent, b, from)
  /\ rows' = [rows EXCEPT ![b][m] = [version |-> v, at |-> clock]]
  /\ tombs' = [tombs EXCEPT ![b] = @ \ {m}]
  /\ snaps' = [snaps EXCEPT ![b][m] = UpsertAt(@, v, clock)]
  /\ UNCHANGED clock

\* deleteMemory with a project: only Main has no tombstones.
Delete(b, m) ==
  /\ rows' = [rows EXCEPT ![b][m] = NoRow]
  /\ tombs' = IF b = Main THEN tombs ELSE [tombs EXCEPT ![b] = @ \cup {m}]
  /\ snaps' = [snaps EXCEPT ![b][m] = DeleteAt(@, clock)]
  /\ UNCHANGED <<clock, parent>>

\* deleteMemoriesByIds (and deleteMemory) without a project: the rows of the
\* given storage ids in either table; ids without a row are ignored.
DeleteByIds(keys) ==
  LET hit(b, m) == <<b, m>> \in keys /\ Present(rows[b][m])
  IN  /\ rows' = [b \in Branch |-> [m \in Memory |->
                    IF hit(b, m) THEN NoRow ELSE rows[b][m]]]
      /\ snaps' = [b \in Branch |-> [m \in Memory |->
                     IF hit(b, m) THEN DeleteAt(snaps[b][m], clock) ELSE snaps[b][m]]]
      /\ UNCHANGED <<clock, parent, tombs>>

\* Any asOf read or diff of branch b: it repairs the timelines of b's lineage.
TemporalRead(b) ==
  /\ snaps' = [c \in Branch |-> [m \in Memory |->
                 IF c \in Seen(Lineage(parent, b))
                 THEN Baseline(snaps[c][m], rows[c][m]) ELSE snaps[c][m]]]
  /\ UNCHANGED <<clock, parent, rows, tombs>>

Next ==
  \/ Tick
  \/ \E b, from \in Branch : CreateBranch(b, from)
  \/ \E source, target \in Branch : BeginMerge(source, target)
  \/ \E b, from \in Branch, m \in Memory, v \in Version : Upsert(b, m, v, from)
  \/ \E b \in Branch, m \in Memory : Delete(b, m)
  \/ \E keys \in SUBSET (Branch \X Memory) : DeleteByIds(keys)
  \/ \E b \in Branch : TemporalRead(b)

Spec == Init /\ [][Next]_vars

-----------------------------------------------------------------------------
CurrentView(b, m) == View(parent, rows, tombs, b, m)

ViewAsOf(b, m, t) == AsOf(parent, rows, snaps, b, m, t)

\* A key whose row predates its timeline: the next temporal read records it.
Unrecorded(b, m) == Present(rows[b][m]) /\ snaps[b][m] = {}

\* A timeline has one open snapshot at most, and it lies in the past.
Ordered(line) ==
  /\ \A r, s \in line : r.until = Open /\ s.until = Open => r = s
  /\ \A s \in line : s.from <= clock /\ s.until <= clock

\* The three tables tell one story about key (b, m): a row is what the open
\* upsert snapshot says (but for a legacy row), an open upsert snapshot has its
\* row, and a tombstone stands for an open delete snapshot and no row.
Agrees(b, m) ==
  LET row == rows[b][m] line == snaps[b][m]
  IN  /\ Present(row) => \/ b = Main /\ m \in Legacy /\ line = {}
                         \/ \E s \in OpenUpserts(line) :
                              s.version = row.version /\ s.from = row.at
      /\ OpenUpserts(line) # {} => Present(row)
      /\ m \in tombs[b] => b # Main /\ OpenDeletes(line) # {}

\* Rows, tombstones and snapshots, which the code writes with separate
\* statements in six places, never disagree: whatever the sequence of
\* operations, each key's timeline ends in what its row and tombstone say.
Ledger == \A b \in Branch, m \in Memory : Ordered(snaps[b][m]) /\ Agrees(b, m)

\* An answer about the past is final: for an instant t before now no operation
\* changes what an asOf read of t returns, on any branch whose lineage stays as
\* it is - the baseline a read writes included.  Excepted are legacy rows nobody
\* has read as of any instant yet: writing them loses their past.
HistoryIsFinal ==
  [][\A b \in Branch, m \in Memory, t \in 0 .. clock - 1 :
       /\ Lineage(parent', b) = Lineage(parent, b)
       /\ \A c \in Branch : ~Unrecorded(c, m)
       => AsOf(parent', rows', snaps', b, m, t) = ViewAsOf(b, m, t)]_vars

\* An ancestor's tombstone hides a row that is nearer to b.
Masked(b, m) ==
  LET lineage == Lineage(parent, b)
  IN  \E i, j \in DOMAIN lineage :
        i < j /\ m \in tombs[lineage[j]] /\ Present(rows[lineage[i]][m])

\* A branch whose row was deleted by id alone: deleted in the timeline only.
BareDelete(b, m) == b # Main /\ m \notin tombs[b] /\ OpenDeletes(snaps[b][m]) # {}

\* The two readers of a branch - the current view, computed from rows and
\* tombstones, and the asOf view of this instant, computed from timelines - give
\* the same answer, except behind an ancestor's tombstone or a bare delete.
ViewsAgree ==
  \A b \in Branch, m \in Memory :
    \/ CurrentView(b, m) = ViewAsOf(b, m, clock)
    \/ Masked(b, m)
    \/ \E c \in Seen(Lineage(parent, b)) : BareDelete(c, m)

-----------------------------------------------------------------------------
(***************************************************************************)
(* What the repository's documents say and the code does not do.           *)
(***************************************************************************)

\* docs/cxlink-spec.md:86, "branch-local writes are copy-on-write overlays": a
\* branch that has its own row for a memory sees that row.
OverlayVisible ==
  \A b \in Branch, m \in Memory :
    Present(rows[b][m]) => CurrentView(b, m) = rows[b][m].version
=============================================================================
