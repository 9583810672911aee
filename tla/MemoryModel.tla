---------------------------- MODULE MemoryModel ----------------------------
(***************************************************************************)
(* The data of the Mempalace store (src/core/mempalace/memory.service.ts)  *)
(* for one project, and the pure operators its operations are built from:  *)
(* branch lineage, the current branch view, the snapshot timeline and its  *)
(* reading as of an instant.  No variables: MemoryStore (atomic            *)
(* operations) and MemoryService (asynchronous operations) share them.     *)
(*                                                                         *)
(* A memory's text, tags, scores and vectors are abstracted to a Version;  *)
(* a snapshot's identity hash (project, branch, logical id, validFrom,     *)
(* operation) is the tuple it hashes.                                      *)
(*                                                                         *)
(* The definitions named ...Mutant, here and in the other modules, are the *)
(* code with a plausible bug; nothing uses them but the experiments that   *)
(* show that the properties would notice.                                  *)
(***************************************************************************)
EXTENDS Integers, FiniteSets, Sequences

CONSTANTS Branch,      \* branch names, with Main among them
          Main,        \* MAIN_BRANCH
          Memory,      \* logical ids
          Version,     \* contents a memory can be given
          Null,        \* SQL NULL: no row, no parent, no content
          MaxLineage   \* getBranchLineage's bound on its walk, 32 in the code

ASSUME ModelAssumption ==
  /\ Main \in Branch
  /\ Null \notin Branch \cup Version
  /\ MaxLineage \in Nat \ {0}

Open == -1             \* validUntil IS NULL

Row == [version : Version \cup {Null}, at : Nat]

NoRow == [version |-> Null, at |-> 0]

\* A row is in the table: Null is never the content of one.
Present(row) == row.version # Null

Snapshot == [op : {"upsert", "delete"}, version : Version \cup {Null},
             from : Nat, until : Nat \cup {Open}]

-----------------------------------------------------------------------------
(***************************************************************************)
(* Branches.                                                               *)
(***************************************************************************)

\* INSERT OR IGNORE, then COALESCE(parentBranch, from): the first parent stays.
Ensure(parent, b, from) ==
  IF b = Main \/ parent[b] # Null THEN parent ELSE [parent EXCEPT ![b] = from]

Seen(walk) == {walk[i] : i \in DOMAIN walk}

\* A branch without a memory_branches row has Main for its parent.
ParentOf(parent, b) == IF parent[b] = Null THEN Main ELSE parent[b]

\* The branch, its parent, the parent's parent, ... up to Main, a branch already
\* seen or MaxLineage branches; Main comes last whatever stopped the walk.
Lineage(parent, b) ==
  LET walk[n \in 1 .. MaxLineage] ==
        IF n = 1 THEN <<b>>
        ELSE LET w    == walk[n - 1]
                 next == ParentOf(parent, w[Len(w)])
             IN  IF w[Len(w)] = Main \/ next \in Seen(w) THEN w ELSE Append(w, next)
      full == walk[MaxLineage]
  IN  IF Main \in Seen(full) THEN full ELSE Append(full, Main)

\* The first branch of a lineage that is one of the given branches, or Null.
FirstBranch(lineage, branches) ==
  LET hits == {i \in DOMAIN lineage : lineage[i] \in branches}
  IN  IF hits = {} THEN Null
      ELSE lineage[CHOOSE i \in hits : \A j \in hits : i <= j]

\* The branches with a row of the memory.
Holders(rows, m) == {c \in Branch : Present(rows[c][m])}

\* Only the branch's own tombstones are looked at.
ViewMutant(parent, rows, tombs, b, m) ==
  LET owner == FirstBranch(Lineage(parent, b), Holders(rows, m))
  IN  IF m \in tombs[b] \/ owner = Null THEN Null ELSE rows[owner][m].version

\* loadCurrentBranchViewRows: the nearest row of the lineage, unless ANY branch
\* of the lineage holds a tombstone for the memory.
View(parent, rows, tombs, b, m) ==
  LET lineage == Lineage(parent, b)
      owner   == FirstBranch(lineage, Holders(rows, m))
      masked  == \E c \in Seen(lineage) : m \in tombs[c]
  IN  IF masked \/ owner = Null THEN Null ELSE rows[owner][m].version

-----------------------------------------------------------------------------
(***************************************************************************)
(* Timelines: the snapshots of one (branch, memory) key.                   *)
(***************************************************************************)

\* Without the test for validUntil IS NULL.
CloseMutant(line, t) == {[s EXCEPT !.until = t] : s \in line}

\* closeOpenSnapshot
Close(line, t) ==
  {[s EXCEPT !.until = IF s.until = Open THEN t ELSE s.until] : s \in line}

\* insertMemorySnapshot: INSERT OR REPLACE on (validFrom, operation) of the key.
Insert(line, s) ==
  {r \in line : r.from # s.from \/ r.op # s.op} \cup {s}

\* writeUpsertSnapshot, writeDeleteSnapshot
UpsertAt(line, v, t) ==
  Insert(Close(line, t), [op |-> "upsert", version |-> v, from |-> t, until |-> Open])

DeleteAt(line, t) ==
  Insert(Close(line, t), [op |-> "delete", version |-> Null, from |-> t, until |-> Open])

OpenUpserts(line) == {s \in line : s.until = Open /\ s.op = "upsert"}

OpenDeletes(line) == {s \in line : s.until = Open /\ s.op = "delete"}

\* ensureTemporalSnapshotBaseline for one key: a row without an open upsert
\* snapshot gets one from its createdAt on.
Baseline(line, row) ==
  IF Present(row) /\ OpenUpserts(line) = {} THEN UpsertAt(line, row.version, row.at) ELSE line

\* The same when it stops before the insert.
CutBaseline(line, row) ==
  IF Present(row) /\ OpenUpserts(line) = {} THEN Close(line, row.at) ELSE line

\* The snapshots of a key a read as of t selects.
Valid(line, t) == {s \in line : s.from <= t /\ (s.until = Open \/ s.until > t)}

\* loadTemporalBranchState and its readers: per key the latest valid snapshot,
\* and of these the one of the nearest branch; a delete snapshot reads as absent.
AsOf(parent, rows, snaps, b, m, t) ==
  LET valid(c) == Valid(Baseline(snaps[c][m], rows[c][m]), t)
      owner    == FirstBranch(Lineage(parent, b), {c \in Branch : valid(c) # {}})
      latest   == CHOOSE s \in valid(owner) : \A r \in valid(owner) : r.from <= s.from
  IN  IF owner = Null THEN Null ELSE latest.version
=============================================================================
