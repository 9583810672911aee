-------------------------- MODULE MemoryStoreProofs --------------------------
(***************************************************************************)
(* Theorems about MemoryStore, for every set of branches, memories and     *)
(* versions, every set of legacy memories and every bound on the clock.    *)
(***************************************************************************)
EXTENDS MemoryStore, MemoryModelProofs

-----------------------------------------------------------------------------
\* A write at an instant that is not in the future keeps a timeline ordered.
LEMMA WriteOrdered ==
  ASSUME NEW line \in SUBSET Snapshot, NEW t \in Nat, NEW v \in Version \cup {Null},
         clock \in Nat, t <= clock, Ordered(line)
  PROVE  Ordered(UpsertAt(line, v, t)) /\ Ordered(DeleteAt(line, t))
<1>1. ASSUME NEW op \in {"upsert", "delete"}, NEW w \in Version \cup {Null}
      PROVE  Ordered(Written(line, op, w, t))
  <2>1. Fresh(op, w, t).from <= clock /\ Fresh(op, w, t).until <= clock
    BY DEF Fresh, Open
  <2>2. \A r \in line : Closed(r, t).from <= clock /\ Closed(r, t).until <= clock
    BY ClosedType DEF Ordered
  <2>3. \A s \in Written(line, op, w, t) :
          s = Fresh(op, w, t) \/ \E r \in line : s = Closed(r, t)
    BY WriteOld
  <2>5. \A s \in Written(line, op, w, t) : s.until = Open => s = Fresh(op, w, t)
    BY WriteLine
  <2>4. QED
    BY <2>1, <2>2, <2>3, <2>5 DEF Ordered
<1>2. QED
  BY <1>1, WriteForms

-----------------------------------------------------------------------------
(***************************************************************************)
(* The inductive invariant.                                                *)
(***************************************************************************)

\* A row without a timeline is from before the clock started.
LegacyRow(b, m) == Unrecorded(b, m) => rows[b][m].at = 0

KeyInv(b, m) == Ordered(snaps[b][m]) /\ Agrees(b, m) /\ LegacyRow(b, m)

Inv == TypeOK /\ \A b \in Branch, m \in Memory : KeyInv(b, m)

\* A key none of whose tables change keeps its invariant while time passes.
LEMMA SameKey ==
  ASSUME TypeOK, clock' \in Nat, clock' >= clock, NEW b \in Branch, NEW m \in Memory,
         KeyInv(b, m), rows'[b][m] = rows[b][m], snaps'[b][m] = snaps[b][m],
         m \in tombs'[b] <=> m \in tombs[b]
  PROVE  KeyInv(b, m)'
<1>1. snaps[b][m] \in SUBSET Snapshot
  BY DEF TypeOK
<1>2. Ordered(snaps[b][m])'
  <2>1. \A s \in snaps[b][m] : s.from <= clock' /\ s.until <= clock'
    <3> SUFFICES ASSUME NEW s \in snaps[b][m] PROVE s.from <= clock' /\ s.until <= clock'
      OBVIOUS
    <3>1. s.from <= clock /\ s.until <= clock
      BY DEF KeyInv, Ordered
    <3>2. s.from \in Int /\ s.until \in Int
      BY <1>1 DEF Snapshot, Open
    <3> QED
      BY <3>1, <3>2 DEF TypeOK
  <2>2. \A r, s \in snaps[b][m] : r.until = Open /\ s.until = Open => r = s
    BY Zenon DEF KeyInv, Ordered
  <2> QED
    BY <2>1, <2>2 DEF Ordered
<1>3. Agrees(b, m)'
  BY DEF KeyInv, Agrees
<1>4. LegacyRow(b, m)'
  BY DEF KeyInv, LegacyRow, Unrecorded
<1> QED
  BY <1>2, <1>3, <1>4 DEF KeyInv

\* Writing a row, its snapshot and no tombstone establishes it.
LEMMA UpsertKey ==
  ASSUME TypeOK, clock' = clock, NEW b \in Branch, NEW m \in Memory, NEW v \in Version,
         NEW t \in Nat, t <= clock, KeyInv(b, m),
         rows'[b][m] = [version |-> v, at |-> t],
         snaps'[b][m] = UpsertAt(snaps[b][m], v, t), m \notin tombs'[b]
  PROVE  KeyInv(b, m)'
<1>1. snaps[b][m] \in SUBSET Snapshot
  BY DEF TypeOK
<1>2. Ordered(UpsertAt(snaps[b][m], v, t))
  BY <1>1, WriteOrdered DEF KeyInv, TypeOK
<1>3. Ordered(snaps[b][m])'
  BY <1>2 DEF Ordered
<1>4. OpenUpserts(snaps'[b][m]) = {Fresh("upsert", v, t)}
  <2>1. OpenUpserts(UpsertAt(snaps[b][m], v, t)) = {Fresh("upsert", v, t)}
    BY <1>1, UpsertLine
  <2> QED
    BY <2>1
<1>5. Present(rows'[b][m]) /\ rows'[b][m].version = v /\ rows'[b][m].at = t
  BY ModelAssumption DEF Present
<1>6. Fresh("upsert", v, t).version = v /\ Fresh("upsert", v, t).from = t
  BY DEF Fresh
<1>7. Agrees(b, m)'
  BY <1>4, <1>5, <1>6 DEF Agrees
<1>8. snaps'[b][m] # {}
  BY <1>4 DEF OpenUpserts
<1>9. LegacyRow(b, m)'
  BY <1>8 DEF LegacyRow, Unrecorded
<1> QED
  BY <1>3, <1>7, <1>9 DEF KeyInv

\* Removing a row and writing its delete snapshot establishes it, with a
\* tombstone (but on Main) or without.
LEMMA DeleteKey ==
  ASSUME TypeOK, clock' = clock, NEW b \in Branch, NEW m \in Memory, KeyInv(b, m),
         rows'[b][m] = NoRow, snaps'[b][m] = DeleteAt(snaps[b][m], clock),
         m \in tombs'[b] => b # Main \/ m \in tombs[b]
  PROVE  KeyInv(b, m)'
<1>1. snaps[b][m] \in SUBSET Snapshot /\ clock \in Nat
  BY DEF TypeOK
<1>2. Ordered(DeleteAt(snaps[b][m], clock))
  BY <1>1, WriteOrdered DEF KeyInv
<1>3. Ordered(snaps[b][m])'
  BY <1>2 DEF Ordered
<1>4. /\ OpenUpserts(snaps'[b][m]) = {}
      /\ OpenDeletes(snaps'[b][m]) # {}
  <2>1. /\ OpenUpserts(DeleteAt(snaps[b][m], clock)) = {}
        /\ OpenDeletes(DeleteAt(snaps[b][m], clock)) = {Fresh("delete", Null, clock)}
    BY <1>1, DeleteLine
  <2> QED
    BY <2>1
<1>5. ~Present(rows'[b][m])
  BY DEF NoRow, Present
<1>6. Agrees(b, m)'
  BY <1>4, <1>5 DEF Agrees, KeyInv
<1>7. LegacyRow(b, m)'
  BY <1>5 DEF LegacyRow, Unrecorded
<1> QED
  BY <1>3, <1>6, <1>7 DEF KeyInv

\* A baseline only ever concerns a legacy row without a timeline.
LEMMA BaselineKey ==
  ASSUME TypeOK, NEW b \in Branch, NEW m \in Memory, KeyInv(b, m)
  PROVE  /\ Unrecorded(b, m) =>
              Baseline(snaps[b][m], rows[b][m]) = UpsertAt(snaps[b][m], rows[b][m].version, 0)
         /\ ~Unrecorded(b, m) => Baseline(snaps[b][m], rows[b][m]) = snaps[b][m]
         /\ Unrecorded(b, m) => m \notin tombs[b] /\ rows[b][m].version \in Version
         /\ Baseline(snaps[b][m], rows[b][m]) \in SUBSET Snapshot
<1>1. snaps[b][m] \in SUBSET Snapshot /\ rows[b][m] \in Row
  BY DEF TypeOK
<1>2. CASE Unrecorded(b, m)
  <2>1. OpenUpserts(snaps[b][m]) = {} /\ OpenDeletes(snaps[b][m]) = {} /\ Present(rows[b][m])
    BY <1>2 DEF Unrecorded, OpenUpserts, OpenDeletes
  <2>2. rows[b][m].at = 0 /\ m \notin tombs[b]
    BY <1>2, <2>1 DEF KeyInv, LegacyRow, Agrees
  <2>3. rows[b][m].version \in Version
    BY <1>1, <2>1 DEF Row, Present
  <2>4. UpsertAt(snaps[b][m], rows[b][m].version, 0) \in SUBSET Snapshot
    BY <1>1, <2>3, UpsertLine
  <2> QED
    BY <1>2, <2>1, <2>2, <2>3, <2>4 DEF Baseline
<1>3. CASE ~Unrecorded(b, m)
  <2>1. Present(rows[b][m]) => OpenUpserts(snaps[b][m]) # {}
    BY <1>3 DEF KeyInv, Agrees, Unrecorded
  <2> QED
    BY <1>1, <1>3, <2>1 DEF Baseline
<1> QED
  BY <1>2, <1>3

-----------------------------------------------------------------------------
(***************************************************************************)
(* Type correctness, and the invariant.                                    *)
(***************************************************************************)

\* The absence of a row is a value of the row tables.
LEMMA NoRowType == NoRow \in Row
  BY DEF NoRow, Row

\* Every table holds what its columns declare, after any sequence of operations.
THEOREM InitType == Init => TypeOK
<1> SUFFICES ASSUME Init PROVE TypeOK
  OBVIOUS
<1>1. PICK content \in [Legacy -> Version] :
        rows = [b \in Branch |-> [m \in Memory |->
                  IF b = Main /\ m \in Legacy
                  THEN [version |-> content[m], at |-> 0] ELSE NoRow]]
  BY DEF Init, InitTables
<1>2. \A m \in Legacy : [version |-> content[m], at |-> 0] \in Row
  BY DEF Row
<1>3. rows \in [Branch -> [Memory -> Row]]
  BY <1>1, <1>2, NoRowType
<1> QED
  BY <1>3, ModelAssumption DEF Init, InitTables, TypeOK

\* ensureMemoryBranch leaves a table of parents.
LEMMA EnsureType ==
  ASSUME TypeOK, NEW b \in Branch, NEW from \in Branch
  PROVE  Ensure(parent, b, from) \in [Branch -> Branch \cup {Null}]
  BY DEF TypeOK, Ensure

\* A database as the program finds it, legacy rows included, satisfies the invariant.
LEMMA InvInit == Init => Inv
<1> SUFFICES ASSUME Init PROVE Inv
  OBVIOUS
<1>1. TypeOK
  BY InitType
<1>2. ASSUME NEW b \in Branch, NEW m \in Memory
      PROVE  KeyInv(b, m)
  <2>1. snaps[b][m] = {} /\ m \notin tombs[b]
    BY DEF Init, InitTables
  <2>2. PICK content \in [Legacy -> Version] :
          rows[b][m] = IF b = Main /\ m \in Legacy
                       THEN [version |-> content[m], at |-> 0] ELSE NoRow
    BY DEF Init, InitTables
  <2>3. rows[b][m].at = 0 /\ (Present(rows[b][m]) => b = Main /\ m \in Legacy)
    BY <2>2 DEF NoRow, Present
  <2> QED
    BY <2>1, <2>3 DEF KeyInv, Ordered, Agrees, LegacyRow, Unrecorded, OpenUpserts, OpenDeletes
<1> QED
  BY <1>1, <1>2 DEF Inv

\* upsertMemory keeps it: the key written is re-established, the others are untouched.
LEMMA UpsertInv ==
  ASSUME Inv, NEW b \in Branch, NEW from \in Branch, NEW m \in Memory, NEW v \in Version,
         Upsert(b, m, v, from)
  PROVE  Inv'
<1>1. TypeOK /\ clock \in Nat /\ snaps[b][m] \in SUBSET Snapshot
  BY DEF Inv, TypeOK
<1>2. [version |-> v, at |-> clock] \in Row
  BY <1>1 DEF Row
<1>3. UpsertAt(snaps[b][m], v, clock) \in SUBSET Snapshot
  BY <1>1, UpsertLine
<1>4. TypeOK'
  BY <1>1, <1>2, <1>3, EnsureType DEF Upsert, TypeOK
<1>5. ASSUME NEW c \in Branch, NEW n \in Memory
      PROVE  KeyInv(c, n)'
  <2>1. KeyInv(c, n)
    BY DEF Inv
  <2>2. CASE c = b /\ n = m
    <3>1. /\ rows'[c][n] = [version |-> v, at |-> clock]
          /\ snaps'[c][n] = UpsertAt(snaps[c][n], v, clock)
          /\ n \notin tombs'[c] /\ clock' = clock
      BY <1>1, <2>2 DEF Upsert, TypeOK
    <3> QED
      BY <1>1, <2>1, <3>1, UpsertKey
  <2>3. CASE ~(c = b /\ n = m)
    <3>1. /\ rows'[c][n] = rows[c][n] /\ snaps'[c][n] = snaps[c][n]
          /\ n \in tombs'[c] <=> n \in tombs[c]
          /\ clock' = clock
      BY <1>1, <2>3 DEF Upsert, TypeOK
    <3> QED
      BY <1>1, <2>1, <3>1, SameKey
  <2> QED
    BY <2>2, <2>3
<1> QED
  BY <1>4, <1>5 DEF Inv

\* deleteMemory keeps it, on Main without and elsewhere with a tombstone.
LEMMA DeleteInv ==
  ASSUME Inv, NEW b \in Branch, NEW m \in Memory, Delete(b, m)
  PROVE  Inv'
<1>1. TypeOK /\ clock \in Nat /\ snaps[b][m] \in SUBSET Snapshot
  BY DEF Inv, TypeOK
<1>3. DeleteAt(snaps[b][m], clock) \in SUBSET Snapshot
  BY <1>1, DeleteLine
<1>4. TypeOK'
  BY <1>1, <1>3, NoRowType DEF Delete, TypeOK
<1>5. ASSUME NEW c \in Branch, NEW n \in Memory
      PROVE  KeyInv(c, n)'
  <2>1. KeyInv(c, n)
    BY DEF Inv
  <2>2. CASE c = b /\ n = m
    <3>1. /\ rows'[c][n] = NoRow
          /\ snaps'[c][n] = DeleteAt(snaps[c][n], clock)
          /\ n \in tombs'[c] => c # Main \/ n \in tombs[c]
          /\ clock' = clock
      BY <1>1, <2>2 DEF Delete, TypeOK
    <3> QED
      BY <1>1, <2>1, <3>1, DeleteKey
  <2>3. CASE ~(c = b /\ n = m)
    <3>1. /\ rows'[c][n] = rows[c][n] /\ snaps'[c][n] = snaps[c][n]
          /\ n \in tombs'[c] <=> n \in tombs[c]
          /\ clock' = clock
      BY <1>1, <2>3 DEF Delete, TypeOK
    <3> QED
      BY <1>1, <2>1, <3>1, SameKey
  <2> QED
    BY <2>2, <2>3
<1> QED
  BY <1>4, <1>5 DEF Inv

\* deleteMemoriesByIds keeps it, though it writes no tombstone.
LEMMA DeleteByIdsInv ==
  ASSUME Inv, NEW keys, DeleteByIds(keys)
  PROVE  Inv'
<1>1. TypeOK /\ clock \in Nat
  BY DEF Inv, TypeOK
<1> DEFINE hit(c, n) == <<c, n>> \in keys /\ Present(rows[c][n])
<1>2. ASSUME NEW c \in Branch, NEW n \in Memory
      PROVE  /\ rows'[c][n] = IF hit(c, n) THEN NoRow ELSE rows[c][n]
             /\ snaps'[c][n] = IF hit(c, n) THEN DeleteAt(snaps[c][n], clock) ELSE snaps[c][n]
             /\ tombs' = tombs /\ clock' = clock
  BY DEF DeleteByIds
<1>3. \A c \in Branch, n \in Memory :
        rows[c][n] \in Row /\ snaps[c][n] \in SUBSET Snapshot
          /\ DeleteAt(snaps[c][n], clock) \in SUBSET Snapshot
  BY <1>1, DeleteLine DEF TypeOK
<1>4. TypeOK'
  BY <1>1, <1>3, NoRowType DEF DeleteByIds, TypeOK
<1>5. ASSUME NEW c \in Branch, NEW n \in Memory
      PROVE  KeyInv(c, n)'
  <2>1. KeyInv(c, n)
    BY DEF Inv
  <2>2. CASE hit(c, n)
    BY <1>1, <1>2, <2>1, <2>2, DeleteKey
  <2>3. CASE ~hit(c, n)
    BY <1>1, <1>2, <2>1, <2>3, SameKey
  <2> QED
    BY <2>2, <2>3
<1> QED
  BY <1>4, <1>5 DEF Inv

\* A temporal read keeps it: the baselines it writes are for legacy rows only.
LEMMA TemporalReadInv ==
  ASSUME Inv, NEW b \in Branch, TemporalRead(b)
  PROVE  Inv'
<1>1. TypeOK /\ clock \in Nat /\ clock' = clock /\ rows' = rows /\ tombs' = tombs
  BY DEF Inv, TypeOK, TemporalRead
<1>2. ASSUME NEW c \in Branch, NEW n \in Memory
      PROVE  snaps'[c][n] = Baseline(snaps[c][n], rows[c][n]) \/ snaps'[c][n] = snaps[c][n]
  BY DEF TemporalRead
<1>3. \A c \in Branch, n \in Memory :
        snaps[c][n] \in SUBSET Snapshot /\ Baseline(snaps[c][n], rows[c][n]) \in SUBSET Snapshot
  BY <1>1, BaselineKey DEF Inv, TypeOK
<1>4. TypeOK'
  BY <1>1, <1>3 DEF TemporalRead, TypeOK
<1>5. ASSUME NEW c \in Branch, NEW n \in Memory
      PROVE  KeyInv(c, n)'
  <2>1. KeyInv(c, n)
    BY DEF Inv
  <2>2. CASE snaps'[c][n] = snaps[c][n]
    BY <1>1, <2>1, <2>2, SameKey
  <2>3. CASE snaps'[c][n] # snaps[c][n]
    <3>1. Unrecorded(c, n) /\ snaps'[c][n] = Baseline(snaps[c][n], rows[c][n])
      BY <1>1, <1>2, <2>1, <2>3, BaselineKey
    <3>2. /\ rows[c][n].version \in Version /\ n \notin tombs[c]
          /\ Baseline(snaps[c][n], rows[c][n]) = UpsertAt(snaps[c][n], rows[c][n].version, 0)
      BY <1>1, <2>1, <3>1, BaselineKey
    <3>3. rows[c][n] = [version |-> rows[c][n].version, at |-> 0]
      <4>1. rows[c][n] \in Row /\ rows[c][n].at = 0
        BY <1>1, <2>1, <3>1 DEF TypeOK, KeyInv, LegacyRow
      <4> QED
        BY <4>1 DEF Row
    <3> QED
      BY <1>1, <2>1, <3>1, <3>2, <3>3, UpsertKey
  <2> QED
    BY <2>2, <2>3
<1> QED
  BY <1>4, <1>5 DEF Inv

\* Every step keeps the invariant.
LEMMA InvNext == Inv /\ [Next]_vars => Inv'
<1> SUFFICES ASSUME Inv, [Next]_vars PROVE Inv'
  OBVIOUS
<1>1. CASE Tick
  <2>1. TypeOK' /\ clock' \in Nat /\ clock' >= clock
    BY <1>1, StoreAssumption DEF Inv, Tick, TypeOK
  <2> QED
    BY <1>1, <2>1, SameKey DEF Inv, Tick
<1>2. ASSUME NEW b \in Branch, NEW from \in Branch, CreateBranch(b, from)
      PROVE  Inv'
  <2>1. TypeOK' /\ clock' \in Nat /\ clock' >= clock
    BY <1>2, EnsureType DEF Inv, CreateBranch, TypeOK
  <2> QED
    BY <1>2, <2>1, SameKey DEF Inv, CreateBranch
<1>4. ASSUME NEW source \in Branch, NEW target \in Branch, BeginMerge(source, target)
      PROVE  Inv'
  <2>1. TypeOK' /\ clock' \in Nat /\ clock' >= clock
    <3>1. TypeOK /\ Main \in Branch
      BY ModelAssumption DEF Inv
    <3>2. Ensure(parent, source, Main) \in [Branch -> Branch \cup {Null}]
      BY <3>1, EnsureType
    <3>3. parent' \in [Branch -> Branch \cup {Null}]
      BY <1>4, <3>1, <3>2 DEF BeginMerge, Ensure
    <3>4. UNCHANGED <<clock, rows, tombs, snaps>>
      BY <1>4 DEF BeginMerge
    <3> QED
      BY <3>1, <3>3, <3>4 DEF TypeOK
  <2> QED
    BY <1>4, <2>1, SameKey DEF Inv, BeginMerge
<1>3. CASE UNCHANGED vars
  <2>1. TypeOK' /\ clock' \in Nat /\ clock' >= clock
    BY <1>3 DEF Inv, vars, TypeOK
  <2> QED
    BY <1>3, <2>1, SameKey DEF Inv, vars
<1> QED
  BY <1>1, <1>2, <1>3, <1>4, UpsertInv, DeleteInv, DeleteByIdsInv, TemporalReadInv DEF Next

\* Type correctness: every table holds what its columns declare.
THEOREM TypeCorrect == Spec => []TypeOK
<1>1. Inv => TypeOK
  BY DEF Inv
<1> QED
  BY <1>1, InvInit, InvNext, PTL DEF Spec

\* The ledger: rows, tombstones and timelines of every key agree, whatever
\* operations ran, in any order and at any instants.
THEOREM LedgerCorrect == Spec => []Ledger
<1>1. Inv => Ledger
  BY DEF Inv, KeyInv, Ledger
<1> QED
  BY <1>1, InvInit, InvNext, PTL DEF Spec

-----------------------------------------------------------------------------
(***************************************************************************)
(* The past is final.  What the ledger does not say: no two snapshots of a *)
(* timeline are ever valid at one instant, so that a read of the past has  *)
(* one answer to give, whatever order the snapshots come in.               *)
(***************************************************************************)

Lone == \A b \in Branch, m \in Memory : Single(snaps[b][m])

\* What one step may do to a key: nothing, a write of either kind now, or the
\* baseline of a row nobody has recorded.
Kept(b, m) == snaps'[b][m] = snaps[b][m] /\ rows'[b][m] = rows[b][m]

WrittenNow(b, m) ==
  \E op \in {"upsert", "delete"}, v \in Version \cup {Null} :
    snaps'[b][m] = Written(snaps[b][m], op, v, clock) /\ (op = "delete" => v = Null)

Based(b, m) ==
  /\ Unrecorded(b, m)
  /\ \E v \in Version : snaps'[b][m] = Written(snaps[b][m], "upsert", v, 0)

\* Every step does one of the three to every key.
LEMMA KeySteps ==
  ASSUME Inv, [Next]_vars, NEW c \in Branch, NEW n \in Memory
  PROVE  Kept(c, n) \/ WrittenNow(c, n) \/ Based(c, n)
<1>1. TypeOK /\ KeyInv(c, n) /\ snaps[c][n] \in SUBSET Snapshot
  BY DEF Inv, TypeOK
<1>2. CASE Tick \/ UNCHANGED vars
  BY <1>2 DEF Tick, vars, Kept
<1>3. CASE \E b, from \in Branch : CreateBranch(b, from) \/ BeginMerge(b, from)
  BY <1>3 DEF CreateBranch, BeginMerge, Kept
<1>4. ASSUME NEW b \in Branch, NEW from \in Branch, NEW m \in Memory, NEW v \in Version,
             Upsert(b, m, v, from)
      PROVE  Kept(c, n) \/ WrittenNow(c, n)
  <2>1. CASE c = b /\ n = m
    <3>1. snaps'[c][n] = UpsertAt(snaps[c][n], v, clock)
      BY <1>1, <1>4, <2>1 DEF Upsert, TypeOK
    <3>2. snaps'[c][n] = Written(snaps[c][n], "upsert", v, clock)
      BY <3>1, WriteForms
    <3> QED
      BY <3>2 DEF WrittenNow
  <2>2. CASE ~(c = b /\ n = m)
    BY <1>1, <1>4, <2>2 DEF Upsert, TypeOK, Kept
  <2> QED
    BY <2>1, <2>2
<1>5. ASSUME NEW b \in Branch, NEW m \in Memory, Delete(b, m)
      PROVE  Kept(c, n) \/ WrittenNow(c, n)
  <2>1. CASE c = b /\ n = m
    <3>1. snaps'[c][n] = DeleteAt(snaps[c][n], clock)
      BY <1>1, <1>5, <2>1 DEF Delete, TypeOK
    <3>2. snaps'[c][n] = Written(snaps[c][n], "delete", Null, clock)
      BY <3>1, WriteForms
    <3> QED
      BY <3>2 DEF WrittenNow
  <2>2. CASE ~(c = b /\ n = m)
    BY <1>1, <1>5, <2>2 DEF Delete, TypeOK, Kept
  <2> QED
    BY <2>1, <2>2
<1>6. ASSUME NEW keys, DeleteByIds(keys)
      PROVE  Kept(c, n) \/ WrittenNow(c, n)
  <2>1. CASE <<c, n>> \in keys /\ Present(rows[c][n])
    <3>1. snaps'[c][n] = DeleteAt(snaps[c][n], clock)
      BY <1>6, <2>1 DEF DeleteByIds
    <3>2. snaps'[c][n] = Written(snaps[c][n], "delete", Null, clock)
      BY <3>1, WriteForms
    <3> QED
      BY <3>2 DEF WrittenNow
  <2>2. CASE ~(<<c, n>> \in keys /\ Present(rows[c][n]))
    BY <1>6, <2>2 DEF DeleteByIds, Kept
  <2> QED
    BY <2>1, <2>2
<1>7. ASSUME NEW b \in Branch, TemporalRead(b)
      PROVE  Kept(c, n) \/ Based(c, n)
  <2>1. /\ rows' = rows
        /\ snaps'[c][n] = Baseline(snaps[c][n], rows[c][n]) \/ snaps'[c][n] = snaps[c][n]
    BY <1>7 DEF TemporalRead
  <2>2. CASE snaps'[c][n] = snaps[c][n]
    BY <2>1, <2>2 DEF Kept
  <2>3. CASE snaps'[c][n] # snaps[c][n]
    <3>1. /\ Unrecorded(c, n) /\ rows[c][n].version \in Version
          /\ snaps'[c][n] = UpsertAt(snaps[c][n], rows[c][n].version, 0)
      BY <1>1, <2>1, <2>3, BaselineKey
    <3>2. snaps'[c][n] = Written(snaps[c][n], "upsert", rows[c][n].version, 0)
      BY <3>1, WriteForms
    <3> QED
      BY <3>1, <3>2 DEF Based
  <2> QED
    BY <2>2, <2>3
<1> QED
  BY <1>2, <1>3, <1>4, <1>5, <1>6, <1>7 DEF Next

\* A timeline that is written now is past; so is one without snapshots.
LEMMA PastNow ==
  ASSUME Inv, NEW b \in Branch, NEW m \in Memory
  PROVE  /\ snaps[b][m] \in SUBSET Snapshot /\ clock \in Nat
         /\ Past(snaps[b][m], clock)
         /\ Unrecorded(b, m) => Past(snaps[b][m], 0) /\ Single(snaps[b][m])
<1>1. KeyInv(b, m) /\ TypeOK
  BY DEF Inv
<1> QED
  BY <1>1 DEF TypeOK, KeyInv, Ordered, Past, Unrecorded, Single, Valid

\* No step makes two snapshots of a timeline valid at once.
LEMMA LoneNext == Inv /\ Lone /\ [Next]_vars => Lone'
<1> SUFFICES ASSUME Inv, Lone, [Next]_vars, NEW c \in Branch, NEW n \in Memory
             PROVE  Single(snaps'[c][n])
  BY DEF Lone
<1>1. /\ snaps[c][n] \in SUBSET Snapshot /\ clock \in Nat /\ Past(snaps[c][n], clock)
      /\ Unrecorded(c, n) => Past(snaps[c][n], 0)
      /\ Single(snaps[c][n])
  BY PastNow DEF Lone
<1>2. CASE Kept(c, n)
  BY <1>1, <1>2 DEF Kept
<1>3. CASE WrittenNow(c, n)
  <2>1. PICK op \in {"upsert", "delete"}, v \in Version \cup {Null} :
          /\ snaps'[c][n] = Written(snaps[c][n], op, v, clock)
          /\ op = "delete" => v = Null
    BY <1>3 DEF WrittenNow
  <2> QED
    BY <1>1, <2>1, WritePast
<1>4. CASE Based(c, n)
  <2>1. PICK v \in Version : snaps'[c][n] = Written(snaps[c][n], "upsert", v, 0)
    BY <1>4 DEF Based
  <2>2. Single(Written(snaps[c][n], "upsert", v, 0))
    <3>1. v \in Version \cup {Null} /\ 0 \in Nat /\ Past(snaps[c][n], 0)
      BY <1>1, <1>4 DEF Based
    <3> QED
      BY <1>1, <3>1, WritePast
  <2> QED
    BY <2>1, <2>2
<1> QED
  BY <1>2, <1>3, <1>4, KeySteps

\* A recorded key reads from its timeline as it is.
LEMMA RecordedKey ==
  ASSUME NEW b \in Branch, NEW m \in Memory, Agrees(b, m), ~Unrecorded(b, m)
  PROVE  Baseline(snaps[b][m], rows[b][m]) = snaps[b][m]
  BY DEF Agrees, Unrecorded, Baseline

\* A key that is recorded stays so, and answers about the past as it did.
LEMMA KeyPastKept ==
  ASSUME Inv, Inv', Lone, [Next]_vars, NEW c \in Branch, NEW n \in Memory,
         ~Unrecorded(c, n), NEW t \in 0 .. clock - 1
  PROVE  /\ Baseline(snaps[c][n], rows[c][n]) = snaps[c][n]
         /\ Baseline(snaps'[c][n], rows'[c][n]) = snaps'[c][n]
         /\ SameAt(snaps[c][n], snaps'[c][n], t)
<1>1. /\ snaps[c][n] \in SUBSET Snapshot /\ clock \in Nat /\ Past(snaps[c][n], clock)
      /\ Single(snaps[c][n]) /\ t \in Nat /\ t < clock
  BY PastNow DEF Lone
<1>2. Agrees(c, n) /\ Agrees(c, n)'
  BY DEF Inv, KeyInv
<1>3. CASE Kept(c, n)
  <2>1. ~Unrecorded(c, n)'
    BY <1>3 DEF Kept, Unrecorded
  <2>2. SameAt(snaps[c][n], snaps'[c][n], t)
    BY <1>1, <1>3 DEF Kept, SameAt, Single
  <2>3. Baseline(snaps'[c][n], rows'[c][n]) = snaps'[c][n]
    BY <1>2, <2>1 DEF Agrees, Unrecorded, Baseline
  <2> QED
    BY <1>2, <2>2, <2>3, RecordedKey
<1>4. CASE WrittenNow(c, n)
  <2>1. PICK op \in {"upsert", "delete"}, v \in Version \cup {Null} :
          snaps'[c][n] = Written(snaps[c][n], op, v, clock)
    BY <1>4 DEF WrittenNow
  <2>2. SameAt(snaps[c][n], Written(snaps[c][n], op, v, clock), t)
    BY <1>1, WritePast
  <2>3. snaps'[c][n] # {}
    BY <2>1 DEF Written, Insert
  <2>4. Baseline(snaps'[c][n], rows'[c][n]) = snaps'[c][n]
    BY <1>2, <2>3 DEF Agrees, Baseline
  <2> QED
    BY <1>2, <2>1, <2>2, <2>4, RecordedKey
<1> QED
  BY <1>3, <1>4, KeySteps DEF Based

\* No step changes an answer about the past.
LEMMA PastKept ==
  ASSUME Inv, Lone, [Next]_vars, NEW b \in Branch, NEW m \in Memory,
         NEW t \in 0 .. clock - 1, Lineage(parent', b) = Lineage(parent, b),
         \A c \in Branch : ~Unrecorded(c, m)
  PROVE  AsOf(parent', rows', snaps', b, m, t) = AsOf(parent, rows, snaps, b, m, t)
<1>1. Inv' /\ Lone'
  BY InvNext, LoneNext
<1>2. /\ parent \in [Branch -> Branch \cup {Null}] /\ parent' \in [Branch -> Branch \cup {Null}]
      /\ t \in Nat
  BY <1>1 DEF Inv, TypeOK
<1>3. ASSUME NEW c \in Branch
      PROVE  /\ Baseline(snaps[c][m], rows[c][m]) = snaps[c][m]
             /\ Baseline(snaps'[c][m], rows'[c][m]) = snaps'[c][m]
             /\ SameAt(snaps[c][m], snaps'[c][m], t)
  BY <1>1, KeyPastKept
<1>4. ASSUME NEW c \in Branch
      PROVE  /\ snaps[c][m] \in SUBSET Snapshot /\ snaps'[c][m] \in SUBSET Snapshot
             /\ Single(snaps[c][m]) /\ Single(snaps'[c][m])
  BY <1>1 DEF Inv, TypeOK, Lone
<1>5. SameLines(rows, snaps, rows', snaps', m, t)
  BY <1>3, <1>4 DEF SameLines
<1> QED
  BY <1>2, <1>5, SameAnswer

\* An answer about the past is final: no operation changes what an asOf read of
\* an earlier instant returns, for any number of branches in any lineage.
THEOREM PastIsFinal == Spec => HistoryIsFinal
<1>1. Init => Lone
  BY DEF Init, InitTables, Lone, Single, Valid
<1>2. Inv /\ Lone /\ [Next]_vars =>
        [\A b \in Branch, m \in Memory, t \in 0 .. clock - 1 :
           /\ Lineage(parent', b) = Lineage(parent, b)
           /\ \A c \in Branch : ~Unrecorded(c, m)
           => AsOf(parent', rows', snaps', b, m, t) = ViewAsOf(b, m, t)]_vars
  BY PastKept DEF ViewAsOf
<1> QED
  BY <1>1, <1>2, InvInit, InvNext, LoneNext, PTL DEF Spec, HistoryIsFinal

-----------------------------------------------------------------------------
(***************************************************************************)
(* The two readers of the present agree.                                   *)
(***************************************************************************)

\* A delete snapshot has no content.
Blank(line) == \A s \in line : s.op = "delete" => s.version = Null

AllBlank == \A b \in Branch, m \in Memory : Blank(snaps[b][m])

\* No step gives one a content.
LEMMA BlankNext == Inv /\ AllBlank /\ [Next]_vars => AllBlank'
<1> SUFFICES ASSUME Inv, AllBlank, [Next]_vars, NEW c \in Branch, NEW n \in Memory
             PROVE  Blank(snaps'[c][n])
  BY DEF AllBlank
<1>1. Blank(snaps[c][n]) /\ snaps[c][n] \in SUBSET Snapshot /\ clock \in Nat
  BY PastNow DEF AllBlank
<1>2. ASSUME NEW op, NEW v, NEW t \in Nat, op = "delete" => v = Null
      PROVE  Blank(Written(snaps[c][n], op, v, t))
  <2>1. Fresh(op, v, t).op = op /\ Fresh(op, v, t).version = v
    BY DEF Fresh
  <2>2. \A r \in snaps[c][n] : Closed(r, t).op = r.op /\ Closed(r, t).version = r.version
    BY <1>1, ClosedType
  <2> QED
    BY <1>1, <1>2, <2>1, <2>2, WriteOld DEF Blank
<1>3. CASE Kept(c, n)
  BY <1>1, <1>3 DEF Kept
<1>4. CASE WrittenNow(c, n)
  BY <1>1, <1>2, <1>4 DEF WrittenNow
<1>5. CASE Based(c, n)
  BY <1>2, <1>5 DEF Based
<1> QED
  BY <1>3, <1>4, <1>5, KeySteps

\* A key's timeline, with the baseline a reader adds, tells what the ledger says.
LEMMA KeyTold ==
  ASSUME Inv, AllBlank, NEW c \in Branch, NEW n \in Memory
  PROVE  /\ Told(rows[c][n], n, tombs[c], Baseline(snaps[c][n], rows[c][n]), clock)
         /\ OpenDeletes(snaps[c][n]) = {} /\ ~Present(rows[c][n]) =>
              Valid(Baseline(snaps[c][n], rows[c][n]), clock) = {}
<1>1. /\ TypeOK /\ KeyInv(c, n) /\ Agrees(c, n) /\ Blank(snaps[c][n])
      /\ snaps[c][n] \in SUBSET Snapshot /\ clock \in Nat /\ Past(snaps[c][n], clock)
  BY PastNow DEF Inv, KeyInv, AllBlank
<1>2. CASE Unrecorded(c, n)
  <2> DEFINE v == rows[c][n].version
             line == UpsertAt(snaps[c][n], v, 0)
  <2>1. /\ Baseline(snaps[c][n], rows[c][n]) = line /\ v \in Version /\ n \notin tombs[c]
        /\ snaps[c][n] = {} /\ Present(rows[c][n])
    BY <1>1, <1>2, BaselineKey DEF Unrecorded
  <2>2. line = {Fresh("upsert", v, 0)}
    <3>1. line = Written({}, "upsert", v, 0)
      BY <2>1, WriteForms
    <3> QED
      BY <3>1 DEF Written, Insert, Close
  <2>3. /\ Fresh("upsert", v, 0) \in Snapshot /\ Fresh("upsert", v, 0).from = 0
        /\ Fresh("upsert", v, 0).until = Open /\ Fresh("upsert", v, 0).op = "upsert"
        /\ Fresh("upsert", v, 0).version = v
    BY <2>1 DEF Fresh, Snapshot
  <2> HIDE DEF line
  <2>4. Told(rows[c][n], n, tombs[c], line, clock)
    BY <1>1, <2>1, <2>2, <2>3 DEF Told, Past, Open
  <2> QED
    BY <2>1, <2>4
<1>3. CASE ~Unrecorded(c, n)
  <2>1. Baseline(snaps[c][n], rows[c][n]) = snaps[c][n]
    BY <1>1, <1>3, RecordedKey
  <2>2. Told(rows[c][n], n, tombs[c], snaps[c][n], clock)
    BY <1>1, <1>3 DEF Told, KeyInv, Agrees, Ordered, Blank, OpenUpserts, OpenDeletes, Unrecorded
  <2>3. OpenDeletes(snaps[c][n]) = {} /\ ~Present(rows[c][n]) => Valid(snaps[c][n], clock) = {}
    <3>1. \A s \in snaps[c][n] : s.until <= clock /\ s.op \in {"upsert", "delete"}
                                 /\ s.until \in Nat \cup {Open}
      BY <1>1 DEF Past, Snapshot
    <3>2. ~Present(rows[c][n]) => OpenUpserts(snaps[c][n]) = {}
      BY <1>1 DEF Agrees
    <3> QED
      BY <1>1, <3>1, <3>2 DEF Valid, OpenUpserts, OpenDeletes, Open
  <2> QED
    BY <2>1, <2>2, <2>3
<1> QED
  BY <1>2, <1>3

\* The current view, computed from rows and tombstones, and the asOf view of this
\* instant, computed from timelines, give the same answer for every branch, but
\* behind an ancestor's tombstone or a bare delete.
LEMMA ViewsFollow == Inv /\ AllBlank => ViewsAgree
<1> SUFFICES ASSUME Inv, AllBlank, NEW b \in Branch, NEW m \in Memory,
                    ~Masked(b, m), ~\E c \in Seen(Lineage(parent, b)) : BareDelete(c, m)
             PROVE  CurrentView(b, m) = ViewAsOf(b, m, clock)
  BY DEF ViewsAgree
<1>1. parent \in [Branch -> Branch \cup {Null}] /\ clock \in Nat
  BY DEF Inv, TypeOK
<1>2. \A c \in Branch : Lines(rows, snaps, m)[c] = Baseline(snaps[c][m], rows[c][m])
  BY DEF Lines
<1>3. \A c \in Branch : Told(rows[c][m], m, tombs[c], Lines(rows, snaps, m)[c], clock)
  BY <1>2, KeyTold
<1>4. \A c \in Seen(Lineage(parent, b)) :
        c # Main /\ m \notin tombs[c] /\ ~Present(rows[c][m])
          => Valid(Lines(rows, snaps, m)[c], clock) = {}
  <2>1. \A c \in Seen(Lineage(parent, b)) : c \in Branch
    BY <1>1, LineagePath DEF Path, Seen
  <2> QED
    BY <1>2, <2>1, KeyTold DEF BareDelete
<1>5. \A i, j \in DOMAIN Lineage(parent, b) :
        i < j /\ m \in tombs[Lineage(parent, b)[j]]
          => ~Present(rows[Lineage(parent, b)[i]][m])
  BY Zenon DEF Masked
<1> QED
  BY <1>1, <1>3, <1>4, <1>5, ViewIsAsOf DEF CurrentView, ViewAsOf

\* The two readers of a branch, the rows and tombstones behind listMemories and
\* the timelines behind a temporal read of this instant, answer alike for any
\* branches and lineages, except for a row behind an ancestor's tombstone and for a
\* memory a branch deleted by id alone.
THEOREM ReadersAgree == Spec => []ViewsAgree
<1>1. Init => AllBlank
  BY DEF Init, InitTables, AllBlank, Blank
<1> QED
  BY <1>1, ViewsFollow, BlankNext, InvInit, InvNext, PTL DEF Spec
=============================================================================
