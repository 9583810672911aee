-------------------------- MODULE MemoryModelProofs --------------------------
(***************************************************************************)
(* What the writes of MemoryModel leave in a timeline: the lemmas that the *)
(* proofs about MemoryStore and MemoryService share.                       *)
(***************************************************************************)
EXTENDS MemoryModel, NaturalsInduction, WellFoundedInduction, TLAPS

-----------------------------------------------------------------------------
(***************************************************************************)
(* Timelines.                                                              *)
(***************************************************************************)

\* What a write at t leaves of an older snapshot.
Closed(r, t) == [r EXCEPT !.until = IF r.until = Open THEN t ELSE r.until]

Fresh(op, v, t) == [op |-> op, version |-> v, from |-> t, until |-> Open]

\* A snapshot closed at an instant is a snapshot, and no longer open.
LEMMA ClosedType ==
  ASSUME NEW r \in Snapshot, NEW t \in Nat
  PROVE  /\ Closed(r, t) \in Snapshot
         /\ Closed(r, t).until \in Nat
         /\ Closed(r, t).from = r.from
         /\ Closed(r, t).op = r.op
         /\ Closed(r, t).version = r.version
         /\ Closed(r, t).until = IF r.until = Open THEN t ELSE r.until
  BY DEF Closed, Snapshot, Open

\* A write at t of either kind: close what is open, insert the fresh snapshot.
Written(line, op, v, t) == Insert(Close(line, t), Fresh(op, v, t))

\* What it leaves in the timeline: the fresh snapshot and closed older ones.
LEMMA WriteOld ==
  ASSUME NEW line, NEW t, NEW op, NEW v
  PROVE  \A s \in Written(line, op, v, t) :
           s = Fresh(op, v, t) \/ \E r \in line : s = Closed(r, t)
  BY DEF Written, Insert, Close, Closed

\* It keeps every older snapshot that has another instant.
LEMMA WriteKeeps ==
  ASSUME NEW line \in SUBSET Snapshot, NEW t \in Nat, NEW op, NEW v,
         NEW r \in line, r.from # t
  PROVE  Closed(r, t) \in Written(line, op, v, t)
<1>1. Closed(r, t).from # Fresh(op, v, t).from
  BY ClosedType DEF Fresh
<1>2. Closed(r, t) \in Close(line, t)
  BY DEF Close, Closed
<1> QED
  BY <1>1, <1>2 DEF Written, Insert

\* It leaves a timeline in which the fresh snapshot alone is open.
LEMMA WriteLine ==
  ASSUME NEW line \in SUBSET Snapshot, NEW t \in Nat,
         NEW op \in {"upsert", "delete"}, NEW v \in Version \cup {Null}
  PROVE  /\ Written(line, op, v, t) \in SUBSET Snapshot
         /\ Fresh(op, v, t) \in Written(line, op, v, t)
         /\ \A s \in Written(line, op, v, t) : s.until = Open => s = Fresh(op, v, t)
<1>1. Fresh(op, v, t) \in Snapshot
  BY DEF Fresh, Snapshot, Open
<1>2. Fresh(op, v, t) \in Written(line, op, v, t)
  BY DEF Insert, Written
<1>3. \A r \in line : Closed(r, t) \in Snapshot /\ Closed(r, t).until # Open
  BY ClosedType DEF Open
<1> QED
  BY <1>1, <1>2, <1>3, WriteOld

\* The two writes of the code are writes in that sense.
LEMMA WriteForms ==
  ASSUME NEW line, NEW v, NEW t
  PROVE  /\ UpsertAt(line, v, t) = Written(line, "upsert", v, t)
         /\ DeleteAt(line, t) = Written(line, "delete", Null, t)
  BY DEF UpsertAt, DeleteAt, Fresh, Written

\* After an upsert the open snapshot is that upsert.
LEMMA UpsertLine ==
  ASSUME NEW line \in SUBSET Snapshot, NEW t \in Nat, NEW v \in Version \cup {Null}
  PROVE  /\ UpsertAt(line, v, t) \in SUBSET Snapshot
         /\ OpenUpserts(UpsertAt(line, v, t)) = {Fresh("upsert", v, t)}
         /\ OpenDeletes(UpsertAt(line, v, t)) = {}
<1>1. Fresh("upsert", v, t).op = "upsert" /\ Fresh("upsert", v, t).until = Open
  BY DEF Fresh
<1>2. UpsertAt(line, v, t) = Written(line, "upsert", v, t)
  BY WriteForms
<1>3. /\ Written(line, "upsert", v, t) \in SUBSET Snapshot
      /\ Fresh("upsert", v, t) \in Written(line, "upsert", v, t)
      /\ \A s \in Written(line, "upsert", v, t) :
           s.until = Open => s = Fresh("upsert", v, t)
  BY WriteLine
<1> QED
  BY <1>1, <1>2, <1>3 DEF OpenUpserts, OpenDeletes

\* After a delete it is that delete.
LEMMA DeleteLine ==
  ASSUME NEW line \in SUBSET Snapshot, NEW t \in Nat
  PROVE  /\ DeleteAt(line, t) \in SUBSET Snapshot
         /\ OpenUpserts(DeleteAt(line, t)) = {}
         /\ OpenDeletes(DeleteAt(line, t)) = {Fresh("delete", Null, t)}
<1>1. Fresh("delete", Null, t).op = "delete" /\ Fresh("delete", Null, t).until = Open
  BY DEF Fresh
<1>2. DeleteAt(line, t) = Written(line, "delete", Null, t)
  BY WriteForms
<1>3. /\ Written(line, "delete", Null, t) \in SUBSET Snapshot
      /\ Fresh("delete", Null, t) \in Written(line, "delete", Null, t)
      /\ \A s \in Written(line, "delete", Null, t) :
           s.until = Open => s = Fresh("delete", Null, t)
  BY WriteLine
<1> QED
  BY <1>1, <1>2, <1>3 DEF OpenUpserts, OpenDeletes

\* Nothing but the snapshot just written is open.
LEMMA UpsertOpen ==
  ASSUME NEW line \in SUBSET Snapshot, NEW t \in Nat, NEW v \in Version \cup {Null}
  PROVE  \A s \in UpsertAt(line, v, t) : s.until = Open => s = Fresh("upsert", v, t)
<1>1. \A s \in Written(line, "upsert", v, t) : s.until = Open => s = Fresh("upsert", v, t)
  BY WriteLine
<1> QED
  BY <1>1, WriteForms

\* The same of a delete.
LEMMA DeleteOpen ==
  ASSUME NEW line \in SUBSET Snapshot, NEW t \in Nat
  PROVE  \A s \in DeleteAt(line, t) : s.until = Open => s = Fresh("delete", Null, t)
<1>1. \A s \in Written(line, "delete", Null, t) : s.until = Open => s = Fresh("delete", Null, t)
  BY WriteLine
<1> QED
  BY <1>1, WriteForms

-----------------------------------------------------------------------------
(***************************************************************************)
(* Lineages.                                                               *)
(***************************************************************************)

\* A set of numbers has a least one.
LEMMA LeastNatural ==
  ASSUME NEW T, T \subseteq Nat, T # {}
  PROVE  \E i \in T : \A j \in T : i <= j
<1>. DEFINE R == {ss \in Nat \X Nat : ss[1] < ss[2]}
<1>1. OpToRel(<, Nat) = R
  BY Zenon DEF OpToRel
<1>2. IsWellFoundedOn(R, Nat)
  BY <1>1, NatLessThanWellFounded, Zenon
<1>. HIDE DEF R
<1>3. PICK i \in T : \A j \in T : ~(<<j, i>> \in R)
  BY <1>2, WFMin
<1>4. ASSUME NEW j \in T PROVE i <= j
  <2>1. <<j, i>> \in Nat \X Nat /\ <<j, i>>[1] = j /\ <<j, i>>[2] = i
    OBVIOUS
  <2>2. ~(j < i)
    <3>1. ASSUME j < i PROVE <<j, i>> \in R
      BY <2>1, <3>1 DEF R
    <3>. QED  BY <1>3, <3>1
  <2>. QED  BY <2>1, <2>2
<1>. QED  BY <1>4

\* One step of the walk of a lineage.
Further(parent, w) ==
  LET next == ParentOf(parent, w[Len(w)])
  IN  IF w[Len(w)] = Main \/ next \in Seen(w) THEN w ELSE Append(w, next)

\* The walk of Lineage, up to its bound.
Walk(parent, b) ==
  CHOOSE walk : walk = [n \in 1 .. MaxLineage |->
    IF n = 1 THEN <<b>> ELSE Further(parent, walk[n - 1])]

\* The main branch ends a lineage that does not reach it.
Ended(w) == IF Main \in Seen(w) THEN w ELSE Append(w, Main)

\* A lineage is its walk, ended.
LEMMA LineageForm ==
  ASSUME NEW parent, NEW b
  PROVE Lineage(parent, b) = Ended(Walk(parent, b)[MaxLineage])
BY Zenon DEF Lineage, Walk, Further, Ended

\* The walk exists.
LEMMA WalkExists ==
  ASSUME NEW parent, NEW b
  PROVE  Walk(parent, b) = [n \in 1 .. MaxLineage |->
           IF n = 1 THEN <<b>> ELSE Further(parent, Walk(parent, b)[n - 1])]
<1> DEFINE IsWalk(f, k) ==
             f = [n \in 1 .. k |-> IF n = 1 THEN <<b>> ELSE Further(parent, f[n - 1])]
           T == {k \in Nat : ~\E f : IsWalk(f, k)}
<1>1. T = {}
  <2>1. SUFFICES ASSUME T # {} PROVE FALSE
    OBVIOUS
  <2>2. PICK k \in T : \A j \in T : k <= j
    BY <2>1, LeastNatural
  <2>3. k # 0
    <3>1. IsWalk([n \in 1 .. 0 |-> <<b>>], 0)
      OBVIOUS
    <3> QED
      BY <3>1
  <2>4. k - 1 \in Nat /\ k - 1 \notin T
    <3>1. k \in Nat
      BY <2>2
    <3> HIDE DEF T
    <3> QED
      BY <2>2, <2>3, <3>1
  <2>5. PICK g : IsWalk(g, k - 1)
    BY <2>4
  <2> DEFINE f == [n \in 1 .. k |-> IF n = 1 THEN <<b>> ELSE Further(parent, g[n - 1])]
  <2>6. \A n \in 1 .. k : n # 1 => g[n - 1] = f[n - 1]
    <3>1. ASSUME NEW n \in 1 .. k, n # 1 PROVE g[n - 1] = f[n - 1]
      <4>1. n - 1 \in 1 .. (k - 1) /\ n - 1 \in 1 .. k
        BY <2>2, <3>1
      <4>2. f[n - 1] = IF n - 1 = 1 THEN <<b>> ELSE Further(parent, g[n - 1 - 1])
        BY <4>1
      <4>3. g[n - 1] = IF n - 1 = 1 THEN <<b>> ELSE Further(parent, g[n - 1 - 1])
        BY <2>5, <4>1
      <4> QED
        BY <4>2, <4>3
    <3> QED
      BY <3>1
  <2>7. IsWalk(f, k)
    BY <2>6
  <2> QED
    BY <2>2, <2>7
<1>2. PICK f : IsWalk(f, MaxLineage)
  BY <1>1, ModelAssumption
<1> QED
  BY <1>2, Zenon DEF Walk

\* A list of different branches that begins with b and in which Main, if it is there, is last.
Path(b, w) ==
  /\ w \in Seq(Branch) /\ Len(w) \in Nat \ {0} /\ w[1] = b
  /\ \A i, j \in 1 .. Len(w) : i < j => w[i] # w[j] /\ w[i] # Main

\* A step of the walk repeats no branch.
LEMMA FurtherPath ==
  ASSUME NEW parent \in [Branch -> Branch \cup {Null}], NEW b \in Branch, NEW w, Path(b, w)
  PROVE  Path(b, Further(parent, w))
<1> DEFINE next == ParentOf(parent, w[Len(w)])
<1>1. w[Len(w)] \in Branch /\ next \in Branch
  BY ModelAssumption DEF Path, ParentOf
<1>2. CASE w[Len(w)] = Main \/ next \in Seen(w)
  BY <1>2 DEF Further
<1>3. CASE ~(w[Len(w)] = Main \/ next \in Seen(w))
  <2> HIDE DEF next
  <2> DEFINE v == Append(w, next)
  <2>1. v \in Seq(Branch) /\ Len(v) = Len(w) + 1 /\ v[Len(w) + 1] = next
        /\ \A i \in 1 .. Len(w) : v[i] = w[i]
    BY <1>1 DEF Path
  <2>2. \A i \in 1 .. Len(w) : w[i] # next /\ w[i] # Main
    BY <1>3 DEF Path, Seen
  <2> HIDE DEF v
  <2>3. Path(b, v)
    BY <2>1, <2>2 DEF Path
  <2> QED
    BY <1>3, <2>3 DEF Further, v, next
<1> QED
  BY <1>2, <1>3

\* Nor does the walk at any step repeat a branch.
LEMMA WalkPath ==
  ASSUME NEW parent \in [Branch -> Branch \cup {Null}], NEW b \in Branch
  PROVE  \A k \in 1 .. MaxLineage : Path(b, Walk(parent, b)[k])
<1> DEFINE walk == Walk(parent, b)
           T == {k \in 1 .. MaxLineage : ~Path(b, walk[k])}
<1>1. T = {}
  <2>1. SUFFICES ASSUME T # {} PROVE FALSE
    OBVIOUS
  <2>2. T \subseteq Nat
    OBVIOUS
  <2>3. PICK k \in T : \A j \in T : k <= j
    BY <2>1, <2>2, LeastNatural
  <2>4. k \in 1 .. MaxLineage /\ ~Path(b, walk[k])
    OBVIOUS
  <2>5. k # 1
    <3>1. walk[1] = <<b>>
      BY WalkExists, ModelAssumption
    <3>2. Path(b, <<b>>)
      BY DEF Path
    <3> QED
      BY <2>4, <3>1, <3>2
  <2>6. k - 1 \in 1 .. MaxLineage /\ k - 1 < k
    BY <2>4, <2>5, ModelAssumption
  <2>7. Path(b, walk[k - 1])
    <3>1. ~(k <= k - 1)
      BY <2>6
    <3> QED
      BY <2>3, <2>6, <3>1
  <2>8. walk[k] = Further(parent, walk[k - 1])
    <3>1. walk = [n \in 1 .. MaxLineage |-> IF n = 1 THEN <<b>> ELSE Further(parent, walk[n - 1])]
      BY WalkExists
    <3>2. k \in 1 .. MaxLineage
      BY <2>4
    <3> HIDE DEF walk, T
    <3> QED
      BY <2>5, <3>1, <3>2
  <2> QED
    BY <2>4, <2>7, <2>8, FurtherPath
<1> QED
  BY <1>1

\* A lineage repeats no branch, begins with its branch and ends with the main one.
LEMMA LineagePath ==
  ASSUME NEW parent \in [Branch -> Branch \cup {Null}], NEW b \in Branch
  PROVE  /\ Path(b, Lineage(parent, b))
         /\ Lineage(parent, b)[Len(Lineage(parent, b))] = Main
<1> DEFINE walk == Walk(parent, b)
<1>2. Path(b, walk[MaxLineage])
  BY WalkPath, ModelAssumption
<1> DEFINE full == walk[MaxLineage]
<1>3. Lineage(parent, b) = Ended(full)
  BY LineageForm
<1> HIDE DEF full
<1>4. CASE Main \in Seen(full)
  <2>1. PICK i \in DOMAIN full : full[i] = Main
    BY <1>4 DEF Seen
  <2>2. i = Len(full)
    BY <1>2, <2>1 DEF Path, full
  <2> QED
    BY <1>2, <1>3, <1>4, <2>1, <2>2 DEF Ended, full
<1>5. CASE Main \notin Seen(full)
  <2> DEFINE v == Append(full, Main)
  <2>1. v \in Seq(Branch) /\ Len(v) = Len(full) + 1 /\ v[Len(full) + 1] = Main
        /\ \A i \in 1 .. Len(full) : v[i] = full[i]
    BY <1>2, ModelAssumption DEF Path, full
  <2>2. \A i \in 1 .. Len(full) : full[i] # Main
    BY <1>2, <1>5 DEF Path, Seen, full
  <2>3. full \in Seq(Branch) /\ Len(full) \in Nat \ {0} /\ full[1] = b
        /\ \A i, j \in 1 .. Len(full) : i < j => full[i] # full[j]
    BY <1>2 DEF Path, full
  <2> HIDE DEF v
  <2>4. Path(b, v) /\ v[Len(v)] = Main
    BY <2>1, <2>2, <2>3 DEF Path
  <2> QED
    BY <1>3, <1>5, <2>4 DEF Ended, v
<1> QED
  BY <1>4, <1>5

\* A list with one branch more.
LEMMA Appended ==
  ASSUME NEW w, w \in Seq(Branch), NEW x \in Branch
  PROVE  /\ Append(w, x) \in Seq(Branch)
         /\ Len(w) \in Nat /\ Len(Append(w, x)) = Len(w) + 1
         /\ Append(w, x)[Len(w) + 1] = x
         /\ \A i \in 1 .. Len(w) : Append(w, x)[i] = w[i]
         /\ Seen(Append(w, x)) = Seen(w) \cup {x}
<1> DEFINE v == Append(w, x)
<1>1. v \in Seq(Branch) /\ Len(w) \in Nat /\ Len(v) = Len(w) + 1 /\ v[Len(w) + 1] = x
      /\ \A i \in 1 .. Len(w) : v[i] = w[i]
  OBVIOUS
<1>2. DOMAIN w = 1 .. Len(w) /\ DOMAIN v = 1 .. Len(w) + 1
  BY <1>1
<1> HIDE DEF v
<1>3. \A i \in 1 .. Len(w) + 1 : v[i] \in Seen(w) \cup {x}
  BY <1>1, <1>2 DEF Seen
<1>4. Len(w) + 1 \in DOMAIN v /\ \A i \in 1 .. Len(w) : i \in DOMAIN v
  BY <1>1, <1>2
<1>5. Seen(v) = Seen(w) \cup {x}
  BY <1>1, <1>2, <1>3, <1>4 DEF Seen
<1> QED
  BY <1>1, <1>5 DEF v

\* How the walk v of a branch's parent lies in the walk u of the branch, a step
\* longer: after the branch, or, once the parent's walk is back at the branch, but for it.
Behind(parent, s, u, v) ==
  /\ Len(u) \in Nat \ {0} /\ Len(v) \in Nat \ {0}
  /\ u \in Seq(Branch) /\ v \in Seq(Branch)
  /\ u[1] = s
  /\ \/ /\ s \notin Seen(v) /\ Len(u) = Len(v) + 1
        /\ \A i \in 1 .. Len(v) : u[i + 1] = v[i]
     \/ /\ Len(u) = Len(v) /\ Len(v) > 1 /\ v[Len(v)] = s
        /\ \A i \in 1 .. Len(v) - 1 : u[i + 1] = v[i]
        /\ ParentOf(parent, u[Len(u)]) = s /\ u[Len(u)] # Main

\* A step of both walks leaves them so.
LEMMA BehindNext ==
  ASSUME NEW parent \in [Branch -> Branch \cup {Null}], NEW s \in Branch \ {Main},
         NEW u, NEW v, Behind(parent, s, u, v),
         v[1] = ParentOf(parent, s)
  PROVE  /\ Behind(parent, s, Further(parent, u), Further(parent, v))
         /\ Further(parent, v)[1] = ParentOf(parent, s)
<1> DEFINE k == Len(v)
           x == v[k]
           y == ParentOf(parent, x)
<1>1. x \in Branch /\ y \in Branch /\ k \in Nat \ {0} /\ v[1] \in Seen(v) /\ u[1] \in Seen(u)
  BY ModelAssumption DEF Behind, ParentOf, Seen
<1>2. CASE /\ s \notin Seen(v) /\ Len(u) = Len(v) + 1
           /\ \A i \in 1 .. Len(v) : u[i + 1] = v[i]
  <2>1. u[Len(u)] = x
    BY <1>1, <1>2
  <2>2. Seen(u) = {s} \cup Seen(v)
    <3>1. ASSUME NEW i \in 1 .. Len(u) PROVE u[i] \in {s} \cup Seen(v)
      <4>1. CASE i = 1
        BY <4>1 DEF Behind
      <4>2. CASE i # 1
        <5>1. i - 1 \in 1 .. Len(v) /\ (i - 1) + 1 = i
          BY <1>1, <1>2, <4>2
        <5>2. u[(i - 1) + 1] = v[i - 1]
          BY <1>2, <5>1
        <5>3. DOMAIN v = 1 .. Len(v)
          BY DEF Behind
        <5> QED
          BY <5>1, <5>2, <5>3 DEF Seen
      <4> QED
        BY <4>1, <4>2
    <3>2. ASSUME NEW i \in 1 .. Len(v) PROVE v[i] \in Seen(u)
      <4>1. i + 1 \in DOMAIN u /\ u[i + 1] = v[i]
        BY <1>1, <1>2, <3>2 DEF Behind
      <4> QED
        BY <4>1 DEF Seen
    <3>3. DOMAIN u = 1 .. Len(u) /\ DOMAIN v = 1 .. Len(v) /\ s \in Seen(u)
      BY <1>1 DEF Behind
    <3> QED
      BY <3>1, <3>2, <3>3 DEF Seen
  <2>3. CASE x = Main \/ y \in Seen(v)
    <3>1. Further(parent, u) = u /\ Further(parent, v) = v
      BY <2>1, <2>2, <2>3 DEF Further
    <3> QED
      BY <3>1
  <2>4. CASE x # Main /\ y \notin Seen(v) /\ y = s
    <3>1. Further(parent, u) = u /\ Further(parent, v) = Append(v, s)
      BY <2>1, <2>2, <2>4 DEF Further
    <3> DEFINE q == Append(v, s)
    <3>2. q \in Seq(Branch) /\ Len(q) = k + 1 /\ q[k + 1] = s
          /\ \A i \in 1 .. k : q[i] = v[i]
      BY <1>1 DEF Behind
    <3> HIDE DEF q
    <3>3. Behind(parent, s, u, q)
      <4>1. \A i \in 1 .. Len(q) - 1 : u[i + 1] = q[i]
        BY <1>1, <1>2, <3>2
      <4>2. Len(q) > 1 /\ Len(q) \in Nat \ {0} /\ q[Len(q)] = s /\ Len(u) = Len(q)
        BY <1>1, <1>2, <3>2
      <4>3. ParentOf(parent, u[Len(u)]) = s /\ u[Len(u)] # Main
        BY <2>1, <2>4
      <4> QED
        BY <3>2, <4>1, <4>2, <4>3 DEF Behind
    <3>4. q[1] = v[1]
      BY <1>1, <3>2
    <3> QED
      BY <3>1, <3>3, <3>4 DEF q
  <2>5. CASE x # Main /\ y \notin Seen(v) /\ y # s
    <3>1. Further(parent, u) = Append(u, y) /\ Further(parent, v) = Append(v, y)
      BY <2>1, <2>2, <2>5 DEF Further
    <3> DEFINE q == Append(v, y)
               p == Append(u, y)
    <3>2. q \in Seq(Branch) /\ Len(q) = k + 1 /\ q[k + 1] = y
          /\ \A i \in 1 .. k : q[i] = v[i]
      BY <1>1 DEF Behind
    <3>3. p \in Seq(Branch) /\ Len(p) = k + 2 /\ p[k + 2] = y
          /\ \A i \in 1 .. k + 1 : p[i] = u[i]
      BY <1>1, <1>2 DEF Behind
    <3> HIDE DEF p, q
    <3>4. s \notin Seen(q)
      <4>1. \A i \in 1 .. k : v[i] # s
        BY <1>2 DEF Seen, Behind
      <4>2. ASSUME NEW i \in 1 .. k + 1 PROVE q[i] # s
        BY <4>1, <3>2, <2>5, <1>1
      <4> QED
        BY <4>2, <3>2 DEF Seen
    <3>5. ASSUME NEW i \in 1 .. Len(q) PROVE p[i + 1] = q[i]
      <4>1. CASE i = k + 1
        BY <4>1, <3>2, <3>3, <1>1
      <4>2. CASE i # k + 1
        <5>1. i \in 1 .. k /\ i + 1 \in 1 .. k + 1
          BY <3>2, <4>2, <1>1
        <5>2. p[i + 1] = u[i + 1] /\ q[i] = v[i] /\ u[i + 1] = v[i]
          BY <5>1, <3>2, <3>3, <1>2
        <5> QED
          BY <5>2
      <4> QED
        BY <4>1, <4>2
    <3>6. p[1] = s /\ q[1] = v[1]
      BY <3>2, <3>3, <1>1 DEF Behind
    <3>7. Len(p) \in Nat \ {0} /\ Len(q) \in Nat \ {0} /\ Len(p) = Len(q) + 1
      BY <3>2, <3>3, <1>1
    <3>8. Behind(parent, s, p, q)
      BY <3>2, <3>3, <3>4, <3>5, <3>6, <3>7 DEF Behind
    <3> QED
      BY <3>1, <3>6, <3>8 DEF p, q
  <2> QED
    BY <2>3, <2>4, <2>5
<1>3. CASE /\ Len(u) = Len(v) /\ Len(v) > 1 /\ v[Len(v)] = s
           /\ \A i \in 1 .. Len(v) - 1 : u[i + 1] = v[i]
           /\ ParentOf(parent, u[Len(u)]) = s /\ u[Len(u)] # Main
  <2>1. Further(parent, v) = v
    BY <1>1, <1>3 DEF Further
  <2>2. Further(parent, u) = u
    BY <1>1, <1>3 DEF Further, Behind
  <2> QED
    BY <2>1, <2>2
<1> QED
  BY <1>2, <1>3 DEF Behind

\* The two walks, ended where the branch's own walk has all of its parents.
LEMMA EndedBehind ==
  ASSUME NEW parent \in [Branch -> Branch \cup {Null}], NEW s \in Branch \ {Main},
         NEW t \in Branch, NEW u, NEW v, Behind(parent, s, u, v), v[1] = t,
         Path(s, u), Path(t, v), t = ParentOf(parent, s),
         NEW L, L = Ended(u), NEW K, K = Ended(Further(parent, v)),
         \A c \in Seen(L) \ {Main} : ParentOf(parent, c) \in Seen(L)
  PROVE  /\ L[1] = s
         /\ \/ /\ s \notin Seen(K) /\ Len(L) = Len(K) + 1
               /\ \A i \in 1 .. Len(K) : L[i + 1] = K[i]
            \/ /\ Len(L) = Len(K) /\ Len(K) > 1
               /\ K[Len(K) - 1] = s /\ K[Len(K)] = Main /\ L[Len(K)] = Main
               /\ \A i \in 1 .. Len(K) - 2 : L[i + 1] = K[i]
<1> DEFINE k == Len(v)
           x == v[k]
           y == ParentOf(parent, x)
           a == Append(u, Main)
           b == Append(v, Main)
<1>1. x \in Branch /\ y \in Branch /\ k \in Nat \ {0} /\ v[1] \in Seen(v) /\ u[1] = s
      /\ Len(u) \in Nat \ {0} /\ DOMAIN u = 1 .. Len(u) /\ DOMAIN v = 1 .. Len(v)
      /\ x \in Seen(v)
  BY ModelAssumption DEF Behind, ParentOf, Seen
<1>2. /\ Len(a) = Len(u) + 1 /\ a[Len(u) + 1] = Main /\ \A i \in 1 .. Len(u) : a[i] = u[i]
      /\ Seen(a) = Seen(u) \cup {Main}
  BY Appended, ModelAssumption DEF Behind
<1>3. /\ Len(b) = k + 1 /\ b[k + 1] = Main /\ \A i \in 1 .. k : b[i] = v[i]
      /\ Seen(b) = Seen(v) \cup {Main}
  BY Appended, ModelAssumption DEF Behind
<1> HIDE DEF a, b
<1>5. CASE /\ s \notin Seen(v) /\ Len(u) = Len(v) + 1
           /\ \A i \in 1 .. Len(v) : u[i + 1] = v[i]
  <2>1. u[Len(u)] = x /\ Len(u) > 1
    BY <1>1, <1>5
  <2>2. Seen(u) = {s} \cup Seen(v)
    <3>1. ASSUME NEW i \in 1 .. Len(u) PROVE u[i] \in {s} \cup Seen(v)
      <4>1. CASE i = 1
        BY <4>1, <1>1
      <4>2. CASE i # 1
        <5>1. i - 1 \in 1 .. Len(v) /\ (i - 1) + 1 = i
          BY <1>1, <1>5, <4>2
        <5>2. u[(i - 1) + 1] = v[i - 1]
          BY <1>5, <5>1
        <5> QED
          BY <5>1, <5>2, <1>1 DEF Seen
      <4> QED
        BY <4>1, <4>2
    <3>2. ASSUME NEW i \in 1 .. Len(v) PROVE v[i] \in Seen(u)
      <4>1. i + 1 \in DOMAIN u /\ u[i + 1] = v[i]
        BY <1>1, <1>5, <3>2
      <4> QED
        BY <4>1 DEF Seen
    <3>3. s \in Seen(u)
      BY <1>1 DEF Seen
    <3> QED
      BY <3>1, <3>2, <3>3, <1>1 DEF Seen
  <2>3. CASE Main \in Seen(v)
    <3>1. x = Main
      BY <1>1, <2>3 DEF Path, Seen
    <3>2. Further(parent, v) = v
      BY <3>1 DEF Further
    <3>3. L = u /\ K = v
      BY <2>2, <2>3, <3>2 DEF Ended
    <3>4. s \notin Seen(v) /\ Len(u) = Len(v) + 1 /\ \A i \in 1 .. Len(v) : u[i + 1] = v[i]
      BY <1>5
    <3> QED
      BY <1>1, <3>3, <3>4, Zenon
  <2>4. CASE Main \notin Seen(v)
    <3>1. L = a /\ x # Main
      <4>1. Main \notin Seen(u) /\ x # Main
        BY <1>1, <2>2, <2>4
      <4> QED
        BY <4>1 DEF Ended, a
    <3>2. y \in Seen(v) \cup {s, Main}
      BY <1>1, <1>2, <2>2, <3>1
    <3>7. /\ a[1] = s /\ s \notin Seen(b) /\ Len(a) = Len(b) + 1
          /\ \A i \in 1 .. Len(b) : a[i + 1] = b[i]
      <4>1. Len(u) \in Nat \ {0} /\ Len(v) \in Nat \ {0} /\ u[1] = s
        BY <1>1
      <4>2. s \notin Seen(v) /\ Len(u) = Len(v) + 1 /\ \A i \in 1 .. Len(v) : u[i + 1] = v[i]
        BY <1>5
      <4>3. Len(b) = Len(v) + 1 /\ b[Len(v) + 1] = Main /\ (\A i \in 1 .. Len(v) : b[i] = v[i])
            /\ Seen(b) = Seen(v) \cup {Main}
        BY <1>3
      <4>4. Len(a) = Len(u) + 1 /\ a[Len(u) + 1] = Main /\ \A i \in 1 .. Len(u) : a[i] = u[i]
        BY <1>2
      <4> QED
        <5>1. a[1] = s /\ s \notin Seen(b) /\ Len(a) = Len(b) + 1
          BY <4>1, <4>2, <4>3, <4>4
        <5>2. ASSUME NEW i \in 1 .. Len(b) PROVE a[i + 1] = b[i]
          <6>1. CASE i = Len(b)
            BY <6>1, <4>1, <4>2, <4>3, <4>4
          <6>2. CASE i # Len(b)
            <7>1. i \in 1 .. Len(v) /\ i + 1 \in 1 .. Len(u)
              BY <6>2, <4>1, <4>2, <4>3
            <7> QED
              BY <7>1, <4>2, <4>3, <4>4
          <6> QED
            BY <6>1, <6>2
        <5> QED
          BY <5>1, <5>2
    <3>4. CASE y = s
      <4> DEFINE q == Append(v, s)
                 r == Append(q, Main)
      <4>1. y \notin Seen(v)
        BY <1>5, <3>4
      <4>2. Further(parent, v) = q
        BY <3>1, <3>4, <4>1 DEF Further
      <4>3. q \in Seq(Branch) /\ Len(q) = k + 1 /\ q[k + 1] = s /\ (\A i \in 1 .. k : q[i] = v[i])
            /\ Seen(q) = Seen(v) \cup {s}
        <5>1. v \in Seq(Branch) /\ s \in Branch
          BY DEF Behind
        <5> QED
          BY <5>1, Appended
      <4> HIDE DEF q
      <4>5. Main \notin Seen(q)
        <5>1. s # Main
          OBVIOUS
        <5> QED
          BY <4>3, <2>4, <5>1, Zenon
      <4>6. K = r
        BY <4>2, <4>5 DEF Ended
      <4>7. Len(r) = k + 2 /\ r[k + 2] = Main /\ \A i \in 1 .. k + 1 : r[i] = q[i]
        <5>1. Len(r) = Len(q) + 1 /\ r[Len(q) + 1] = Main /\ \A i \in 1 .. Len(q) : r[i] = q[i]
          BY <4>3, ModelAssumption, Appended
        <5> HIDE DEF r
        <5> QED
          BY <5>1, <4>3, <1>1
      <4> HIDE DEF r
      <4>8. Len(a) = k + 2 /\ a[1] = s /\ a[k + 2] = Main
        BY <1>1, <1>2, <1>5
      <4>9. ASSUME NEW i \in 1 .. k PROVE a[i + 1] = r[i]
        <5>1. i \in 1 .. k + 1 /\ i + 1 \in 1 .. Len(u)
          BY <1>1, <1>5
        <5> QED
          BY <5>1, <1>2, <1>5, <4>3, <4>7
      <4>10. r[k + 1] = s /\ k + 1 > 1 /\ Len(r) - 1 = k + 1 /\ Len(r) - 2 = k /\ Len(r) > 1
        BY <4>3, <4>7, <1>1
      <4> QED
        BY <3>1, <4>6, <4>7, <4>8, <4>9, <4>10
    <3>5. CASE y # s /\ y \in Seen(v)
      <4>1. Further(parent, v) = v
        BY <3>5 DEF Further
      <4>2. K = b
        BY <4>1, <2>4 DEF Ended, b
      <4> QED
        BY <3>1, <4>2, <3>7
    <3>6. CASE y = Main
      <4>1. Further(parent, v) = b
        BY <3>1, <3>6, <2>4 DEF Further, b
      <4>2. K = b
        BY <4>1, <1>3 DEF Ended
      <4> QED
        BY <3>1, <4>2, <3>7
    <3> QED
      BY <3>2, <3>4, <3>5, <3>6
  <2> QED
    BY <2>3, <2>4
<1>6. CASE /\ Len(u) = Len(v) /\ Len(v) > 1 /\ v[Len(v)] = s
           /\ \A i \in 1 .. Len(v) - 1 : u[i + 1] = v[i]
           /\ ParentOf(parent, u[Len(u)]) = s /\ u[Len(u)] # Main
  <2>1. Further(parent, v) = v
    BY <1>1, <1>6 DEF Further
  <2>2. Main \notin Seen(u) /\ Main \notin Seen(v)
    <3>1. \A i \in 1 .. Len(u) : u[i] # Main
      BY <1>6, <1>1 DEF Path
    <3>2. \A i \in 1 .. Len(v) : v[i] # Main
      BY <1>6, <1>1 DEF Path
    <3> QED
      BY <3>1, <3>2, <1>1 DEF Seen
  <2>3. L = a /\ K = b
    BY <2>1, <2>2 DEF Ended, a, b
  <2>4. a[1] = s /\ Len(a) = Len(b) /\ Len(b) > 1 /\ Len(b) - 1 = k /\ Len(b) - 2 = k - 1
    BY <1>1, <1>2, <1>3, <1>6
  <2>5. b[k] = s /\ b[k + 1] = Main /\ a[k + 1] = Main
    <3>1. k \in 1 .. k /\ k > 1 /\ v[k] = s /\ Len(u) = k
      BY <1>1, <1>6
    <3>2. b[k] = v[k]
      BY <1>3, <3>1
    <3> QED
      BY <1>2, <1>3, <3>1, <3>2
  <2>6. ASSUME NEW i \in 1 .. k - 1 PROVE a[i + 1] = b[i]
    <3>1. i + 1 \in 1 .. Len(u) /\ i \in 1 .. k
      BY <1>1, <1>6
    <3> QED
      BY <3>1, <1>2, <1>3, <1>6
  <2>7. Len(b) = k + 1
    BY <1>3
  <2> QED
    BY <2>3, <2>4, <2>5, <2>6, <2>7
<1> QED
  BY <1>5, <1>6 DEF Behind

\* The lineages of a branch and of its parent, when the walk is not cut off:
\* the same branches but for the branch itself, in the same order; in a circle of
\* parents the branch is its parent's last ancestor before the main branch.
LEMMA ParentLineage ==
  ASSUME NEW parent \in [Branch -> Branch \cup {Null}], NEW s \in Branch \ {Main},
         NEW t, t = ParentOf(parent, s), t # s,
         NEW L, L = Lineage(parent, s), NEW K, K = Lineage(parent, t),
         \A c \in Seen(L) \ {Main} : ParentOf(parent, c) \in Seen(L)
  PROVE  /\ L[1] = s
         /\ \/ /\ s \notin Seen(K) /\ Len(L) = Len(K) + 1
               /\ \A i \in 1 .. Len(K) : L[i + 1] = K[i]
            \/ /\ Len(L) = Len(K) /\ Len(K) > 1
               /\ K[Len(K) - 1] = s /\ K[Len(K)] = Main /\ L[Len(K)] = Main
               /\ \A i \in 1 .. Len(K) - 2 : L[i + 1] = K[i]
<1> DEFINE ws == Walk(parent, s)
           wt == Walk(parent, t)
<1>1. t \in Branch
  BY ModelAssumption DEF ParentOf
<1>2. ws = [n \in 1 .. MaxLineage |-> IF n = 1 THEN <<s>> ELSE Further(parent, ws[n - 1])]
  BY WalkExists
<1>3. wt = [n \in 1 .. MaxLineage |-> IF n = 1 THEN <<t>> ELSE Further(parent, wt[n - 1])]
  BY WalkExists
<1>4. \A n \in 1 .. MaxLineage : Path(s, ws[n]) /\ Path(t, wt[n])
  BY WalkPath, <1>1
<1>5. L = Ended(ws[MaxLineage]) /\ K = Ended(wt[MaxLineage])
  BY LineageForm
<1> HIDE DEF ws, wt
<1>6. MaxLineage \in Nat \ {0} /\ Main \in Branch
  BY ModelAssumption
<1>7. CASE MaxLineage = 1
  <2>1. ws[1] = <<s>> /\ wt[1] = <<t>>
    BY <1>2, <1>3, <1>7
  <2>2. Seen(<<s>>) = {s} /\ Seen(<<t>>) = {t}
    BY DEF Seen
  <2>3. L = Append(<<s>>, Main)
    BY <1>5, <1>7, <2>1, <2>2 DEF Ended
  <2>6. Len(L) = 2 /\ L[1] = s /\ L[2] = Main /\ Seen(L) = {s, Main}
    <3>1. <<s>> \in Seq(Branch) /\ Len(<<s>>) = 1 /\ <<s>>[1] = s
      OBVIOUS
    <3> QED
      <4>1. Append(<<s>>, Main)[Len(<<s>>) + 1] = Main
            /\ Len(Append(<<s>>, Main)) = Len(<<s>>) + 1
            /\ (\A i \in 1 .. Len(<<s>>) : Append(<<s>>, Main)[i] = <<s>>[i])
            /\ Seen(Append(<<s>>, Main)) = Seen(<<s>>) \cup {Main}
        BY <3>1, <1>6, Appended
      <4> QED
        BY <3>1, <4>1, <2>2, <2>3
  <2>4. t = Main
    BY <2>6
  <2>5. K = <<Main>>
    BY <1>5, <1>7, <2>1, <2>2, <2>4 DEF Ended
  <2> QED
    <3>1. Len(K) = 1 /\ K[1] = Main /\ Seen(K) = {Main}
      BY <2>2, <2>4, <2>5
    <3> QED
      BY <2>6, <3>1
<1>8. CASE MaxLineage # 1
  <2> DEFINE Good(n) == Behind(parent, s, ws[n + 1], wt[n]) /\ wt[n][1] = t
             T == {n \in 1 .. MaxLineage - 1 : ~Good(n)}
  <2>1. Good(1)
    <3>1. ws[1] = <<s>> /\ wt[1] = <<t>> /\ ws[2] = Further(parent, ws[1])
      <4>1. 1 \in 1 .. MaxLineage /\ 2 \in 1 .. MaxLineage /\ 2 - 1 = 1 /\ 2 # 1
        BY <1>6, <1>8
      <4> QED
        BY <1>2, <1>3, <4>1
    <3>2. Further(parent, <<s>>) = Append(<<s>>, t)
      <4>1. <<s>>[Len(<<s>>)] = s /\ Seen(<<s>>) = {s}
        BY DEF Seen
      <4> QED
        BY <4>1 DEF Further
    <3>3. Behind(parent, s, Append(<<s>>, t), <<t>>)
      <4>1. s \notin Seen(<<t>>)
        BY DEF Seen
      <4> DEFINE w == Append(<<s>>, t)
      <4>2. w \in Seq(Branch) /\ Len(w) = 2 /\ w[1] = s /\ w[2] = t
        <5>1. <<s>> \in Seq(Branch) /\ Len(<<s>>) = 1 /\ <<s>>[1] = s
          OBVIOUS
        <5> QED
          BY <5>1, <1>1, Appended
      <4> HIDE DEF w
      <4>3. Len(<<t>>) = 1 /\ <<t>>[1] = t /\ <<t>> \in Seq(Branch)
        BY <1>1
      <4>4. Behind(parent, s, w, <<t>>)
        <5>1. \A i \in 1 .. Len(<<t>>) : w[i + 1] = <<t>>[i]
          BY <4>2, <4>3
        <5>2. Len(w) \in Nat \ {0} /\ Len(<<t>>) \in Nat \ {0} /\ Len(w) = Len(<<t>>) + 1
          BY <4>2, <4>3
        <5> QED
          BY <4>1, <4>2, <4>3, <5>1, <5>2, Zenon DEF Behind
      <4> QED
        BY <4>4 DEF w
    <3>4. Behind(parent, s, ws[2], wt[1])
      BY <3>1, <3>2, <3>3
    <3>5. wt[1][1] = t
      BY <3>1
    <3>6. 1 + 1 = 2
      OBVIOUS
    <3> QED
      BY <3>4, <3>5, <3>6
  <2>2. T = {}
    <3>1. SUFFICES ASSUME T # {} PROVE FALSE
      OBVIOUS
    <3>2. T \subseteq Nat
      OBVIOUS
    <3>3. PICK k \in T : \A j \in T : k <= j
      BY <3>1, <3>2, LeastNatural
    <3>4. k \in 1 .. MaxLineage - 1 /\ ~Good(k) /\ k # 1
      BY <2>1, <3>3
    <3>5. k - 1 \in 1 .. MaxLineage - 1 /\ ~(k <= k - 1)
      BY <3>4, <1>6
    <3>6. Good(k - 1)
      BY <3>3, <3>5
    <3>7. ws[k + 1] = Further(parent, ws[k]) /\ wt[k] = Further(parent, wt[k - 1])
      <4>1. k + 1 \in 1 .. MaxLineage /\ k \in 1 .. MaxLineage /\ k + 1 # 1 /\ (k + 1) - 1 = k
        BY <3>4, <1>6
      <4>2. ws[k + 1] = Further(parent, ws[(k + 1) - 1])
        BY <1>2, <4>1, Zenon
      <4>3. wt[k] = Further(parent, wt[k - 1])
        BY <1>3, <3>4, <4>1, Zenon
      <4> QED
        BY <4>1, <4>2, <4>3
    <3>8. Behind(parent, s, ws[k], wt[k - 1]) /\ wt[k - 1][1] = t
      <4>1. (k - 1) + 1 = k
        BY <3>4
      <4> QED
        BY <3>6, <4>1
    <3>9. Behind(parent, s, ws[k + 1], wt[k]) /\ wt[k][1] = t
      BY <3>7, <3>8, BehindNext
    <3> QED
      BY <3>4, <3>9
  <2> DEFINE u == ws[MaxLineage]
             v == wt[MaxLineage - 1]
  <2>3. Behind(parent, s, u, v) /\ v[1] = t /\ Path(s, u) /\ Path(t, v)
    <3>1. MaxLineage - 1 \in 1 .. MaxLineage - 1 /\ (MaxLineage - 1) + 1 = MaxLineage
          /\ MaxLineage - 1 \in 1 .. MaxLineage /\ MaxLineage \in 1 .. MaxLineage
      BY <1>6, <1>8
    <3>2. Good(MaxLineage - 1)
      BY <2>2, <3>1
    <3> QED
      BY <1>4, <3>1, <3>2
  <2>4. L = Ended(u) /\ K = Ended(Further(parent, v))
    <3>1. MaxLineage \in 1 .. MaxLineage
      BY <1>6
    <3>2. wt[MaxLineage] = Further(parent, v)
      BY <1>3, <1>8, <3>1, Zenon
    <3> QED
      BY <1>5, <3>2
  <2> HIDE DEF u, v, Good, T
  <2> QED
    BY <2>3, <2>4, <1>1, EndedBehind
<1> QED
  BY <1>7, <1>8

\* FirstBranch: the least position of a lineage that holds one of the branches.
LEMMA FirstOf ==
  ASSUME NEW w, w \in Seq(Branch), NEW B
  PROVE  \/ FirstBranch(w, B) = Null /\ \A i \in DOMAIN w : w[i] \notin B
         \/ \E i \in DOMAIN w : /\ w[i] \in B /\ FirstBranch(w, B) = w[i] /\ w[i] # Null
                                /\ w[i] \in Branch
                                /\ \A j \in DOMAIN w : w[j] \in B => i <= j
<1> DEFINE hits == {i \in DOMAIN w : w[i] \in B}
<1>1. CASE hits = {}
  BY <1>1 DEF FirstBranch
<1>2. CASE hits # {}
  <2>1. hits \subseteq Nat
    OBVIOUS
  <2>2. PICK i \in hits : \A j \in hits : i <= j
    BY <1>2, <2>1, LeastNatural
  <2>3. \A k \in hits : (\A j \in hits : k <= j) => k = i
    BY <2>1, <2>2
  <2>4. (CHOOSE k \in hits : \A j \in hits : k <= j) = i
    BY <2>2, <2>3
  <2>5. FirstBranch(w, B) = w[i]
    BY <1>2, <2>4 DEF FirstBranch
  <2>6. w[i] \in Branch
    OBVIOUS
  <2> QED
    BY <2>2, <2>5, <2>6, ModelAssumption
<1> QED
  BY <1>1, <1>2

\* FirstOf in terms of positions, and how the first position is known.
LEMMA FirstAt ==
  ASSUME NEW w, w \in Seq(Branch), NEW B
  PROVE  /\ \/ FirstBranch(w, B) = Null /\ \A i \in 1 .. Len(w) : w[i] \notin B
            \/ \E i \in 1 .. Len(w) : /\ w[i] \in B /\ FirstBranch(w, B) = w[i]
                                      /\ \A j \in 1 .. Len(w) : w[j] \in B => i <= j
         /\ \A i \in 1 .. Len(w) :
              w[i] \in B /\ (\A j \in 1 .. Len(w) : j < i => w[j] \notin B)
                => FirstBranch(w, B) = w[i]
         /\ (\A i \in 1 .. Len(w) : w[i] \notin B) => FirstBranch(w, B) = Null
<1>1. DOMAIN w = 1 .. Len(w) /\ Len(w) \in Nat
  OBVIOUS
<1>2. \/ FirstBranch(w, B) = Null /\ \A i \in 1 .. Len(w) : w[i] \notin B
      \/ \E i \in 1 .. Len(w) : /\ w[i] \in B /\ FirstBranch(w, B) = w[i]
                                /\ \A j \in 1 .. Len(w) : w[j] \in B => i <= j
  BY <1>1, FirstOf, Zenon
<1>3. ASSUME NEW i \in 1 .. Len(w), w[i] \in B,
             \A j \in 1 .. Len(w) : j < i => w[j] \notin B
      PROVE  FirstBranch(w, B) = w[i]
  <2>1. PICK k \in 1 .. Len(w) : /\ w[k] \in B /\ FirstBranch(w, B) = w[k]
                                 /\ \A j \in 1 .. Len(w) : w[j] \in B => k <= j
    BY <1>2, <1>3
  <2>2. k = i
    BY <1>1, <1>3, <2>1
  <2> QED
    BY <2>1, <2>2
<1> QED
  BY <1>2, <1>3

\* A branch without a row and its parent inherit the row from the same branch.
LEMMA ParentInherits ==
  ASSUME NEW s \in Branch, NEW L, NEW K, L \in Seq(Branch), K \in Seq(Branch),
         Len(L) \in Nat \ {0}, Len(K) \in Nat \ {0},
         NEW B, s \notin B, L[1] = s,
         \/ /\ Len(L) = Len(K) + 1
            /\ \A i \in 1 .. Len(K) : L[i + 1] = K[i]
         \/ /\ Len(L) = Len(K) /\ Len(K) > 1
            /\ K[Len(K) - 1] = s /\ K[Len(K)] = Main /\ L[Len(K)] = Main
            /\ \A i \in 1 .. Len(K) - 2 : L[i + 1] = K[i]
  PROVE  FirstBranch(L, B) = FirstBranch(K, B)
<1>1. Len(L) \in Nat \ {0} /\ Len(K) \in Nat \ {0} /\ L \in Seq(Branch) /\ K \in Seq(Branch)
  OBVIOUS
<1>2. CASE \E i \in 1 .. Len(L) : L[i] \in B
  <2>1. PICK i \in 1 .. Len(L) : /\ L[i] \in B /\ FirstBranch(L, B) = L[i]
                              /\ \A j \in 1 .. Len(L) : L[j] \in B => i <= j
    BY <1>2, FirstAt, <1>1
  <2>2. i \in Nat /\ i > 1
    BY <2>1, <1>1
  <2>3. CASE Len(L) = Len(K) + 1 /\ \A j \in 1 .. Len(K) : L[j + 1] = K[j]
    <3>1. i - 1 \in 1 .. Len(K) /\ (i - 1) + 1 = i
      BY <2>2, <2>3, <1>1
    <3>2. K[i - 1] = L[i]
      <4>1. L[(i - 1) + 1] = K[i - 1]
        BY <2>3, <3>1, <1>1
      <4> QED
        BY <3>1, <4>1
    <3>3. ASSUME NEW j \in 1 .. Len(K), j < i - 1 PROVE K[j] \notin B
      <4>1. j + 1 \in 1 .. Len(L) /\ j \in 1 .. Len(K) /\ ~(i <= j + 1)
        BY <2>2, <2>3, <3>3, <1>1
      <4>2. L[j + 1] = K[j]
        BY <2>3, <4>1
      <4> QED
        BY <2>1, <4>1, <4>2
    <3>4. FirstBranch(K, B) = K[i - 1]
      BY <2>1, <3>1, <3>2, <3>3, FirstAt, <1>1
    <3> QED
      BY <2>1, <3>2, <3>4
  <2>4. CASE /\ Len(L) = Len(K) /\ Len(K) > 1
             /\ K[Len(K) - 1] = s /\ K[Len(K)] = Main /\ L[Len(K)] = Main
             /\ \A j \in 1 .. Len(K) - 2 : L[j + 1] = K[j]
    <3>1. ASSUME NEW j \in 1 .. Len(K), j + 1 < i PROVE K[j] \notin B
      <4>1. j + 1 \in 1 .. Len(L) /\ j \in 1 .. Len(K) - 2 /\ ~(i <= j + 1)
        BY <2>1, <2>2, <2>4, <3>1, <1>1
      <4>2. L[j + 1] = K[j]
        BY <2>4, <4>1
      <4> QED
        BY <2>1, <4>1, <4>2
    <3>2. CASE i = Len(K)
      <4>1. ASSUME NEW j \in 1 .. Len(K), j < i PROVE K[j] \notin B
        <5>1. CASE j = Len(K) - 1
          BY <5>1, <2>4
        <5>2. CASE j # Len(K) - 1
          <6>1. j + 1 < i
            BY <5>2, <4>1, <3>2, <2>4, <1>1
          <6> QED
            BY <6>1, <3>1
        <5> QED
          BY <5>1, <5>2
      <4>2. K[i] = L[i] /\ i \in 1 .. Len(K)
        BY <3>2, <2>4, <1>1
      <4>3. FirstBranch(K, B) = K[i]
        BY <2>1, <4>1, <4>2, FirstAt, <1>1
      <4> QED
        BY <2>1, <4>2, <4>3
    <3>3. CASE i # Len(K)
      <4>1. i - 1 \in 1 .. Len(K) /\ i - 1 \in 1 .. Len(K) - 2 /\ (i - 1) + 1 = i
        BY <3>3, <2>2, <2>4, <1>1
      <4>2. K[i - 1] = L[i]
        <5>1. L[(i - 1) + 1] = K[i - 1]
          BY <2>4, <4>1
        <5> QED
          BY <4>1, <5>1
      <4>3. ASSUME NEW j \in 1 .. Len(K), j < i - 1 PROVE K[j] \notin B
        <5>1. j + 1 < i
          BY <4>3, <2>2, <1>1
        <5> QED
          BY <5>1, <3>1
      <4>4. FirstBranch(K, B) = K[i - 1]
        <5>1. i - 1 \in 1 .. Len(K) /\ K[i - 1] \in B
          BY <2>1, <4>1, <4>2
        <5>2. K \in Seq(Branch)
          BY <1>1
        <5> QED
          BY <5>1, <5>2, <4>3, FirstAt
      <4> QED
        BY <2>1, <4>2, <4>4
    <3> QED
      BY <3>2, <3>3
  <2> QED
    BY <2>3, <2>4
<1>3. CASE \A i \in 1 .. Len(L) : L[i] \notin B
  <2>1. ASSUME NEW i \in 1 .. Len(K) PROVE K[i] \notin B
    <3>1. CASE Len(L) = Len(K) + 1 /\ \A j \in 1 .. Len(K) : L[j + 1] = K[j]
      <4>1. i + 1 \in 1 .. Len(L) /\ L[i + 1] = K[i]
        BY <3>1, <1>1
      <4> QED
        BY <4>1, <1>3
    <3>2. CASE /\ Len(L) = Len(K) /\ Len(K) > 1
               /\ K[Len(K) - 1] = s /\ K[Len(K)] = Main /\ L[Len(K)] = Main
               /\ \A j \in 1 .. Len(K) - 2 : L[j + 1] = K[j]
      <4>1. CASE i = Len(K) - 1
        BY <4>1, <3>2
      <4>2. CASE i = Len(K)
        <5>1. i \in 1 .. Len(L) /\ L[i] = K[i]
          BY <4>2, <3>2, <1>1
        <5> QED
          BY <5>1, <1>3
      <4>3. CASE i # Len(K) - 1 /\ i # Len(K)
        <5>1. i \in 1 .. Len(K) - 2 /\ i + 1 \in 1 .. Len(L)
          BY <4>3, <3>2, <1>1
        <5>2. L[i + 1] = K[i]
          BY <5>1, <3>2
        <5> QED
          BY <5>1, <5>2, <1>3
      <4> QED
        BY <4>1, <4>2, <4>3
    <3> QED
      BY <3>1, <3>2
  <2> QED
    BY <2>1, <1>3, FirstAt, <1>1
<1> QED
  BY <1>2, <1>3

\* A branch and its parent have the same view of a memory when the parent has
\* the branch's tombstone, where there is one, and else the branch's row.
LEMMA SameViews ==
  ASSUME NEW parent \in [Branch -> Branch \cup {Null}], NEW s \in Branch \ {Main},
         NEW t, t = ParentOf(parent, s), t # s,
         \A c \in Seen(Lineage(parent, s)) \ {Main} :
           ParentOf(parent, c) \in Seen(Lineage(parent, s)),
         NEW rows \in [Branch -> [Memory -> Row]], NEW tombs, NEW m \in Memory,
         Present(rows[s][m]) /\ m \notin tombs[s] => rows[t][m].version = rows[s][m].version,
         m \in tombs[s] => ~Present(rows[t][m]) /\ (t = Main \/ m \in tombs[t])
  PROVE  View(parent, rows, tombs, t, m) = View(parent, rows, tombs, s, m)
<1> DEFINE L == Lineage(parent, s)
           K == Lineage(parent, t)
           H == Holders(rows, m)
<1>1. t \in Branch
  BY ModelAssumption DEF ParentOf
<1>2. /\ L[1] = s
      /\ \/ /\ s \notin Seen(K) /\ Len(L) = Len(K) + 1
            /\ \A i \in 1 .. Len(K) : L[i + 1] = K[i]
         \/ /\ Len(L) = Len(K) /\ Len(K) > 1
            /\ K[Len(K) - 1] = s /\ K[Len(K)] = Main /\ L[Len(K)] = Main
            /\ \A i \in 1 .. Len(K) - 2 : L[i + 1] = K[i]
  BY ParentLineage
<1>3. Path(s, L) /\ Path(t, K)
  BY LineagePath, <1>1
<1> HIDE DEF L, K, H
<1>4. L \in Seq(Branch) /\ K \in Seq(Branch) /\ Len(L) \in Nat \ {0} /\ Len(K) \in Nat \ {0}
      /\ DOMAIN L = 1 .. Len(L) /\ DOMAIN K = 1 .. Len(K) /\ K[1] = t
  BY <1>3 DEF Path
<1>10. L[1] = s
  BY <1>2, Zenon
<1>11. Len(L) \in Nat \ {0} /\ Len(K) \in Nat \ {0}
  BY <1>4
<1>5. Seen(L) = {s} \cup Seen(K)
  <2>1. s \in Seen(L)
    <3>1. 1 \in DOMAIN L
      BY <1>4
    <3> QED
      BY <1>10, <3>1 DEF Seen
  <2>2. CASE Len(L) = Len(K) + 1 /\ \A i \in 1 .. Len(K) : L[i + 1] = K[i]
    <3>1. ASSUME NEW i \in 1 .. Len(L) PROVE L[i] \in {s} \cup Seen(K)
      <4>1. CASE i = 1
        BY <4>1, <1>2
      <4>2. CASE i # 1
        <5>1. i - 1 \in 1 .. Len(K) /\ (i - 1) + 1 = i
          BY <1>4, <2>2, <4>2
        <5>2. L[(i - 1) + 1] = K[i - 1]
          BY <2>2, <5>1
        <5> QED
          BY <5>1, <5>2, <1>4 DEF Seen
      <4> QED
        BY <4>1, <4>2
    <3>2. ASSUME NEW i \in 1 .. Len(K) PROVE K[i] \in Seen(L)
      <4>1. i + 1 \in DOMAIN L /\ L[i + 1] = K[i]
        BY <1>4, <2>2
      <4> QED
        BY <4>1 DEF Seen
    <3> QED
      BY <2>1, <3>1, <3>2, <1>4 DEF Seen
  <2>3. CASE /\ Len(L) = Len(K) /\ Len(K) > 1
             /\ K[Len(K) - 1] = s /\ K[Len(K)] = Main /\ L[Len(K)] = Main
             /\ \A i \in 1 .. Len(K) - 2 : L[i + 1] = K[i]
    <3>1. ASSUME NEW i \in 1 .. Len(L) PROVE L[i] \in {s} \cup Seen(K)
      <4>1. CASE i = 1
        BY <4>1, <1>2
      <4>2. CASE i = Len(L)
        BY <4>2, <2>3, <1>4 DEF Seen
      <4>3. CASE i # 1 /\ i # Len(L)
        <5>1. i - 1 \in 1 .. Len(K) - 2 /\ (i - 1) + 1 = i /\ i - 1 \in 1 .. Len(K)
          <6>1. Len(L) = Len(K)
            BY <2>3
          <6> QED
            BY <1>11, <4>3, <6>1
        <5>2. L[(i - 1) + 1] = K[i - 1]
          BY <2>3, <5>1
        <5> QED
          BY <5>1, <5>2, <1>4 DEF Seen
      <4> QED
        BY <4>1, <4>2, <4>3
    <3>2. ASSUME NEW i \in 1 .. Len(K) PROVE K[i] \in Seen(L)
      <4>1. CASE i = Len(K) - 1
        BY <4>1, <2>1, <2>3
      <4>2. CASE i = Len(K)
        BY <4>2, <2>3, <1>4 DEF Seen
      <4>3. CASE i # Len(K) - 1 /\ i # Len(K)
        <5>1. i \in 1 .. Len(K) - 2 /\ i + 1 \in 1 .. Len(L)
          <6>1. Len(L) = Len(K)
            BY <2>3
          <6> QED
            BY <1>11, <4>3, <6>1
        <5>2. L[i + 1] = K[i]
          BY <2>3, <5>1
        <5> QED
          BY <5>1, <5>2, <1>4 DEF Seen
      <4> QED
        BY <4>1, <4>2, <4>3
    <3> QED
      BY <2>1, <3>1, <3>2, <1>4 DEF Seen
  <2> QED
    BY <1>2, <2>2, <2>3
<1>6. t \in Seen(K)
  BY <1>4 DEF Seen
<1> DEFINE view(w) == IF (\E c \in Seen(w) : m \in tombs[c]) \/ FirstBranch(w, H) = Null
                      THEN Null ELSE rows[FirstBranch(w, H)][m].version
<1>7. View(parent, rows, tombs, t, m) = view(K) /\ View(parent, rows, tombs, s, m) = view(L)
  BY Zenon DEF View, K, L, H
<1>8. CASE m \in tombs[s]
  <2>1. view(L) = Null
    BY <1>5, <1>8
  <2>2. CASE m \in tombs[t]
    <3>1. view(K) = Null
      BY <1>6, <2>2
    <3> QED
      BY <1>7, <2>1, <3>1
  <2>3. CASE t = Main
    <3>1. Len(K) = 1
      BY <2>3, <1>3, <1>4 DEF Path
    <3>2. \A i \in 1 .. Len(K) : K[i] \notin H
      BY <3>1, <1>4, <1>8 DEF H, Holders
    <3>3. FirstBranch(K, H) = Null
      BY <3>2, <1>4, FirstAt
    <3> QED
      BY <1>7, <2>1, <3>3
  <2> QED
    BY <1>8, <2>2, <2>3
<1>9. CASE m \notin tombs[s]
  <2>1. (\E c \in Seen(L) : m \in tombs[c]) <=> (\E c \in Seen(K) : m \in tombs[c])
    BY <1>5, <1>9
  <2>2. CASE Present(rows[s][m])
    <3>1. s \in H /\ t \in H
      BY <1>1, <1>9, <2>2 DEF H, Holders, Present
    <3>2. FirstBranch(L, H) = s
      <4>1. 1 \in 1 .. Len(L) /\ L[1] \in H /\ \A j \in 1 .. Len(L) : ~(j < 1)
        BY <1>10, <1>11, <3>1
      <4>2. FirstBranch(L, H) = L[1]
        BY <1>4, <4>1, FirstAt
      <4> QED
        BY <1>2, <4>2
    <3>3. FirstBranch(K, H) = t
      <4>1. 1 \in 1 .. Len(K) /\ K[1] \in H /\ \A j \in 1 .. Len(K) : ~(j < 1)
        BY <1>4, <3>1
      <4>2. FirstBranch(K, H) = K[1]
        BY <1>4, <4>1, FirstAt
      <4> QED
        BY <1>4, <4>2
    <3>4. s # Null /\ t # Null
      BY <1>1, ModelAssumption
    <3>5. rows[t][m].version = rows[s][m].version
      BY <1>9, <2>2, Zenon
    <3> QED
      BY <1>7, <2>1, <3>2, <3>3, <3>4, <3>5
  <2>3. CASE ~Present(rows[s][m])
    <3>1. s \notin H
      BY <2>3 DEF H, Holders
    <3>2. FirstBranch(L, H) = FirstBranch(K, H)
      <4>1. \/ /\ Len(L) = Len(K) + 1
               /\ \A i \in 1 .. Len(K) : L[i + 1] = K[i]
            \/ /\ Len(L) = Len(K) /\ Len(K) > 1
               /\ K[Len(K) - 1] = s /\ K[Len(K)] = Main /\ L[Len(K)] = Main
               /\ \A i \in 1 .. Len(K) - 2 : L[i + 1] = K[i]
        BY <1>2, Zenon
      <4>2. L \in Seq(Branch) /\ K \in Seq(Branch) /\ s \in Branch
        BY <1>4
      <4> QED
        BY <4>1, <4>2, <1>10, <1>11, <3>1, ParentInherits
    <3> QED
      BY <1>7, <2>1, <3>2
  <2> QED
    BY <2>2, <2>3
<1> QED
  BY <1>8, <1>9

-----------------------------------------------------------------------------
(***************************************************************************)
(* Reading the past.                                                       *)
(***************************************************************************)

\* At no instant are two snapshots of a timeline valid.
Single(line) == \A t \in Nat : \A r, s \in Valid(line, t) : r = s

\* A write at t concerns a timeline that is past by then.
Past(line, t) == \A r \in line : r.from <= t /\ r.until <= t

\* Two timelines give the same answer about instant t.
SameAt(l, k, t) ==
  /\ Valid(l, t) = {} <=> Valid(k, t) = {}
  /\ \A r \in Valid(l, t), s \in Valid(k, t) : r.version = s.version

\* A write at t of either kind leaves the past before t as it was: what was valid
\* then still is, but for its end.
LEMMA WritePast ==
  ASSUME NEW line \in SUBSET Snapshot, NEW t \in Nat,
         NEW op \in {"upsert", "delete"}, NEW v \in Version \cup {Null},
         Past(line, t), Single(line)
  PROVE  /\ Single(Written(line, op, v, t))
         /\ Past(Written(line, op, v, t), t)
         /\ \A u \in Nat : u < t => SameAt(line, Written(line, op, v, t), u)
<1> DEFINE new == Written(line, op, v, t)
           f == Fresh(op, v, t)
<1>1. f.from = t /\ f.until = Open
  BY DEF Fresh
<1>2. \A s \in new : s = f \/ \E r \in line : s = Closed(r, t)
  BY WriteOld
<1>3. f \in new
  BY DEF Written, Insert
<1>4. \A r \in line : /\ r.from \in Nat /\ r.from <= t /\ r.until <= t /\ r.until \in Nat \cup {Open}
                      /\ Closed(r, t).from = r.from
                      /\ Closed(r, t).until = IF r.until = Open THEN t ELSE r.until
  BY ClosedType DEF Past, Snapshot
<1>5. \A r \in line : r.from # t => Closed(r, t) \in new
  BY WriteKeeps
<1> HIDE DEF new, f
<1>6. ASSUME NEW u \in Nat, u < t
      PROVE  Valid(new, u) = {Closed(r, t) : r \in Valid(line, u)}
  <2>1. ASSUME NEW s \in Valid(new, u) PROVE \E r \in Valid(line, u) : s = Closed(r, t)
    <3>1. s \in new /\ s.from <= u /\ (s.until = Open \/ s.until > u)
      BY DEF Valid
    <3>2. s # f
      BY <1>1, <1>6, <3>1
    <3>3. PICK r \in line : s = Closed(r, t)
      BY <1>2, <3>1, <3>2
    <3>4. r.from <= u /\ (r.until = Open \/ r.until > u)
      BY <1>4, <1>6, <3>1, <3>3 DEF Open
    <3> QED
      BY <3>3, <3>4 DEF Valid
  <2>2. ASSUME NEW r \in Valid(line, u) PROVE Closed(r, t) \in Valid(new, u)
    <3>1. r \in line /\ r.from <= u /\ (r.until = Open \/ r.until > u)
      BY DEF Valid
    <3>2. Closed(r, t) \in new
      BY <1>4, <1>5, <1>6, <3>1
    <3>3. Closed(r, t).from <= u /\ Closed(r, t).until > u
      BY <1>4, <1>6, <3>1
    <3> QED
      BY <3>2, <3>3 DEF Valid
  <2> QED
    BY <2>1, <2>2
<1>7. ASSUME NEW u \in Nat, t <= u
      PROVE  \A s : s \in Valid(new, u) <=> s = f
  <2>1. ASSUME NEW s \in Valid(new, u) PROVE s = f
    <3>1. s \in new /\ (s.until = Open \/ s.until > u)
      BY DEF Valid
    <3>2. \A r \in line : Closed(r, t).until # Open /\ ~(Closed(r, t).until > u)
      BY <1>4, <1>7 DEF Open
    <3> QED
      BY <1>2, <3>1, <3>2
  <2>2. f \in Valid(new, u)
    BY <1>1, <1>3, <1>7 DEF Valid
  <2> QED
    BY <2>1, <2>2
<1>8. Past(new, t)
  BY <1>1, <1>2, <1>4 DEF Past, Open
<1>9. \A u \in Nat : \A r \in Valid(line, u) : Closed(r, t).version = r.version
  BY ClosedType DEF Valid
<1>10. ASSUME NEW u \in Nat PROVE \A r, s \in Valid(new, u) : r = s
  <2>1. CASE u < t
    BY <1>6, <2>1 DEF Single
  <2>2. CASE t <= u
    BY <1>7, <2>2
  <2> QED
    BY <2>1, <2>2
<1>11. ASSUME NEW u \in Nat, u < t PROVE SameAt(line, new, u)
  <2>1. Valid(new, u) = {Closed(r, t) : r \in Valid(line, u)}
    BY <1>6, <1>11
  <2>2. \A r, s \in Valid(line, u) : r = s
    BY DEF Single
  <2> QED
    BY <1>9, <2>1, <2>2 DEF SameAt
<1> QED
  BY <1>8, <1>10, <1>11 DEF Single, new

\* The first half of a write, where a crash may fall: nothing is open any more,
\* and the past of the instant stays the past.
LEMMA CloseLine ==
  ASSUME NEW line \in SUBSET Snapshot, NEW t \in Nat
  PROVE  /\ Close(line, t) \in SUBSET Snapshot
         /\ \A s \in Close(line, t) : s.until # Open /\ \E r \in line : s = Closed(r, t)
         /\ OpenUpserts(Close(line, t)) = {}
         /\ \A n \in Nat : t <= n /\ Past(line, n) => Past(Close(line, t), n)
<1>1. \A s \in Close(line, t) : \E r \in line : s = Closed(r, t)
  BY DEF Close, Closed
<1>2. \A r \in line : /\ Closed(r, t) \in Snapshot /\ Closed(r, t).until # Open
                      /\ Closed(r, t).from = r.from
                      /\ Closed(r, t).until = IF r.until = Open THEN t ELSE r.until
  BY ClosedType DEF Open
<1>3. \A s \in Close(line, t) : s \in Snapshot /\ s.until # Open
  BY <1>1, <1>2
<1>4. OpenUpserts(Close(line, t)) = {}
  BY <1>3 DEF OpenUpserts
<1>5. ASSUME NEW n \in Nat, t <= n, Past(line, n) PROVE Past(Close(line, t), n)
  BY <1>1, <1>2, <1>5 DEF Past
<1> QED
  BY <1>1, <1>3, <1>4, <1>5

\* Of a past timeline it changes no answer about an instant before.
LEMMA ClosePast ==
  ASSUME NEW line \in SUBSET Snapshot, NEW t \in Nat, Past(line, t), Single(line)
  PROVE  /\ Single(Close(line, t))
         /\ \A u \in Nat : u < t => SameAt(line, Close(line, t), u)
<1> DEFINE new == Close(line, t)
<1>1. \A s : s \in new <=> \E r \in line : s = Closed(r, t)
  BY DEF Close, Closed
<1>2. \A r \in line : /\ r.from \in Nat /\ r.from <= t /\ r.until <= t /\ r.until \in Nat \cup {Open}
                      /\ Closed(r, t).from = r.from /\ Closed(r, t).version = r.version
                      /\ Closed(r, t).until = IF r.until = Open THEN t ELSE r.until
  BY ClosedType DEF Past, Snapshot
<1> HIDE DEF new
<1>3. ASSUME NEW u \in Nat, u < t
      PROVE  Valid(new, u) = {Closed(r, t) : r \in Valid(line, u)}
  <2>1. ASSUME NEW s \in Valid(new, u) PROVE \E r \in Valid(line, u) : s = Closed(r, t)
    <3>1. s \in new /\ s.from <= u /\ (s.until = Open \/ s.until > u)
      BY DEF Valid
    <3>2. PICK r \in line : s = Closed(r, t)
      BY <1>1, <3>1
    <3>3. r.from <= u /\ (r.until = Open \/ r.until > u)
      BY <1>2, <1>3, <3>1, <3>2 DEF Open
    <3> QED
      BY <3>2, <3>3 DEF Valid
  <2>2. ASSUME NEW r \in Valid(line, u) PROVE Closed(r, t) \in Valid(new, u)
    <3>1. r \in line /\ r.from <= u /\ (r.until = Open \/ r.until > u)
      BY DEF Valid
    <3>2. Closed(r, t).from <= u /\ Closed(r, t).until > u
      BY <1>2, <1>3, <3>1
    <3> QED
      BY <1>1, <3>1, <3>2 DEF Valid
  <2> QED
    BY <2>1, <2>2
<1>4. ASSUME NEW u \in Nat, t <= u PROVE Valid(new, u) = {}
  BY <1>1, <1>2, <1>4 DEF Valid, Open
<1>5. Single(new)
  BY <1>3, <1>4 DEF Single
<1>6. ASSUME NEW u \in Nat, u < t PROVE SameAt(line, new, u)
  <2>1. Valid(new, u) = {Closed(r, t) : r \in Valid(line, u)} /\ Valid(line, u) \subseteq line
    BY <1>3, <1>6 DEF Valid
  <2>2. \A r, s \in Valid(line, u) : r = s
    BY DEF Single
  <2> QED
    BY <1>2, <2>1, <2>2 DEF SameAt
<1> QED
  BY <1>5, <1>6 DEF new

\* Of one valid snapshot the latest is that one.
LEMMA LatestOfOne ==
  ASSUME NEW V \in SUBSET Snapshot, \A r, s \in V : r = s, NEW x \in V
  PROVE  (CHOOSE s \in V : \A r \in V : r.from <= s.from) = x
<1>1. x.from <= x.from
  BY DEF Snapshot
<1> QED
  BY <1>1

\* The timelines of a memory with their baselines, by branch, and the first
\* branch of b's lineage with a snapshot that is valid at t.
Lines(rows, snaps, m) == [c \in Branch |-> Baseline(snaps[c][m], rows[c][m])]

OwnerAt(parent, line, b, t) ==
  FirstBranch(Lineage(parent, b), {c \in Branch : Valid(line[c], t) # {}})

\* No two snapshots of any of a memory's timelines are valid at t.
Readable(line, t) ==
  \A c \in Branch : line[c] \in SUBSET Snapshot /\ \A r, s \in Valid(line[c], t) : r = s

\* What AsOf says, when no two snapshots are valid at once: the version of the
\* snapshot valid at t of that branch.
LEMMA AsOfIs ==
  ASSUME NEW parent \in [Branch -> Branch \cup {Null}], NEW rows, NEW snaps,
         NEW b \in Branch, NEW m, NEW t \in Nat,
         Readable(Lines(rows, snaps, m), t)
  PROVE  LET line == Lines(rows, snaps, m)
             owner == OwnerAt(parent, line, b, t)
         IN  /\ owner = Null => AsOf(parent, rows, snaps, b, m, t) = Null
             /\ owner # Null =>
                  /\ owner \in Branch
                  /\ \E s \in Valid(line[owner], t) :
                       AsOf(parent, rows, snaps, b, m, t) = s.version
<1> DEFINE line == Lines(rows, snaps, m)
           owner == OwnerAt(parent, line, b, t)
<1> DEFINE valid(c) == Valid(Baseline(snaps[c][m], rows[c][m]), t)
           B == {c \in Branch : valid(c) # {}}
           latest == CHOOSE s \in valid(owner) : \A r \in valid(owner) : r.from <= s.from
<1>1. \A c \in Branch : Valid(line[c], t) = valid(c)
  BY DEF Lines
<1>2. owner = FirstBranch(Lineage(parent, b), B)
  BY <1>1 DEF OwnerAt
<1>a. \A c \in Branch : /\ line[c] \in SUBSET Snapshot
                         /\ \A r, s \in Valid(line[c], t) : r = s
  BY DEF Readable
<1> HIDE DEF line, owner
<1>3. AsOf(parent, rows, snaps, b, m, t) = IF owner = Null THEN Null ELSE latest.version
  <2> DEFINE o == FirstBranch(Lineage(parent, b), B)
  <2>1. AsOf(parent, rows, snaps, b, m, t)
          = IF o = Null THEN Null
            ELSE (CHOOSE s \in valid(o) : \A r \in valid(o) : r.from <= s.from).version
    BY Zenon DEF AsOf
  <2> HIDE DEF o
  <2>2. owner = o
    BY <1>2 DEF o
  <2> QED
    BY <2>1, <2>2
<1>4. Lineage(parent, b) \in Seq(Branch)
  BY LineagePath DEF Path
<1>5. owner # Null => owner \in B
  <2> HIDE DEF B
  <2> QED
    BY <1>2, <1>4, FirstOf
<1>6. ASSUME owner # Null
      PROVE  owner \in Branch /\ \E s \in valid(owner) : latest = s
  <2>1. owner \in Branch /\ valid(owner) # {}
    BY <1>5, <1>6
  <2>2. PICK x : x \in valid(owner)
    BY <2>1
  <2>3. valid(owner) \in SUBSET Snapshot /\ \A r, s \in valid(owner) : r = s
    <3>1. valid(owner) = Valid(line[owner], t)
      BY <1>1, <2>1
    <3>2. line[owner] \in SUBSET Snapshot /\ \A r, s \in Valid(line[owner], t) : r = s
      BY <1>a, <2>1
    <3> HIDE DEF valid
    <3>4. Valid(line[owner], t) \in SUBSET Snapshot
      BY <3>2 DEF Valid
    <3> QED
      BY <3>1, <3>2, <3>4
  <2>4. latest = x
    <3> HIDE DEF valid
    <3> QED
      BY <2>2, <2>3, LatestOfOne
  <2> QED
    BY <2>1, <2>2, <2>4
<1> HIDE DEF valid, latest
<1>7. /\ owner = Null => AsOf(parent, rows, snaps, b, m, t) = Null
      /\ owner # Null =>
           /\ owner \in Branch
           /\ \E s \in Valid(line[owner], t) : AsOf(parent, rows, snaps, b, m, t) = s.version
  BY <1>1, <1>3, <1>6
<1> QED
  BY <1>7 DEF line, owner

\* Two states whose timelines of memory m, with their baselines, give the same
\* answer about t, branch by branch.
SameLines(rows, snaps, rows2, snaps2, m, t) ==
  \A c \in Branch :
    /\ Baseline(snaps[c][m], rows[c][m]) \in SUBSET Snapshot
    /\ Baseline(snaps2[c][m], rows2[c][m]) \in SUBSET Snapshot
    /\ Single(Baseline(snaps[c][m], rows[c][m]))
    /\ Single(Baseline(snaps2[c][m], rows2[c][m]))
    /\ SameAt(Baseline(snaps[c][m], rows[c][m]), Baseline(snaps2[c][m], rows2[c][m]), t)

\* They give it through every lineage that has not changed.
LEMMA SameAnswer ==
  ASSUME NEW p \in [Branch -> Branch \cup {Null}], NEW q \in [Branch -> Branch \cup {Null}],
         NEW rows, NEW rows2, NEW snaps, NEW snaps2, NEW b \in Branch, NEW m, NEW t \in Nat,
         Lineage(q, b) = Lineage(p, b),
         SameLines(rows, snaps, rows2, snaps2, m, t)
  PROVE  AsOf(q, rows2, snaps2, b, m, t) = AsOf(p, rows, snaps, b, m, t)
<1> DEFINE line == Lines(rows, snaps, m)
           line2 == Lines(rows2, snaps2, m)
           owner == OwnerAt(p, line, b, t)
           owner2 == OwnerAt(q, line2, b, t)
<1>1. \A c \in Branch : /\ line[c] \in SUBSET Snapshot /\ Single(line[c])
                        /\ line2[c] \in SUBSET Snapshot /\ Single(line2[c])
                        /\ SameAt(line[c], line2[c], t)
  BY DEF Lines, SameLines
<1>a. Readable(line, t) /\ Readable(line2, t)
  <2> HIDE DEF line, line2
  <2> QED
    BY <1>1 DEF Single, Readable
<1>2. {c \in Branch : Valid(line[c], t) # {}} = {c \in Branch : Valid(line2[c], t) # {}}
  <2> HIDE DEF line, line2
  <2> QED
    BY <1>1 DEF SameAt
<1>3. owner2 = owner
  BY <1>2 DEF OwnerAt
<1>4. /\ owner = Null => AsOf(p, rows, snaps, b, m, t) = Null
      /\ owner # Null => /\ owner \in Branch
                         /\ \E s \in Valid(line[owner], t) : AsOf(p, rows, snaps, b, m, t) = s.version
  BY <1>a, AsOfIs
<1>5. /\ owner2 = Null => AsOf(q, rows2, snaps2, b, m, t) = Null
      /\ owner2 # Null => /\ owner2 \in Branch
                          /\ \E s \in Valid(line2[owner2], t) : AsOf(q, rows2, snaps2, b, m, t) = s.version
  BY <1>a, AsOfIs
<1> HIDE DEF line, line2, owner, owner2
<1> QED
  BY <1>1, <1>3, <1>4, <1>5 DEF SameAt

-----------------------------------------------------------------------------
(***************************************************************************)
(* Reading the present.                                                    *)
(***************************************************************************)

\* What a branch's timeline, with its baseline, says of a key now: one open
\* snapshot at most, an upsert with the row's content exactly if there is a row,
\* and a delete, which has no content, if there is a tombstone.
Told(row, m, gone, line, now) ==
  /\ line \in SUBSET Snapshot /\ Past(line, now)
  /\ \A r, s \in line : r.until = Open /\ s.until = Open => r = s
  /\ \A s \in line : s.op = "delete" => s.version = Null
  /\ Present(row) => \E s \in line : s.until = Open /\ s.op = "upsert" /\ s.version = row.version
  /\ \A s \in line : s.until = Open /\ s.op = "upsert" => Present(row)
  /\ m \in gone => \E s \in line : s.until = Open /\ s.op = "delete"

\* What is valid now is what is open.
LEMMA ValidNow ==
  ASSUME NEW row, NEW m, NEW gone, NEW line, NEW now \in Nat, Told(row, m, gone, line, now)
  PROVE  /\ Valid(line, now) = {s \in line : s.until = Open}
         /\ \A r, s \in Valid(line, now) : r = s
         /\ Present(row) => /\ Valid(line, now) # {}
                            /\ \A s \in Valid(line, now) : s.version = row.version
         /\ ~Present(row) => \A s \in Valid(line, now) : s.op = "delete" /\ s.version = Null
         /\ m \in gone => /\ Valid(line, now) # {}
                         /\ \A s \in Valid(line, now) : s.version = Null
<1>1. \A s \in line : s.from <= now /\ s.until <= now /\ s.until \in Nat \cup {Open}
                      /\ s.op \in {"upsert", "delete"}
  BY DEF Told, Past, Snapshot
<1>2. Valid(line, now) = {s \in line : s.until = Open}
  BY <1>1 DEF Valid, Open
<1>3. \A r, s \in Valid(line, now) : r = s
  BY <1>2 DEF Told
<1> QED
  BY <1>1, <1>2, <1>3 DEF Told

\* The two readers of a branch agree, unless an ancestor's tombstone hides a nearer
\* row or a branch has a delete snapshot without a tombstone.
LEMMA ViewIsAsOf ==
  ASSUME NEW parent \in [Branch -> Branch \cup {Null}], NEW rows, NEW tombs, NEW snaps,
         NEW b \in Branch, NEW m, NEW now \in Nat,
         \A c \in Branch : Told(rows[c][m], m, tombs[c], Lines(rows, snaps, m)[c], now),
         \A c \in Seen(Lineage(parent, b)) :
           c # Main /\ m \notin tombs[c] /\ ~Present(rows[c][m])
             => Valid(Lines(rows, snaps, m)[c], now) = {},
         \A i, j \in DOMAIN Lineage(parent, b) :
           i < j /\ m \in tombs[Lineage(parent, b)[j]]
             => ~Present(rows[Lineage(parent, b)[i]][m])
  PROVE  View(parent, rows, tombs, b, m) = AsOf(parent, rows, snaps, b, m, now)
<1> DEFINE L == Lineage(parent, b)
           line == Lines(rows, snaps, m)
           owner == OwnerAt(parent, line, b, now)
           first == FirstBranch(L, Holders(rows, m))
           V(c) == Valid(line[c], now)
<1>1. /\ L \in Seq(Branch) /\ \A i, j \in 1 .. Len(L) : i < j => L[i] # Main
      /\ DOMAIN L = 1 .. Len(L) /\ Len(L) \in Nat
  BY LineagePath DEF Path
<1>2. \A c \in Branch :
        /\ line[c] \in SUBSET Snapshot
        /\ \A r, s \in V(c) : r = s
        /\ Present(rows[c][m]) => V(c) # {} /\ \A s \in V(c) : s.version = rows[c][m].version
        /\ ~Present(rows[c][m]) => \A s \in V(c) : s.version = Null
        /\ m \in tombs[c] => V(c) # {} /\ \A s \in V(c) : s.version = Null
  <2>1. ASSUME NEW c \in Branch, NEW row, row = rows[c][m], NEW gone, gone = tombs[c],
               NEW k, k = line[c]
        PROVE  /\ k \in SUBSET Snapshot
               /\ \A r, s \in Valid(k, now) : r = s
               /\ Present(row) => Valid(k, now) # {} /\ \A s \in Valid(k, now) : s.version = row.version
               /\ ~Present(row) => \A s \in Valid(k, now) : s.version = Null
               /\ m \in gone => Valid(k, now) # {} /\ \A s \in Valid(k, now) : s.version = Null
    <3>1. Told(row, m, gone, k, now)
      BY <2>1
    <3> HIDE DEF line
    <3> QED
      BY <3>1, ValidNow DEF Told
  <2> QED
    BY <2>1
<1>3. /\ owner = Null => AsOf(parent, rows, snaps, b, m, now) = Null
      /\ owner # Null =>
           owner \in Branch /\ \E s \in V(owner) : AsOf(parent, rows, snaps, b, m, now) = s.version
  <2>1. Readable(line, now)
    <3> HIDE DEF line
    <3> QED
      BY <1>2 DEF Readable
  <2> QED
    BY <2>1, AsOfIs
<1>4. \/ owner = Null /\ \A i \in DOMAIN L : V(L[i]) = {}
      \/ \E i \in DOMAIN L : /\ owner = L[i] /\ L[i] \in Branch /\ V(L[i]) # {}
                             /\ \A j \in DOMAIN L : V(L[j]) # {} => i <= j
  <2> DEFINE B == {c \in Branch : V(c) # {}}
  <2>1. owner = FirstBranch(L, B)
    BY DEF OwnerAt
  <2>2. \A i \in DOMAIN L : L[i] \in Branch /\ (L[i] \in B <=> V(L[i]) # {})
    BY <1>1
  <2> HIDE DEF B, owner, L, V
  <2> QED
    BY <1>1, <2>1, <2>2, FirstOf
<1>5. \/ first = Null /\ \A i \in DOMAIN L : ~Present(rows[L[i]][m])
      \/ \E i \in DOMAIN L : /\ first = L[i] /\ first # Null /\ L[i] \in Branch
                             /\ Present(rows[L[i]][m])
                             /\ \A j \in DOMAIN L : Present(rows[L[j]][m]) => i <= j
  <2>1. \A i \in DOMAIN L : L[i] \in Branch /\ (L[i] \in Holders(rows, m) <=> Present(rows[L[i]][m]))
    BY <1>1 DEF Holders
  <2> HIDE DEF L
  <2> QED
    BY <1>1, <2>1, FirstOf
<1>6. /\ (\E c \in Seen(L) : m \in tombs[c]) => View(parent, rows, tombs, b, m) = Null
      /\ ~(\E c \in Seen(L) : m \in tombs[c]) =>
           View(parent, rows, tombs, b, m) = IF first = Null THEN Null ELSE rows[first][m].version
  BY Zenon DEF View
<1>7. \A i \in DOMAIN L : L[i] \in Seen(L) /\ L[i] \in Branch
  BY <1>1 DEF Seen
<1>8. \A i \in DOMAIN L : L[i] # Main /\ m \notin tombs[L[i]] /\ ~Present(rows[L[i]][m]) => V(L[i]) = {}
  BY <1>7
<1>9. \A i, j \in DOMAIN L : i < j /\ m \in tombs[L[j]] => ~Present(rows[L[i]][m])
  OBVIOUS
<1>10. \A c \in Seen(L) : \E k \in DOMAIN L : c = L[k]
  BY DEF Seen
<1> HIDE DEF L, line, owner, first, V
<1>11. CASE \E c \in Seen(L) : m \in tombs[c]
  <2>1. PICK k \in DOMAIN L : m \in tombs[L[k]]
    BY <1>10, <1>11
  <2>2. V(L[k]) # {}
    BY <1>2, <1>7, <2>1
  <2>3. PICK i \in DOMAIN L : owner = L[i] /\ V(L[i]) # {} /\ i <= k
    BY <1>4, <2>1, <2>2
  <2>4. i = k \/ i < k
    BY <1>1, <2>3
  <2>5. \A s \in V(owner) : s.version = Null
    BY <1>2, <1>7, <1>9, <2>1, <2>3, <2>4
  <2>6. owner # Null
    BY <1>7, <2>3, ModelAssumption
  <2> QED
    BY <1>3, <1>6, <1>11, <2>5, <2>6
<1>12. CASE ~(\E c \in Seen(L) : m \in tombs[c])
  <2>1. \A i \in DOMAIN L : m \notin tombs[L[i]]
    BY <1>7, <1>12
  <2>2. CASE first = Null
    <3>1. \A i \in DOMAIN L : ~Present(rows[L[i]][m])
      BY <1>5, <2>2
    <3>2. owner # Null => \A s \in V(owner) : s.version = Null
      BY <1>2, <1>4, <3>1
    <3> QED
      BY <1>3, <1>6, <1>12, <2>2, <3>2
  <2>3. CASE first # Null
    <3>1. PICK i \in DOMAIN L : /\ first = L[i] /\ L[i] \in Branch /\ Present(rows[L[i]][m])
                                /\ \A j \in DOMAIN L : Present(rows[L[j]][m]) => i <= j
      BY <1>5, <2>3
    <3>2. V(L[i]) # {}
      BY <1>2, <3>1
    <3>3. PICK j \in DOMAIN L : owner = L[j] /\ L[j] \in Branch /\ V(L[j]) # {} /\ j <= i
      BY <1>4, <3>1, <3>2
    <3>4. j = i
      <4>1. SUFFICES ASSUME j < i PROVE FALSE
        BY <1>1, <3>1, <3>3
      <4>2. L[j] # Main
        BY <1>1, <3>1, <3>3, <4>1
      <4>3. ~Present(rows[L[j]][m])
        BY <1>1, <3>1, <3>3, <4>1
      <4> QED
        BY <1>8, <2>1, <3>3, <4>2, <4>3
    <3>5. \A s \in V(owner) : s.version = rows[first][m].version
      BY <1>2, <3>1, <3>3, <3>4
    <3>6. owner # Null
      BY <3>3, ModelAssumption
    <3> QED
      BY <1>3, <1>6, <1>12, <2>3, <3>5, <3>6
  <2> QED
    BY <2>2, <2>3
<1> QED
  BY <1>11, <1>12
=============================================================================
