--------------------------- MODULE IngestionProofs ---------------------------
(***************************************************************************)
(* Theorems about Ingestion, for any sources, contents and number of       *)
(* ingests that overlap, fail and are cut short by crashes.                *)
(***************************************************************************)
EXTENDS Ingestion, FiniteSetTheorems, SequenceTheorems, TLAPS

-----------------------------------------------------------------------------
(***************************************************************************)
(* The inductive invariant.                                                *)
(***************************************************************************)
Key == {"storage", "logical"} \X MemoryId

\* The memories that some keys are of.
Ids(keys) == {key[2] : key \in keys}

IngestState ==
  [at : {"idle", "next", "storing", "removing", "masking"}, todo : Seq(Source), skip : BOOLEAN, chats : BOOLEAN,
   src : Source \cup {Absent}, read : Content \cup {Absent}, left : SUBSET MemoryId, old : SUBSET Key,
   stale : SUBSET Key, masks : MemoryId \cup {Absent}, alone : BOOLEAN]

Typed ==
  /\ onBranch \in BOOLEAN /\ blemished \subseteq Source
  /\ file \in [Source -> Content \cup {Absent}] /\ printed \in [Source -> Content \cup {Absent}]
  /\ rows \subseteq MemoryId /\ tombs \subseteq MemoryId /\ unwanted \subseteq MemoryId
  /\ ing \in [Ingest -> IngestState]

\* An ingest that works on a file.
IsAtWork(k) == k.at \in {"storing", "removing", "masking"}

\* It writes memories of the file it read, and deletes only memories of its source;
\* on main none of those it has written.
WorkOK(k, branch) ==
  /\ k.src \in Source /\ k.read \in Content
  /\ k.left \subseteq MemoriesOf(k.src, k.read)
  /\ \A key \in k.old \cup k.stale : key[2][1] = k.src
  /\ ~branch => /\ \A key \in k.old : key[1] = "logical"
                /\ \A key \in k.stale : key[2] \notin MemoriesOf(k.src, k.read)
                /\ k.at # "masking"

\* What it may still delete, and what it may still write.
MayDelete(k) == Ids(IF k.at = "storing" THEN k.old ELSE k.stale)
MayWrite(k)  == IF k.at = "storing" THEN k.left ELSE {}

\* If it has the source to itself, the rows of the source are of the file it read or
\* about to be deleted; on main those of the file are there, about to be written or
\* deleted by hand.
AloneOK(k, branch, R, U) ==
  /\ \A id \in R : id[1] = k.src => id \in MemoriesOf(k.src, k.read) \cup MayDelete(k)
  /\ ~branch => \A id \in MemoriesOf(k.src, k.read) : id \in MayWrite(k) \cup R \cup U

\* No other ingest works on its source.
NoOther(p) == \A q \in Ingest \ {p} : ~(IsAtWork(ing[q]) /\ ing[q].src = ing[p].src)

WorkerOK(p) ==
  IsAtWork(ing[p]) =>
    /\ WorkOK(ing[p], onBranch)
    /\ ing[p].alone => NoOther(p) /\ AloneOK(ing[p], onBranch, rows, unwanted)
    /\ ~ing[p].alone => ing[p].src \in blemished

\* The rows that a reader sees of a source are those its fingerprint promises.
Exact(s, fingerprint, branch, R, T, U) ==
  LET promised == IF fingerprint = Absent THEN {} ELSE MemoriesOf(s, fingerprint) \ U
  IN  /\ \A id \in R \ T : id[1] = s => id \in promised
      /\ ~branch => promised \subseteq R

Idle(s) == \A p \in Ingest : ~(IsAtWork(ing[p]) /\ ing[p].src = s)

SourceOK(s) == Idle(s) /\ s \notin blemished => Exact(s, printed[s], onBranch, rows, tombs, unwanted)

\* On main nothing is masked; what was deleted by hand has no row.
TablesOK == (~onBranch => tombs = {}) /\ unwanted \cap rows = {}

IngestInv ==
  /\ Typed /\ TablesOK
  /\ \A p \in Ingest : WorkerOK(p)
  /\ \A s \in Source : SourceOK(s)

-----------------------------------------------------------------------------
(***************************************************************************)
(* Memories and files.                                                     *)
(***************************************************************************)

\* The memories of a source bear its name.
LEMMA MemoriesHave ==
  ASSUME NEW s, NEW c, NEW id \in MemoriesOf(s, c)
  PROVE  id[1] = s
<1>1. PICK i : id = <<s, i, c[i]>>
  BY DEF MemoriesOf
<1> QED
  BY <1>1

\* The memories of a file are among all.
LEMMA MemoriesAre ==
  ASSUME NEW s \in Source, NEW c \in Content
  PROVE  MemoriesOf(s, c) \subseteq MemoryId
  BY DEF MemoryId

\* The sources in some order are a sequence of sources.
LEMMA OrderOfSources ==
  ASSUME NEW S, S \subseteq Source
  PROVE  SetToSeq(S) \in Seq(Source)
<1>1. IsFiniteSet(S)
  BY IngestionAssumption, FS_Subset
<1>2. Cardinality(S) \in Nat /\ ExistsBijection(1 .. Cardinality(S), S)
  BY <1>1, FS_CardinalityType
<1>3. PICK f \in Bijection(1 .. Cardinality(S), S) : TRUE
  BY <1>2 DEF ExistsBijection
<1>4. f \in [1 .. Cardinality(S) -> S] /\ IsInjective(f)
  BY <1>3 DEF Bijection, Injection
<1>5. SetToSeq(S) \in [1 .. Cardinality(S) -> S]
  BY <1>4, Zenon DEF SetToSeq
<1> HIDE DEF SetToSeq
<1> QED
  BY <1>2, <1>5

\* A key that is not of a memory of the file is not one of them on main.
LEMMA NotLogical ==
  ASSUME NEW M, NEW key \in Key, key[1] = "logical", key \notin LogicalIds(M)
  PROVE  key[2] \notin M
  BY DEF Key, LogicalIds
-----------------------------------------------------------------------------
(***************************************************************************)
(* What a step of one ingest keeps of the others and of other sources.     *)
(***************************************************************************)

\* A worker's own conditions do not see the tables, those it has when alone only the
\* rows of its source.
LEMMA AloneKept ==
  ASSUME NEW k, NEW branch, NEW R, NEW U, NEW R2, NEW U2, AloneOK(k, branch, R, U),
         \A id : id[1] = k.src => (id \in R2 <=> id \in R) /\ (id \in U2 <=> id \in U)
  PROVE  AloneOK(k, branch, R2, U2)
<1>1. \A id \in MemoriesOf(k.src, k.read) : id[1] = k.src
  BY MemoriesHave
<1> QED
  BY <1>1 DEF AloneOK

\* What is exact stays so if only other sources gain and lose rows.
LEMMA ExactKept ==
  ASSUME NEW s, NEW print, NEW branch, NEW R, NEW T, NEW U, NEW R2, NEW T2, NEW U2,
         Exact(s, print, branch, R, T, U),
         \A id : id[1] = s => /\ (id \in R2 <=> id \in R) /\ (id \in U2 <=> id \in U)
                              /\ (id \in T => id \in T2)
  PROVE  Exact(s, print, branch, R2, T2, U2)
<1>1. \A id \in MemoriesOf(s, print) : id[1] = s
  BY MemoriesHave
<1> QED
  BY <1>1 DEF Exact

\* A step of an ingest on one source leaves the others as they are.
LEMMA OthersKept ==
  ASSUME IngestInv, NEW p \in Ingest, NEW s, s = ing[p].src, IsAtWork(ing[p]),
         NEW now \in [Ingest -> IngestState], ing' = now, \A q \in Ingest \ {p} : now[q] = ing[q],
         IsAtWork(now[p]) => now[p].src = s,
         onBranch' = onBranch, \A r \in Source \ {s} : printed'[r] = printed[r],
         \A id : id[1] # s => /\ (id \in rows' <=> id \in rows) /\ (id \in unwanted' <=> id \in unwanted)
                              /\ (id \in tombs => id \in tombs'),
         blemished \ {s} \subseteq blemished',
         ~ing[p].alone /\ s \in blemished => s \in blemished'
  PROVE  /\ \A q \in Ingest \ {p} : WorkerOK(q)'
         /\ \A r \in Source \ {s} : SourceOK(r)'
<1>1. ASSUME NEW q \in Ingest \ {p}
      PROVE  WorkerOK(q)'
  <2>1. SUFFICES ASSUME IsAtWork(now[q])
                 PROVE  /\ WorkOK(now[q], onBranch')
                        /\ now[q].alone => NoOther(q)' /\ AloneOK(now[q], onBranch', rows', unwanted')
                        /\ ~now[q].alone => now[q].src \in blemished'
    BY DEF WorkerOK
  <2>2. now[q] = ing[q]
    OBVIOUS
  <2>3. WorkerOK(q) /\ WorkerOK(p)
    BY DEF IngestInv
  <2>4. WorkOK(now[q], onBranch')
    BY <2>1, <2>2, <2>3 DEF WorkerOK
  <2>5. ASSUME now[q].alone
        PROVE  NoOther(q)' /\ AloneOK(now[q], onBranch', rows', unwanted')
    <3>1. NoOther(q) /\ AloneOK(ing[q], onBranch, rows, unwanted)
      BY <2>1, <2>2, <2>3, <2>5 DEF WorkerOK
    <3>2. ing[q].src # s
      BY <3>1 DEF NoOther
    <3>3. ASSUME NEW r \in Ingest \ {q}
          PROVE  ~(IsAtWork(now[r]) /\ now[r].src = now[q].src)
      <4>1. CASE r = p
        BY <2>2, <3>2, <4>1
      <4>2. CASE r # p
        BY <2>2, <3>1, <4>2 DEF NoOther
      <4> QED
        BY <4>1, <4>2
    <3>4. NoOther(q)'
      BY <3>3 DEF NoOther
    <3>5. AloneOK(ing[q], onBranch, rows', unwanted')
      <4>1. \A id : id[1] = ing[q].src => (id \in rows' <=> id \in rows) /\ (id \in unwanted' <=> id \in unwanted)
        BY <3>2
      <4> QED
        BY <3>1, <4>1, AloneKept
    <3> QED
      BY <2>2, <3>4, <3>5
  <2>6. ASSUME ~now[q].alone
        PROVE  now[q].src \in blemished'
    <3>1. ing[q].src \in blemished
      BY <2>1, <2>2, <2>3, <2>6 DEF WorkerOK
    <3>2. CASE ing[q].src = s
      <4>1. ~NoOther(p)
        BY <2>1, <2>2, <3>2 DEF NoOther
      <4>2. ~ing[p].alone
        BY <2>3, <4>1 DEF WorkerOK
      <4> QED
        BY <2>2, <3>1, <3>2, <4>2
    <3>3. CASE ing[q].src # s
      BY <2>2, <3>1, <3>3
    <3> QED
      BY <3>2, <3>3
  <2> QED
    BY <2>4, <2>5, <2>6
<1>2. ASSUME NEW r \in Source \ {s}
      PROVE  SourceOK(r)'
  <2>1. SUFFICES ASSUME Idle(r)', r \notin blemished'
                 PROVE  Exact(r, printed'[r], onBranch', rows', tombs', unwanted')
    BY DEF SourceOK
  <2>2. r \notin blemished
    BY <2>1
  <2>3. Idle(r)
    <3>1. ASSUME NEW q \in Ingest PROVE ~(IsAtWork(ing[q]) /\ ing[q].src = r)
      <4>1. CASE q = p
        BY <4>1
      <4>2. CASE q # p
        BY <2>1, <4>2 DEF Idle
      <4> QED
        BY <4>1, <4>2
    <3> QED
      BY <3>1 DEF Idle
  <2>4. Exact(r, printed[r], onBranch, rows, tombs, unwanted)
    BY <2>2, <2>3 DEF IngestInv, SourceOK
  <2>5. \A id : id[1] = r => /\ (id \in rows' <=> id \in rows) /\ (id \in unwanted' <=> id \in unwanted)
                             /\ (id \in tombs => id \in tombs')
    OBVIOUS
  <2>6. Exact(r, printed[r], onBranch, rows', tombs', unwanted')
    BY <2>4, <2>5, ExactKept
  <2> QED
    BY <2>6
<1> QED
  BY <1>1, <1>2

\* A step that leaves the tables and the work on them as they are keeps the invariant.
LEMMA QuietKept ==
  ASSUME IngestInv, NEW now \in [Ingest -> IngestState], ing' = now, file' \in [Source -> Content \cup {Absent}],
         UNCHANGED <<onBranch, rows, tombs, printed, blemished, unwanted>>,
         \A q \in Ingest : now[q] = ing[q] \/ (~IsAtWork(ing[q]) /\ ~IsAtWork(now[q]))
  PROVE  IngestInv'
<1>1. Typed' /\ TablesOK'
  BY DEF IngestInv, Typed, TablesOK
<1>2. \A q \in Ingest : /\ IsAtWork(now[q]) <=> IsAtWork(ing[q])
                        /\ IsAtWork(now[q]) => now[q] = ing[q]
  OBVIOUS
<1>3. ASSUME NEW q \in Ingest PROVE WorkerOK(q)'
  <2>1. NoOther(q) /\ IsAtWork(ing[q]) => NoOther(q)'
    BY <1>2 DEF NoOther
  <2>2. WorkerOK(q)
    BY DEF IngestInv
  <2> QED
    BY <1>2, <2>1, <2>2 DEF WorkerOK
<1>4. ASSUME NEW s \in Source PROVE SourceOK(s)'
  <2>1. Idle(s)' => Idle(s)
    BY <1>2 DEF Idle
  <2>2. SourceOK(s)
    BY DEF IngestInv
  <2> QED
    BY <2>1, <2>2 DEF SourceOK
<1> QED
  BY <1>1, <1>3, <1>4 DEF IngestInv

\* A step of an ingest that goes on with its source.
LEMMA GoesOn ==
  ASSUME IngestInv, NEW p \in Ingest, IsAtWork(ing[p]), NEW k \in IngestState, ing' = [ing EXCEPT ![p] = k],
         IsAtWork(k), k.src = ing[p].src, k.alone = ing[p].alone,
         UNCHANGED <<onBranch, file, printed, blemished>>,
         rows' \subseteq MemoryId, tombs' \subseteq MemoryId, unwanted' \subseteq MemoryId, TablesOK',
         \A id : id[1] # ing[p].src => /\ (id \in rows' <=> id \in rows) /\ (id \in unwanted' <=> id \in unwanted)
                                       /\ (id \in tombs => id \in tombs'),
         WorkOK(k, onBranch), k.alone => AloneOK(k, onBranch, rows', unwanted')
  PROVE  IngestInv'
<1> DEFINE now == [ing EXCEPT ![p] = k]
           s   == ing[p].src
<1>1. ing \in [Ingest -> IngestState] /\ WorkerOK(p)
  BY DEF IngestInv, Typed
<1>2. /\ now \in [Ingest -> IngestState] /\ now[p] = k /\ ing' = now
      /\ \A q \in Ingest \ {p} : now[q] = ing[q]
  BY <1>1
<1> HIDE DEF now
<1>3. /\ \A q \in Ingest \ {p} : WorkerOK(q)'
      /\ \A r \in Source \ {s} : SourceOK(r)'
  BY <1>2, OthersKept
<1>4. NoOther(p) => NoOther(p)'
  BY <1>2 DEF NoOther
<1>5. WorkerOK(p)'
  BY <1>1, <1>2, <1>4 DEF WorkerOK
<1>6. ~Idle(s)'
  BY <1>2 DEF Idle
<1>7. Typed'
  BY <1>2 DEF IngestInv, Typed
<1> QED
  BY <1>3, <1>5, <1>6, <1>7 DEF IngestInv, SourceOK

\* A step of an ingest that leaves its source.
LEMMA Leaves ==
  ASSUME IngestInv, NEW p \in Ingest, IsAtWork(ing[p]), NEW s, s = ing[p].src, NEW k \in IngestState,
         ing' = [ing EXCEPT ![p] = k], ~IsAtWork(k), UNCHANGED <<onBranch, file, rows, tombs, unwanted>>,
         printed' \in [Source -> Content \cup {Absent}],
         \A r \in Source \ {s} : printed'[r] = printed[r],
         blemished' \subseteq Source, blemished \ {s} \subseteq blemished',
         ~ing[p].alone /\ s \in blemished => s \in blemished',
         SourceOK(s)'
  PROVE  IngestInv'
<1> DEFINE now == [ing EXCEPT ![p] = k]
<1>1. ing \in [Ingest -> IngestState]
  BY DEF IngestInv, Typed
<1>2. /\ now \in [Ingest -> IngestState] /\ now[p] = k /\ ing' = now
      /\ \A q \in Ingest \ {p} : now[q] = ing[q]
  BY <1>1
<1>3. Typed' /\ TablesOK'
  BY <1>2 DEF IngestInv, Typed, TablesOK
<1> HIDE DEF now
<1>4. /\ \A q \in Ingest \ {p} : WorkerOK(q)'
      /\ \A r \in Source \ {s} : SourceOK(r)'
  BY <1>2, OthersKept
<1>5. WorkerOK(p)'
  BY <1>2 DEF WorkerOK
<1> QED
  BY <1>3, <1>4, <1>5 DEF IngestInv

\* A memory is written.
LEMMA StoreStep ==
  ASSUME IngestInv, NEW p \in Ingest, Store(p)
  PROVE  IngestInv'
<1> DEFINE w == ing[p]
           M == MemoriesOf(w.src, w.read)
<1>1. PICK id \in w.left : /\ rows' = rows \cup {id} /\ tombs' = tombs \ {id} /\ unwanted' = unwanted \ {id}
                           /\ ing' = [ing EXCEPT ![p].left = @ \ {id}]
  BY DEF Store
<1>2. /\ w.at = "storing" /\ UNCHANGED <<onBranch, file, printed, blemished>>
      /\ w \in IngestState /\ ing \in [Ingest -> IngestState] /\ IsAtWork(w) /\ WorkerOK(p)
  BY DEF Store, IngestInv, Typed, IsAtWork
<1>3. /\ WorkOK(w, onBranch) /\ (w.alone => AloneOK(w, onBranch, rows, unwanted))
  BY <1>2 DEF WorkerOK
<1>4. id \in M /\ id[1] = w.src /\ id \in MemoryId
  <2>1. id \in M /\ w.src \in Source /\ w.read \in Content
    BY <1>3 DEF WorkOK
  <2> QED
    BY <2>1, MemoriesHave, MemoriesAre
<1> DEFINE k == [w EXCEPT !.left = w.left \ {id}]
<1>5. ing' = [ing EXCEPT ![p] = k]
  BY <1>1
<1>6. k \in IngestState
  BY <1>2 DEF IngestState
<1>7. /\ k.at = w.at /\ k.src = w.src /\ k.read = w.read /\ k.left = w.left \ {id} /\ k.old = w.old
      /\ k.stale = w.stale /\ k.alone = w.alone
  BY <1>2 DEF IngestState
<1> HIDE DEF k
<1>8. WorkOK(k, onBranch)
  BY <1>3, <1>7 DEF WorkOK
<1>9. ASSUME k.alone PROVE AloneOK(k, onBranch, rows', unwanted')
  BY <1>1, <1>2, <1>3, <1>4, <1>7, <1>9 DEF AloneOK, MayDelete, MayWrite
<1>10. /\ rows' \subseteq MemoryId /\ tombs' \subseteq MemoryId /\ unwanted' \subseteq MemoryId
       /\ TablesOK'
  BY <1>1, <1>2, <1>4 DEF IngestInv, Typed, TablesOK
<1>11. \A x : x[1] # w.src => /\ (x \in rows' <=> x \in rows) /\ (x \in unwanted' <=> x \in unwanted)
                              /\ (x \in tombs => x \in tombs')
  BY <1>1, <1>4
<1> QED
  BY <1>2, <1>5, <1>6, <1>7, <1>8, <1>9, <1>10, <1>11, GoesOn DEF IsAtWork

\* What is stale is found.
LEMMA StoredAllStep ==
  ASSUME IngestInv, NEW p \in Ingest, StoredAll(p)
  PROVE  IngestInv'
<1> DEFINE w == ing[p]
           M == MemoriesOf(w.src, w.read)
           k == [w EXCEPT !.at = "removing", !.stale = Stale(p)]
<1>1. /\ w.at = "storing" /\ w.left = {} /\ UNCHANGED <<onBranch, file, rows, tombs, printed, blemished, unwanted>>
      /\ w \in IngestState /\ ing \in [Ingest -> IngestState] /\ IsAtWork(w) /\ WorkerOK(p)
  BY DEF StoredAll, IngestInv, Typed, IsAtWork
<1>2. ing' = [ing EXCEPT ![p] = k]
  BY <1>1 DEF StoredAll
<1>3. /\ WorkOK(w, onBranch) /\ (w.alone => AloneOK(w, onBranch, rows, unwanted))
  BY <1>1 DEF WorkerOK
<1>4. Stale(p) = w.old \ LogicalIds(M) /\ w.old \subseteq Key
  BY <1>1 DEF Stale, IngestState
<1>5. k \in IngestState
  BY <1>1, <1>4 DEF IngestState
<1>6. /\ k.at = "removing" /\ k.src = w.src /\ k.read = w.read /\ k.left = w.left /\ k.old = w.old
      /\ k.stale = Stale(p) /\ k.alone = w.alone
  BY <1>1 DEF IngestState
<1> HIDE DEF k
<1>7. WorkOK(k, onBranch)
  <2>1. ~onBranch => \A key \in k.stale : key[2] \notin M
    BY <1>3, <1>4, <1>6, NotLogical DEF WorkOK
  <2> QED
    BY <1>3, <1>4, <1>6, <2>1 DEF WorkOK
<1>8. ASSUME k.alone PROVE AloneOK(k, onBranch, rows', unwanted')
  <2>1. AloneOK(w, onBranch, rows, unwanted)
    BY <1>3, <1>6, <1>8
  <2>2. ASSUME NEW id \in rows, id[1] = w.src
        PROVE  id \in M \cup Ids(k.stale)
    <3>1. id \in M \cup Ids(w.old)
      BY <1>1, <2>1, <2>2 DEF AloneOK, MayDelete
    <3>2. ASSUME NEW key \in w.old, id = key[2], id \notin M
          PROVE  key \in k.stale
      <4>1. key \notin LogicalIds(M)
        <5>1. \A m : <<"logical", m>>[2] = m
          OBVIOUS
        <5> QED
          BY <3>2, <5>1 DEF LogicalIds
      <4> QED
        BY <1>4, <1>6, <4>1
    <3> QED
      BY <3>1, <3>2 DEF Ids
  <2>3. ~onBranch => \A id \in M : id \in rows \cup unwanted
    BY <1>1, <2>1 DEF AloneOK, MayWrite
  <2> QED
    BY <1>1, <1>6, <2>2, <2>3 DEF AloneOK, MayDelete, MayWrite
<1>9. /\ rows' \subseteq MemoryId /\ tombs' \subseteq MemoryId /\ unwanted' \subseteq MemoryId
      /\ TablesOK'
  BY <1>1 DEF IngestInv, Typed, TablesOK
<1>10. \A x : x[1] # w.src => /\ (x \in rows' <=> x \in rows) /\ (x \in unwanted' <=> x \in unwanted)
                              /\ (x \in tombs => x \in tombs')
  BY <1>1
<1> QED
  BY <1>1, <1>2, <1>5, <1>6, <1>7, <1>8, <1>9, <1>10, GoesOn DEF IsAtWork

\* The row of a stale memory is deleted.
LEMMA RemoveStaleStep ==
  ASSUME IngestInv, NEW p \in Ingest, RemoveStale(p)
  PROVE  IngestInv'
<1> DEFINE w == ing[p]
           M == MemoriesOf(w.src, w.read)
<1>1. PICK key \in w.stale :
        /\ rows' = rows \ {key[2]}
        /\ ing' = [ing EXCEPT ![p].stale = @ \ {key},
                              ![p].at = IF onBranch /\ key[2] \in rows THEN "masking" ELSE "removing",
                              ![p].masks = IF onBranch /\ ReaderSees(key[2]) THEN key[2] ELSE Absent]
  BY DEF RemoveStale
<1>2. /\ w.at = "removing" /\ UNCHANGED <<onBranch, file, tombs, printed, blemished, unwanted>>
      /\ w \in IngestState /\ ing \in [Ingest -> IngestState] /\ IsAtWork(w) /\ WorkerOK(p)
  BY DEF RemoveStale, IngestInv, Typed, IsAtWork
<1>3. /\ WorkOK(w, onBranch) /\ (w.alone => AloneOK(w, onBranch, rows, unwanted))
  BY <1>2 DEF WorkerOK
<1> DEFINE stage == IF onBranch /\ key[2] \in rows THEN "masking" ELSE "removing"
           mask  == IF onBranch /\ ReaderSees(key[2]) THEN key[2] ELSE Absent
           k     == [w EXCEPT !.stale = w.stale \ {key}, !.at = stage, !.masks = mask]
<1>4. ing' = [ing EXCEPT ![p] = k]
  BY <1>1, <1>2
<1>5. /\ stage \in {"removing", "masking"} /\ (~onBranch => stage = "removing")
      /\ mask \in MemoryId \cup {Absent} /\ key[2] \in MemoryId /\ key[2][1] = w.src
      /\ ~onBranch => key[2] \notin M
  BY <1>2, <1>3 DEF IngestState, Key, WorkOK
<1> HIDE DEF stage, mask
<1>6. k \in IngestState
  BY <1>2, <1>5 DEF IngestState
<1>7. /\ k.at = stage /\ k.src = w.src /\ k.read = w.read /\ k.left = w.left /\ k.old = w.old
      /\ k.stale = w.stale \ {key} /\ k.alone = w.alone
  BY <1>2 DEF IngestState
<1> HIDE DEF k
<1>8. WorkOK(k, onBranch)
  BY <1>3, <1>5, <1>7 DEF WorkOK
<1>9. ASSUME k.alone PROVE AloneOK(k, onBranch, rows', unwanted')
  <2>1. AloneOK(w, onBranch, rows, unwanted)
    BY <1>3, <1>7, <1>9
  <2>2. ASSUME NEW id \in rows', id[1] = w.src
        PROVE  id \in M \cup Ids(k.stale)
    <3>1. id \in M \cup Ids(w.stale) /\ id # key[2]
      BY <1>1, <1>2, <2>1, <2>2 DEF AloneOK, MayDelete
    <3> QED
      BY <1>7, <3>1 DEF Ids
  <2>3. ~onBranch => \A id \in M : id \in rows' \cup unwanted'
    BY <1>1, <1>2, <1>5, <2>1 DEF AloneOK, MayWrite
  <2>4. k.at # "storing"
    BY <1>5, <1>7
  <2> QED
    BY <1>7, <2>2, <2>3, <2>4 DEF AloneOK, MayDelete, MayWrite
<1>10. /\ rows' \subseteq MemoryId /\ tombs' \subseteq MemoryId /\ unwanted' \subseteq MemoryId
       /\ TablesOK'
  BY <1>1, <1>2 DEF IngestInv, Typed, TablesOK
<1>11. \A x : x[1] # w.src => /\ (x \in rows' <=> x \in rows) /\ (x \in unwanted' <=> x \in unwanted)
                              /\ (x \in tombs => x \in tombs')
  BY <1>1, <1>2, <1>5
<1>12. IsAtWork(k)
  BY <1>5, <1>7 DEF IsAtWork
<1> QED
  BY <1>2, <1>4, <1>6, <1>7, <1>8, <1>9, <1>10, <1>11, <1>12, GoesOn

\* What was found is masked on the branch.
LEMMA MaskStep ==
  ASSUME IngestInv, NEW p \in Ingest, Mask(p)
  PROVE  IngestInv'
<1> DEFINE w == ing[p]
           k == [w EXCEPT !.at = "removing", !.masks = Absent]
<1>1. /\ w.at = "masking" /\ UNCHANGED <<onBranch, file, rows, printed, blemished, unwanted>>
      /\ w \in IngestState /\ ing \in [Ingest -> IngestState] /\ IsAtWork(w) /\ WorkerOK(p)
      /\ tombs' = IF w.masks = Absent THEN tombs ELSE tombs \cup {w.masks}
  BY DEF Mask, IngestInv, Typed, IsAtWork
<1>2. ing' = [ing EXCEPT ![p] = k]
  BY <1>1 DEF Mask
<1>3. /\ WorkOK(w, onBranch) /\ (w.alone => AloneOK(w, onBranch, rows, unwanted))
  BY <1>1 DEF WorkerOK
<1>4. k \in IngestState
  BY <1>1 DEF IngestState
<1>5. /\ k.at = "removing" /\ k.src = w.src /\ k.read = w.read /\ k.left = w.left /\ k.old = w.old
      /\ k.stale = w.stale /\ k.alone = w.alone
  BY <1>1 DEF IngestState
<1> HIDE DEF k
<1>6. WorkOK(k, onBranch)
  BY <1>3, <1>5 DEF WorkOK
<1>7. ASSUME k.alone PROVE AloneOK(k, onBranch, rows', unwanted')
  BY <1>1, <1>3, <1>5, <1>7 DEF AloneOK, MayDelete, MayWrite
<1>8. onBranch /\ w.masks \in MemoryId \cup {Absent}
  BY <1>1, <1>3 DEF WorkOK, IngestState
<1>9. /\ rows' \subseteq MemoryId /\ tombs' \subseteq MemoryId /\ unwanted' \subseteq MemoryId
      /\ TablesOK'
  BY <1>1, <1>8 DEF IngestInv, Typed, TablesOK
<1>10. \A x : x[1] # w.src => /\ (x \in rows' <=> x \in rows) /\ (x \in unwanted' <=> x \in unwanted)
                              /\ (x \in tombs => x \in tombs')
  BY <1>1
<1> QED
  BY <1>1, <1>2, <1>4, <1>5, <1>6, <1>7, <1>9, <1>10, GoesOn DEF IsAtWork

\* What an ingest is when it has left a file.
LEMMA LeftIs ==
  ASSUME NEW p \in Ingest, ing[p] \in IngestState
  PROVE  LeftFile(p) \in IngestState /\ LeftFile(p).at = "next" /\ ~IsAtWork(LeftFile(p))
<1>1. LeftFile(p) \in IngestState
  BY DEF LeftFile, IngestState
<1>2. LeftFile(p).at = "next"
  BY DEF LeftFile, IngestState
<1> QED
  BY <1>1, <1>2 DEF IsAtWork

\* The fingerprint is written: what it promises is there.
LEMMA SealStep ==
  ASSUME IngestInv, NEW p \in Ingest, Seal(p)
  PROVE  IngestInv'
<1> DEFINE w == ing[p]
           k == LeftFile(p)
<1>1. PICK s : s = w.src
  OBVIOUS
<1>2. /\ w.at = "removing" /\ w.stale = {} /\ UNCHANGED <<onBranch, file, rows, tombs, unwanted>>
      /\ w \in IngestState /\ ing \in [Ingest -> IngestState] /\ IsAtWork(w) /\ WorkerOK(p)
      /\ printed' = [printed EXCEPT ![s] = w.read] /\ printed \in [Source -> Content \cup {Absent}]
      /\ blemished' = (IF w.alone THEN blemished \ {s} ELSE blemished) /\ blemished \subseteq Source
      /\ ing' = [ing EXCEPT ![p] = k]
  BY <1>1 DEF Seal, Sealed, IngestInv, Typed, IsAtWork
<1>3. /\ WorkOK(w, onBranch) /\ (w.alone => AloneOK(w, onBranch, rows, unwanted))
      /\ ~w.alone => s \in blemished
  BY <1>1, <1>2 DEF WorkerOK
<1>4. s \in Source /\ w.read \in Content
  BY <1>1, <1>3 DEF WorkOK
<1>5. k \in IngestState /\ ~IsAtWork(k)
  BY <1>2, LeftIs
<1>6. /\ printed' \in [Source -> Content \cup {Absent}] /\ printed'[s] = w.read
      /\ \A r \in Source \ {s} : printed'[r] = printed[r]
  BY <1>2, <1>4
<1>7. /\ blemished' \subseteq Source /\ blemished \ {s} \subseteq blemished'
      /\ ~w.alone /\ s \in blemished => s \in blemished'
  BY <1>2
<1>8. SourceOK(s)'
  <2>1. CASE ~w.alone
    BY <1>2, <1>3, <2>1 DEF SourceOK
  <2>2. CASE w.alone
    <3>1. AloneOK(w, onBranch, rows, unwanted)
      BY <1>3, <2>2
    <3>2. MayDelete(w) = {} /\ MayWrite(w) = {}
      BY <1>2 DEF MayDelete, MayWrite, Ids
    <3>3. unwanted \cap rows = {}
      BY DEF IngestInv, TablesOK
    <3>4. Exact(s, w.read, onBranch, rows, tombs, unwanted)
      BY <1>1, <1>4, <3>1, <3>2, <3>3, IngestionAssumption DEF Exact, AloneOK
    <3> QED
      BY <1>2, <1>6, <3>4 DEF SourceOK
  <2> QED
    BY <2>1, <2>2
<1> HIDE DEF k
<1> QED
  BY <1>1, <1>2, <1>5, <1>6, <1>7, <1>8, Leaves

\* A file fails: its source is not relied on until it is ingested again.
LEMMA FileFailsStep ==
  ASSUME IngestInv, NEW p \in Ingest, FileFails(p)
  PROVE  IngestInv'
<1> DEFINE w == ing[p]
           k == LeftFile(p)
<1>1. PICK s : s = w.src
  OBVIOUS
<1>2. /\ UNCHANGED <<onBranch, file, rows, tombs, printed, unwanted>>
      /\ w \in IngestState /\ IsAtWork(w) /\ WorkerOK(p)
      /\ printed \in [Source -> Content \cup {Absent}]
      /\ blemished' = blemished \cup {s} /\ blemished \subseteq Source
      /\ ing' = [ing EXCEPT ![p] = k]
  BY <1>1 DEF FileFails, Working, IngestInv, Typed, IsAtWork
<1>3. s \in Source
  BY <1>1, <1>2 DEF WorkerOK, WorkOK
<1>4. k \in IngestState /\ ~IsAtWork(k)
  BY <1>2, LeftIs
<1>5. SourceOK(s)'
  BY <1>2 DEF SourceOK
<1> HIDE DEF k
<1> QED
  BY <1>1, <1>2, <1>3, <1>4, <1>5, Leaves

\* The ingests that work on a source, and that they are not alone any more.
OnSource(s) == {q \in Ingest : IsAtWork(ing[q]) /\ ing[q].src = s}

Overtaken(p, s, now) ==
  \A q \in Ingest \ {p} :
    /\ q \in OnSource(s) => /\ now[q].at = ing[q].at /\ now[q].src = ing[q].src /\ now[q].read = ing[q].read
                            /\ now[q].left = ing[q].left /\ now[q].old = ing[q].old
                            /\ now[q].stale = ing[q].stale /\ ~now[q].alone
    /\ q \notin OnSource(s) => now[q] = ing[q]

\* An ingest takes up a source, and is alone if no other works on it.
LEMMA TakesUp ==
  ASSUME IngestInv, NEW p \in Ingest, ~IsAtWork(ing[p]), NEW s \in Source, NEW k \in IngestState,
         k.at = "storing", k.src = s, k.read = file[s], file[s] \in Content,
         k.left = MemoriesOf(s, file[s]), k.old = ExistingIds(s), k.stale = {},
         k.alone <=> OnSource(s) = {},
         NEW now \in [Ingest -> IngestState], ing' = now, now[p] = k,
         Overtaken(p, s, now),
         blemished' = IF OnSource(s) = {} THEN blemished ELSE blemished \cup {s},
         UNCHANGED <<onBranch, file, rows, tombs, printed, unwanted>>
  PROVE  IngestInv'
<1> DEFINE M      == MemoriesOf(s, file[s])
           others == OnSource(s)
<1>1. Typed' /\ TablesOK'
  BY DEF IngestInv, Typed, TablesOK
<1>7. others = {q \in Ingest : IsAtWork(ing[q]) /\ ing[q].src = s} /\ Overtaken(p, s, now)
  BY DEF OnSource
<1> HIDE DEF others
<1>2. \A q \in Ingest \ {p} : /\ IsAtWork(now[q]) <=> IsAtWork(ing[q])
                              /\ now[q].src = ing[q].src
                              /\ WorkOK(now[q], onBranch) <=> WorkOK(ing[q], onBranch)
                              /\ q \in others => ~now[q].alone
                              /\ q \notin others => now[q] = ing[q]
  BY <1>7 DEF IsAtWork, WorkOK, Overtaken, others
<1>3. p \notin others /\ IsAtWork(k)
  BY <1>7 DEF IsAtWork
<1>4. WorkerOK(p)'
  <2>1. WorkOK(k, onBranch)
    <3>1. \A key \in k.old : key[2][1] = s /\ (~onBranch => key[1] = "logical")
      <4>1. ASSUME NEW id \in rows, id[1] = s
            PROVE  StorageId(id)[2][1] = s /\ (~onBranch => StorageId(id)[1] = "logical")
        BY <4>1 DEF StorageId
      <4> QED
        BY <4>1 DEF ExistingIds
    <3> QED
      BY <3>1 DEF WorkOK
  <2>2. ASSUME k.alone PROVE NoOther(p)' /\ AloneOK(k, onBranch, rows, unwanted)
    <3>1. NoOther(p)'
      <4>1. \A q \in Ingest \ {p} : ~(IsAtWork(ing[q]) /\ ing[q].src = s)
        BY <1>7, <2>2 DEF others
      <4> QED
        BY <1>2, <4>1 DEF NoOther
    <3>2. \A id \in rows : id[1] = s => id \in Ids(k.old)
      <4>1. \A id \in rows : id[1] = s => StorageId(id) \in k.old
        BY DEF ExistingIds
      <4>2. \A id : StorageId(id)[2] = id
        BY DEF StorageId
      <4> QED
        BY <4>1, <4>2 DEF Ids
    <3>3. AloneOK(k, onBranch, rows, unwanted)
      BY <3>2 DEF AloneOK, MayDelete, MayWrite
    <3> QED
      BY <3>1, <3>3
  <2>3. ~k.alone => k.src \in blemished'
    BY DEF others
  <2> QED
    BY <1>3, <2>1, <2>2, <2>3 DEF WorkerOK
<1>5. ASSUME NEW q \in Ingest \ {p}
      PROVE  WorkerOK(q)'
  <2>1. WorkerOK(q)
    BY DEF IngestInv
  <2>2. CASE q \in others
    BY <1>2, <1>7, <2>1, <2>2 DEF WorkerOK, others
  <2>3. CASE q \notin others
    <3>1. now[q] = ing[q] /\ (IsAtWork(ing[q]) => ing[q].src # s)
      BY <1>2, <1>7, <2>3
    <3>2. IsAtWork(ing[q]) /\ NoOther(q) => NoOther(q)'
      <4>1. SUFFICES ASSUME IsAtWork(ing[q]), NoOther(q), NEW r \in Ingest \ {q},
                            IsAtWork(now[r]), now[r].src = now[q].src
                     PROVE  FALSE
        BY DEF NoOther
      <4>2. r # p
        BY <3>1, <4>1
      <4> QED
        BY <1>2, <3>1, <4>1, <4>2 DEF NoOther
    <3> QED
      BY <2>1, <3>1, <3>2 DEF WorkerOK
  <2> QED
    BY <2>2, <2>3
<1>6. ASSUME NEW r \in Source
      PROVE  SourceOK(r)'
  <2>1. CASE r = s
    BY <1>3, <2>1 DEF SourceOK, Idle
  <2>2. CASE r # s
    <3>1. Idle(r)' => Idle(r)
      BY <1>2 DEF Idle
    <3>2. SourceOK(r)
      BY DEF IngestInv
    <3> QED
      BY <2>2, <3>1, <3>2 DEF SourceOK
  <2> QED
    BY <2>1, <2>2
<1> QED
  BY <1>1, <1>4, <1>5, <1>6 DEF IngestInv

\* The next file is taken up, or passed over.
LEMMA NextFileStep ==
  ASSUME IngestInv, NEW p \in Ingest, NextFile(p)
  PROVE  IngestInv'
<1> DEFINE w == ing[p]
<1>1. PICK s, rest : s = Head(w.todo) /\ rest = Tail(w.todo)
  OBVIOUS
<1>2. /\ w.at = "next" /\ w.todo # <<>> /\ UNCHANGED <<onBranch, file, rows, tombs, printed, unwanted>>
      /\ w \in IngestState /\ ing \in [Ingest -> IngestState] /\ ~IsAtWork(w)
      /\ file \in [Source -> Content \cup {Absent}]
  BY DEF NextFile, IngestInv, Typed, IsAtWork
<1>3. s \in Source /\ rest \in Seq(Source)
  BY <1>1, <1>2, HeadTailProperties DEF IngestState
<1>4. OnSource(s) = WorkingOn(s)
  BY DEF OnSource, WorkingOn, Working, IsAtWork
<1>5. CASE file[s] = Absent \/ Unchanged(p, s)
  <2> DEFINE k == [w EXCEPT !.todo = rest]
             now == [ing EXCEPT ![p] = k]
  <2>1. ing' = now /\ blemished' = blemished
    BY <1>1, <1>2, <1>5 DEF NextFile
  <2>2. k \in IngestState
    BY <1>2, <1>3 DEF IngestState
  <2>3. k.at = "next"
    BY <1>2 DEF IngestState
  <2>4. now \in [Ingest -> IngestState] /\ now[p] = k /\ \A q \in Ingest \ {p} : now[q] = ing[q]
    BY <1>2, <2>2
  <2> HIDE DEF now, k
  <2> QED
    BY <1>2, <2>1, <2>3, <2>4, QuietKept DEF IsAtWork
<1>6. CASE ~(file[s] = Absent \/ Unchanged(p, s))
  <2> DEFINE k == [w EXCEPT !.at = "storing", !.todo = rest, !.src = s, !.read = file[s],
                     !.left = MemoriesOf(s, file[s]), !.old = ExistingIds(s), !.stale = {},
                     !.alone = WorkingOn(s) = {}]
             now == [Joined(p, s) EXCEPT ![p] = k]
  <2>1. ing' = now /\ blemished' = (IF OnSource(s) = {} THEN blemished ELSE blemished \cup {s})
    BY <1>1, <1>4, <1>6 DEF NextFile
  <2>2. file[s] \in Content /\ MemoriesOf(s, file[s]) \subseteq MemoryId
    BY <1>2, <1>3, <1>6, MemoriesAre
  <2>3. ExistingIds(s) \subseteq Key
    BY DEF ExistingIds, StorageId, Key, IngestInv, Typed
  <2> DEFINE M == MemoriesOf(s, file[s])
             c == file[s]
             E == ExistingIds(s)
             a == WorkingOn(s) = {}
  <2>4. M \in SUBSET MemoryId /\ c \in Content /\ E \in SUBSET Key /\ a \in BOOLEAN
    BY <2>2, <2>3
  <2>5. k = [w EXCEPT !.at = "storing", !.todo = rest, !.src = s, !.read = c, !.left = M, !.old = E,
                      !.stale = {}, !.alone = a]
    OBVIOUS
  <2> HIDE DEF M, c, E, a, k
  <2>6. k \in IngestState
    BY <1>2, <1>3, <2>4, <2>5 DEF IngestState
  <2>7. k.at = "storing" /\ k.src = s /\ k.read = c /\ k.left = M
    BY <1>2, <2>5 DEF IngestState
  <2>8. k.old = E /\ k.stale = {} /\ k.alone = a
    BY <1>2, <2>5 DEF IngestState
  <2>9. Joined(p, s) \in [Ingest -> IngestState]
    <3>1. \A q \in Ingest : [ing[q] EXCEPT !.alone = FALSE] \in IngestState
      BY <1>2 DEF IngestState
    <3> QED
      BY <1>2, <3>1 DEF Joined
  <2>10. now \in [Ingest -> IngestState] /\ now[p] = k /\ \A q \in Ingest \ {p} : now[q] = Joined(p, s)[q]
    BY <2>6, <2>9
  <2> HIDE DEF now
  <2>11. ASSUME NEW q \in Ingest \ {p}
         PROVE  /\ q \in OnSource(s) =>
                     /\ now[q].at = ing[q].at /\ now[q].src = ing[q].src /\ now[q].read = ing[q].read
                     /\ now[q].left = ing[q].left /\ now[q].old = ing[q].old
                     /\ now[q].stale = ing[q].stale /\ ~now[q].alone
                /\ q \notin OnSource(s) => now[q] = ing[q]
    <3>1. now[q] = IF q \in OnSource(s) THEN [ing[q] EXCEPT !.alone = FALSE] ELSE ing[q]
      BY <1>4, <2>10 DEF Joined
    <3>2. ing[q] \in IngestState
      BY <1>2
    <3> QED
      BY <3>1, <3>2 DEF IngestState
  <2>12. k.alone <=> OnSource(s) = {}
    BY <1>4, <2>8 DEF a
  <2>13. k.read = file[s] /\ k.left = MemoriesOf(s, file[s]) /\ k.old = ExistingIds(s)
    BY <2>7, <2>8 DEF c, M, E
  <2>14. Overtaken(p, s, now)
    BY <2>11, Zenon DEF Overtaken
  <2>15. k.at = "storing" /\ k.src = s /\ k.stale = {}
    BY <2>7, <2>8
  <2>16. now \in [Ingest -> IngestState] /\ now[p] = k
    BY <2>10
  <2>17. ~IsAtWork(ing[p]) /\ UNCHANGED <<onBranch, file, rows, tombs, printed, unwanted>>
    BY <1>2
  <2> QED
    BY <1>3, <2>1, <2>2, <2>6, <2>12, <2>13, <2>14, <2>15, <2>16, <2>17, TakesUp
<1> QED
  BY <1>5, <1>6

\* The files of a walk are files of the project.
LEMMA FoundAreSources ==
  ASSUME NEW files \in SUBSET Source
  PROVE  Found(files) \in Seq(Source)
<1>1. {s \in files : file[s] # Absent} \subseteq Source
  OBVIOUS
<1> QED
  BY <1>1, OrderOfSources, IngestionAssumption DEF Found

\* An ingest that is between two files, before and after the step, changes nothing
\* that the invariant is about.
LEMMA BetweenFiles ==
  ASSUME IngestInv, NEW p \in Ingest, NEW k \in IngestState,
         ~IsAtWork(ing[p]), ~IsAtWork(k), ing' = [ing EXCEPT ![p] = k],
         UNCHANGED <<onBranch, file, rows, tombs, printed, blemished, unwanted>>
  PROVE  IngestInv'
<1>1. ing \in [Ingest -> IngestState] /\ file \in [Source -> Content \cup {Absent}]
  BY DEF IngestInv, Typed
<1>2. ing' \in [Ingest -> IngestState] /\ ing'[p] = k /\ \A q \in Ingest \ {p} : ing'[q] = ing[q]
  BY <1>1
<1> QED
  BY <1>1, <1>2, QuietKept

\* An ingest begins.
LEMMA BeginStep ==
  ASSUME IngestInv, NEW p \in Ingest, NEW skip \in BOOLEAN, NEW chats \in BOOLEAN, BeginIngest(p, skip, chats)
  PROVE  IngestInv'
<1> DEFINE list == Found(Source \ Chats)
           i    == IdleIngest
           k    == [i EXCEPT !.at = "next", !.skip = skip, !.chats = chats, !.todo = list]
<1>1. i \in IngestState
  BY DEF IdleIngest, IngestState
<1>2. list \in Seq(Source)
  BY FoundAreSources
<1>3. ing[p].at = "idle" /\ ing' = [ing EXCEPT ![p] = k]
  BY DEF BeginIngest
<1>4. UNCHANGED <<onBranch, file, rows, tombs, printed, blemished, unwanted>>
  BY DEF BeginIngest
<1> HIDE DEF list, i
<1>5. k \in IngestState /\ k.at = "next"
  BY <1>1, <1>2 DEF IngestState
<1> HIDE DEF k
<1> QED
  BY <1>3, <1>4, <1>5, BetweenFiles DEF IsAtWork

\* The chat files are looked for.
LEMMA DiscoverStep ==
  ASSUME IngestInv, NEW p \in Ingest, DiscoverChatFiles(p)
  PROVE  IngestInv'
<1> DEFINE list == Found(Chats)
           k    == [ing[p] EXCEPT !.todo = list, !.chats = FALSE]
<1>1. ing[p] \in IngestState /\ ing \in [Ingest -> IngestState]
  BY DEF IngestInv, Typed
<1>2. list \in Seq(Source)
  BY FoundAreSources, IngestionAssumption
<1>3. ing[p].at = "next" /\ UNCHANGED <<onBranch, file, rows, tombs, printed, blemished, unwanted>>
  BY DEF DiscoverChatFiles
<1>4. ing' = [ing EXCEPT ![p].todo = list, ![p].chats = FALSE]
  BY DEF DiscoverChatFiles
<1> HIDE DEF list
<1>5. ing' = [ing EXCEPT ![p] = k]
  BY <1>1, <1>4 DEF IngestState
<1>6. k \in IngestState /\ k.at = "next"
  BY <1>1, <1>2, <1>3 DEF IngestState
<1> HIDE DEF k
<1> QED
  BY <1>3, <1>5, <1>6, BetweenFiles DEF IsAtWork

\* An ingest ends.
LEMMA FinishStep ==
  ASSUME IngestInv, NEW p \in Ingest, Finish(p)
  PROVE  IngestInv'
<1>1. /\ ing[p].at = "next" /\ ing' = [ing EXCEPT ![p] = IdleIngest]
      /\ UNCHANGED <<onBranch, file, rows, tombs, printed, blemished, unwanted>>
  BY DEF Finish
<1>2. IdleIngest \in IngestState /\ IdleIngest.at = "idle"
  BY DEF IdleIngest, IngestState
<1> QED
  BY <1>1, <1>2, BetweenFiles DEF IsAtWork

\* A memory is deleted by hand: its source no longer promises it.
LEMMA DeleteStep ==
  ASSUME IngestInv, NEW id \in rows, DeleteByHand(id)
  PROVE  IngestInv'
<1>1. /\ rows' = rows \ {id} /\ unwanted' = unwanted \cup {id}
      /\ tombs' = IF onBranch THEN tombs \cup {id} ELSE tombs
      /\ UNCHANGED <<onBranch, file, printed, ing, blemished>>
  BY DEF DeleteByHand
<1>2. Typed' /\ TablesOK'
  BY <1>1 DEF IngestInv, Typed, TablesOK
<1>3. ASSUME NEW p \in Ingest PROVE WorkerOK(p)'
  <2>1. WorkerOK(p) /\ (NoOther(p)' <=> NoOther(p))
    BY <1>1 DEF IngestInv, NoOther
  <2>2. AloneOK(ing[p], onBranch, rows, unwanted) => AloneOK(ing[p], onBranch, rows', unwanted')
    BY <1>1 DEF AloneOK
  <2> QED
    BY <1>1, <2>1, <2>2 DEF WorkerOK
<1>4. ASSUME NEW s \in Source PROVE SourceOK(s)'
  <2>1. SourceOK(s) /\ (Idle(s)' <=> Idle(s))
    BY <1>1 DEF IngestInv, Idle
  <2>2. Exact(s, printed[s], onBranch, rows, tombs, unwanted)
          => Exact(s, printed[s], onBranch, rows', tombs', unwanted')
    BY <1>1 DEF Exact
  <2> QED
    BY <1>1, <2>1, <2>2 DEF SourceOK
<1> QED
  BY <1>2, <1>3, <1>4 DEF IngestInv

\* A crash: no source is relied on that was worked on.
LEMMA CrashStep ==
  ASSUME IngestInv, IngestCrash
  PROVE  IngestInv'
<1>1. /\ ing' = [p \in Ingest |-> IdleIngest]
      /\ blemished' = blemished \cup {ing[p].src : p \in {q \in Ingest : IsAtWork(ing[q])}}
      /\ UNCHANGED <<onBranch, file, rows, tombs, printed, unwanted>>
  BY DEF IngestCrash, Working, IsAtWork
<1>2. IdleIngest \in IngestState /\ ~IsAtWork(IdleIngest)
  BY DEF IdleIngest, IngestState, IsAtWork
<1>3. \A p \in Ingest : IsAtWork(ing[p]) => ing[p].src \in Source
  BY DEF IngestInv, WorkerOK, WorkOK
<1>4. Typed' /\ TablesOK'
  BY <1>1, <1>2, <1>3 DEF IngestInv, Typed, TablesOK
<1>5. \A p \in Ingest : WorkerOK(p)'
  BY <1>1, <1>2 DEF WorkerOK
<1>6. ASSUME NEW s \in Source, s \notin blemished'
      PROVE  Exact(s, printed'[s], onBranch', rows', tombs', unwanted')
  <2>1. Idle(s) /\ s \notin blemished
    BY <1>1, <1>6 DEF Idle
  <2>2. SourceOK(s)
    BY DEF IngestInv
  <2> QED
    BY <1>1, <2>1, <2>2 DEF SourceOK
<1>7. \A s \in Source : SourceOK(s)'
  BY <1>6 DEF SourceOK
<1> QED
  BY <1>4, <1>5, <1>7 DEF IngestInv

-----------------------------------------------------------------------------
(***************************************************************************)
(* The theorems.                                                           *)
(***************************************************************************)

\* Nothing is ingested at the start, and nothing promised.
LEMMA IngestStart == IngestInit => IngestInv
<1> SUFFICES ASSUME IngestInit PROVE IngestInv
  OBVIOUS
<1>1. /\ onBranch \in BOOLEAN /\ file \in [Source -> Content] /\ rows = {} /\ tombs = {} /\ unwanted = {}
      /\ blemished = {} /\ printed = [s \in Source |-> Absent] /\ ing = [p \in Ingest |-> IdleIngest]
  BY DEF IngestInit
<1>2. IdleIngest \in IngestState /\ ~IsAtWork(IdleIngest)
  BY DEF IdleIngest, IngestState, IsAtWork
<1>3. Typed
  <2>1. file \in [Source -> Content \cup {Absent}] /\ printed \in [Source -> Content \cup {Absent}]
    BY <1>1
  <2> QED
    BY <1>1, <1>2, <2>1 DEF Typed
<1>4. TablesOK /\ \A p \in Ingest : WorkerOK(p)
  BY <1>1, <1>2 DEF TablesOK, WorkerOK
<1>5. \A s \in Source : SourceOK(s)
  BY <1>1 DEF SourceOK, Exact
<1> QED
  BY <1>3, <1>4, <1>5 DEF IngestInv

\* Every step keeps the invariant.
LEMMA IngestKept == IngestInv /\ [IngestNext]_ingestVars => IngestInv'
<1> SUFFICES ASSUME IngestInv, [IngestNext]_ingestVars PROVE IngestInv'
  OBVIOUS
<1>1. ing \in [Ingest -> IngestState] /\ file \in [Source -> Content \cup {Absent}]
  BY DEF IngestInv, Typed
<1>2. ASSUME NEW p \in Ingest, NEW skip \in BOOLEAN, NEW chats \in BOOLEAN, BeginIngest(p, skip, chats)
      PROVE  IngestInv'
  BY <1>2, BeginStep
<1>3. ASSUME NEW p \in Ingest, IngestStep(p) PROVE IngestInv'
  BY <1>3, DiscoverStep, NextFileStep, StoreStep, StoredAllStep, RemoveStaleStep, MaskStep, SealStep, FinishStep DEF IngestStep
<1>4. ASSUME NEW p \in Ingest, FileFails(p) PROVE IngestInv'
  BY <1>4, FileFailsStep
<1>5. ASSUME NEW s \in Source, Edit(s) PROVE IngestInv'
  <2>1. /\ UNCHANGED <<onBranch, rows, tombs, printed, ing, blemished, unwanted>>
        /\ file' \in [Source -> Content \cup {Absent}]
    BY <1>1, <1>5 DEF Edit
  <2> QED
    BY <1>1, <2>1, QuietKept
<1>6. ASSUME NEW id \in rows, DeleteByHand(id) PROVE IngestInv'
  BY <1>6, DeleteStep
<1>7. CASE IngestCrash
  BY <1>7, CrashStep
<1>8. CASE UNCHANGED ingestVars
  BY <1>1, <1>8, QuietKept DEF ingestVars
<1> QED
  BY <1>2, <1>3, <1>4, <1>5, <1>6, <1>7, <1>8 DEF IngestNext

\* The invariant holds of every state.
LEMMA IngestAlways == IngestSpec => []IngestInv
<1> QED
  BY IngestStart, IngestKept, PTL DEF IngestSpec

\* The tables hold memories of the project's files, fingerprints are of files, and
\* an ingest at work has a source and what it read of it.
THEOREM IngestTyped == IngestSpec => []IngestTypeOK
<1>1. IngestInv => IngestTypeOK
  <2> SUFFICES ASSUME IngestInv PROVE IngestTypeOK
    OBVIOUS
  <2>1. \A p \in Ingest : ing[p].at \in {"idle", "next", "storing", "removing", "masking"}
    BY DEF IngestInv, Typed, IngestState
  <2>2. \A p \in Ingest : Working(p) => ing[p].src \in Source /\ ing[p].read \in Content
    BY DEF IngestInv, WorkerOK, WorkOK, Working, IsAtWork
  <2> QED
    BY <2>1, <2>2 DEF IngestInv, Typed, IngestTypeOK
<1> QED
  BY <1>1, IngestAlways, PTL

\* A fingerprint is worth a skip: after an ingest that had a source to itself, and
\* whatever edits, skips, failures, crashes, deletions by hand and races came
\* before, readers see no memory of the source but those of the content the
\* fingerprint is of, and on main all of these (runIngestion).
THEOREM SourcesAreExact == IngestSpec => []SourceExact
<1>1. IngestInv => SourceExact
  <2> SUFFICES ASSUME IngestInv, NEW s \in Source, Settled(s)
               PROVE  /\ ReadersSee(s) \subseteq Promised(s)
                      /\ ~onBranch => ReadersSee(s) = Promised(s)
    BY DEF SourceExact
  <2>1. Idle(s) /\ s \notin blemished
    BY DEF Settled, WorkingOn, Working, Idle, IsAtWork
  <2>2. Exact(s, printed[s], onBranch, rows, tombs, unwanted)
    BY <2>1 DEF IngestInv, SourceOK
  <2>3. \A id : id \in ReadersSee(s) <=> id \in rows \ tombs /\ id[1] = s
    BY DEF ReadersSee, ReaderSees
  <2>4. \A id : id \in Promised(s) <=> printed[s] # Absent /\ id \in MemoriesOf(s, printed[s]) \ unwanted
    BY DEF Promised
  <2>5. \A id : id \in MemoriesOf(s, printed[s]) => id[1] = s
    BY MemoriesHave
  <2>6. ReadersSee(s) \subseteq Promised(s)
    BY <2>2, <2>3, <2>4 DEF Exact
  <2>7. ASSUME ~onBranch PROVE Promised(s) \subseteq ReadersSee(s)
    <3>1. tombs = {}
      BY <2>7 DEF IngestInv, TablesOK
    <3>2. \A id : id \in Promised(s) => id \in rows
      BY <2>2, <2>4, <2>7 DEF Exact
    <3> QED
      BY <2>3, <2>4, <2>5, <3>1, <3>2
  <2> QED
    BY <2>6, <2>7
<1> QED
  BY <1>1, IngestAlways, PTL
=============================================================================
