-------------------------- MODULE KnowledgeProofs --------------------------
(***************************************************************************)
(* Theorems about what is kept of the memories elsewhere: the library's    *)
(* atoms and their evolution, the graph of memories and the library's,     *)
(* each for any values of its constants.                                   *)
(***************************************************************************)
EXTENDS Evolution, MemoryGraph, FiniteSetTheorems, SequenceTheorems, WellFoundedInduction, TLAPS

-----------------------------------------------------------------------------
(***************************************************************************)
(* The atoms of the library and their evolution.                           *)
(***************************************************************************)
\* The atoms of every project and of every word, among ids.
InProject(byId, ids) == [p \in AtomProject |-> {id \in ids : byId[id].project = p}]

WithWord(byId, ids) == [w \in Word |-> {id \in ids : w \in Indexable(byId[id])}]

StoreFields == {"byId", "archived", "projects", "tokens"}

\* A store whose indexes say what its atoms say.
Filed(s) ==
  /\ DOMAIN s = StoreFields
  /\ Ids(s) \subseteq AtomId /\ IsFiniteSet(Ids(s)) /\ s.byId \in [Ids(s) -> Atom]
  /\ s.archived \subseteq Ids(s)
  /\ s.projects = InProject(s.byId, Ids(s)) /\ s.tokens = WithWord(s.byId, Ids(s))

\* An atom leaves the indexes, where it was there.
LEMMA Unindexed ==
  ASSUME NEW s, Filed(s), NEW id \in Ids(s), NEW t, t = RemoveFromIndexes(s, id, s.byId[id])
  PROVE  /\ DOMAIN t = StoreFields /\ t.byId = s.byId /\ t.archived = s.archived
         /\ t.projects = InProject(s.byId, Ids(s) \ {id}) /\ t.tokens = WithWord(s.byId, Ids(s) \ {id})
<1> DEFINE a == s.byId[id]
           ps == [s.projects EXCEPT ![a.project] = @ \ {id}]
           ws == [w \in Word |-> IF w \in Indexable(a) THEN s.tokens[w] \ {id} ELSE s.tokens[w]]
<1>1. a \in Atom /\ a.project \in AtomProject
  BY DEF Filed, Atom
<1>2. ps = InProject(s.byId, Ids(s) \ {id})
  <2>1. s.projects = InProject(s.byId, Ids(s))
    BY DEF Filed
  <2>2. ps = [p \in AtomProject |-> IF p = a.project THEN s.projects[p] \ {id} ELSE s.projects[p]]
    BY <1>1, <2>1 DEF InProject
  <2> HIDE DEF ps
  <2>3. \A p \in AtomProject : (IF p = a.project THEN s.projects[p] \ {id} ELSE s.projects[p])
                                = {i \in Ids(s) \ {id} : s.byId[i].project = p}
    BY <2>1 DEF InProject
  <2> QED
    BY <2>2, <2>3 DEF InProject
<1>3. ws = WithWord(s.byId, Ids(s) \ {id})
  BY <1>1 DEF Filed, WithWord
<1>4. DOMAIN t = StoreFields /\ t.byId = s.byId /\ t.archived = s.archived /\ t.projects = ps /\ t.tokens = ws
  <2>1. DOMAIN s = StoreFields
    BY DEF Filed
  <2> QED
    BY <2>1 DEF RemoveFromIndexes, StoreFields
<1> QED
  BY <1>2, <1>3, <1>4

\* An atom is added to indexes that do not have it.
LEMMA Indexed ==
  ASSUME NEW s, DOMAIN s = StoreFields, NEW ids, NEW id, NEW a \in Atom, s.byId[id] = a,
         s.projects = InProject(s.byId, ids \ {id}), s.tokens = WithWord(s.byId, ids \ {id}),
         NEW t, t = AddToIndexes(s, id, a)
  PROVE  /\ DOMAIN t = StoreFields /\ t.byId = s.byId /\ t.archived = s.archived
         /\ t.projects = InProject(s.byId, ids \cup {id}) /\ t.tokens = WithWord(s.byId, ids \cup {id})
<1> DEFINE ps == [s.projects EXCEPT ![a.project] = @ \cup {id}]
           ws == [w \in Word |-> IF w \in Indexable(a) THEN s.tokens[w] \cup {id} ELSE s.tokens[w]]
<1>1. a.project \in AtomProject
  BY DEF Atom
<1>2. ps = InProject(s.byId, ids \cup {id})
  <2>1. ps = [p \in AtomProject |-> IF p = a.project THEN s.projects[p] \cup {id} ELSE s.projects[p]]
    BY <1>1 DEF InProject
  <2> HIDE DEF ps
  <2>2. \A p \in AtomProject : (IF p = a.project THEN s.projects[p] \cup {id} ELSE s.projects[p])
                                = {i \in ids \cup {id} : s.byId[i].project = p}
    BY DEF InProject
  <2> QED
    BY <2>1, <2>2 DEF InProject
<1>3. ws = WithWord(s.byId, ids \cup {id})
  BY <1>1 DEF WithWord
<1>4. DOMAIN t = StoreFields /\ t.byId = s.byId /\ t.archived = s.archived /\ t.projects = ps /\ t.tokens = ws
  BY DEF AddToIndexes, StoreFields
<1> QED
  BY <1>2, <1>3, <1>4

\* An upsert files its atom and leaves the others as they are.
LEMMA Upserted ==
  ASSUME NEW s, Filed(s), NEW id \in AtomId, NEW a \in Atom,
         NEW t, t = UpsertSync(s, id, a)
  PROVE  /\ Filed(t)
         /\ Ids(t) = Ids(s) \cup {id} /\ t.archived = s.archived
         /\ \A i \in Ids(s) \cup {id} : t.byId[i] = IF i = id THEN a ELSE s.byId[i]
<1> DEFINE n == [i \in Ids(s) \cup {id} |-> IF i = id THEN a ELSE s.byId[i]]
           c == IF id \in Ids(s) THEN RemoveFromIndexes(s, id, s.byId[id]) ELSE s
           d == [c EXCEPT !.byId = n]
           P == InProject(s.byId, Ids(s) \ {id})
           W == WithWord(s.byId, Ids(s) \ {id})
<1>1. DOMAIN c = StoreFields /\ c.byId = s.byId /\ c.archived = s.archived /\ c.projects = P /\ c.tokens = W
  <2>1. CASE id \in Ids(s)
    BY <2>1, Unindexed
  <2>2. CASE id \notin Ids(s)
    <3>1. Ids(s) \ {id} = Ids(s)
      BY <2>2
    <3> QED
      BY <2>2, <3>1 DEF Filed
  <2> QED
    BY <2>1, <2>2
<1>2. P = InProject(n, Ids(s) \ {id}) /\ W = WithWord(n, Ids(s) \ {id})
  BY DEF InProject, WithWord
<1>3. n[id] = a /\ n \in [Ids(s) \cup {id} -> Atom] /\ DOMAIN n = Ids(s) \cup {id}
  BY DEF Filed
<1>4. t = AddToIndexes(d, id, a)
  BY DEF UpsertSync
<1>5. IsFiniteSet(Ids(s) \cup {id}) /\ Ids(s) \cup {id} \subseteq AtomId /\ s.archived \subseteq Ids(s) \cup {id}
  BY FS_AddElement DEF Filed
<1> HIDE DEF n, c, P, W
<1>6. DOMAIN d = StoreFields /\ d.byId = n /\ d.archived = s.archived /\ d.projects = P /\ d.tokens = W
  BY <1>1 DEF StoreFields
<1> HIDE DEF d
<1>7. /\ DOMAIN t = StoreFields /\ t.byId = d.byId /\ t.archived = d.archived
      /\ t.projects = InProject(d.byId, Ids(s) \cup {id}) /\ t.tokens = WithWord(d.byId, Ids(s) \cup {id})
  <2>1. d.byId[id] = a /\ d.projects = InProject(d.byId, Ids(s) \ {id}) /\ d.tokens = WithWord(d.byId, Ids(s) \ {id})
    BY <1>2, <1>3, <1>6
  <2> QED
    BY <1>4, <1>6, <2>1, Indexed
<1>8. Ids(t) = Ids(s) \cup {id} /\ t.byId = n
  BY <1>3, <1>6, <1>7 DEF Ids
<1>9. Filed(t)
  BY <1>3, <1>5, <1>6, <1>7, <1>8 DEF Filed
<1> QED
  BY <1>6, <1>7, <1>8, <1>9 DEF n

\* Archiving and restoring change no index.
LEMMA Shelved ==
  ASSUME NEW s, Filed(s), NEW A, A \subseteq Ids(s), NEW t, t = [s EXCEPT !.archived = A]
  PROVE  Filed(t) /\ Ids(t) = Ids(s) /\ t.byId = s.byId /\ t.archived = A
<1>1. /\ DOMAIN t = StoreFields /\ t.byId = s.byId /\ t.archived = A
      /\ t.projects = s.projects /\ t.tokens = s.tokens
  BY DEF Filed, StoreFields
<1>2. Ids(t) = Ids(s)
  BY <1>1 DEF Ids
<1> QED
  BY <1>1, <1>2 DEF Filed

\* A deletion leaves nothing of the atom.
LEMMA Removed ==
  ASSUME NEW s, Filed(s), NEW id \in Ids(s), NEW t, t = DeleteSync(s, id)
  PROVE  Filed(t)
<1> DEFINE n == [i \in Ids(s) \ {id} |-> s.byId[i]]
           c == RemoveFromIndexes(s, id, s.byId[id])
           P == InProject(s.byId, Ids(s) \ {id})
           W == WithWord(s.byId, Ids(s) \ {id})
<1>1. t = [c EXCEPT !.byId = n, !.archived = @ \ {id}]
  BY DEF DeleteSync
<1>2. P = InProject(n, Ids(s) \ {id}) /\ W = WithWord(n, Ids(s) \ {id})
  BY DEF InProject, WithWord
<1>3. n \in [Ids(s) \ {id} -> Atom] /\ DOMAIN n = Ids(s) \ {id}
  BY DEF Filed
<1>4. DOMAIN c = StoreFields /\ c.byId = s.byId /\ c.archived = s.archived /\ c.projects = P /\ c.tokens = W
  BY Unindexed
<1>5. IsFiniteSet(Ids(s) \ {id}) /\ Ids(s) \ {id} \subseteq AtomId /\ s.archived \ {id} \subseteq Ids(s) \ {id}
  BY FS_RemoveElement DEF Filed
<1> HIDE DEF n, c, P, W
<1>6. DOMAIN t = StoreFields /\ t.byId = n /\ t.archived = s.archived \ {id} /\ t.projects = P /\ t.tokens = W
  BY <1>1, <1>4 DEF StoreFields
<1>7. Ids(t) = Ids(s) \ {id}
  BY <1>3, <1>6 DEF Ids
<1> QED
  BY <1>2, <1>3, <1>5, <1>6, <1>7 DEF Filed

-----------------------------------------------------------------------------
\* The atoms a query may find, and those its words name.
Inside(s, project) == {id \in Ids(s) : project = {} \/ s.byId[id].project \in project}

Named(s, project, words) == {id \in Inside(s, project) : Indexable(s.byId[id]) \cap words # {}}

\* The indexes lead to them.
LEMMA Reached ==
  ASSUME NEW s, Filed(s), NEW project \in SUBSET AtomProject, NEW words \in SUBSET Word
  PROVE  /\ IdsByProject(s, project) = Inside(s, project)
         /\ Inside(s, project) \cap UNION {s.tokens[w] : w \in words} = Named(s, project, words)
<1> DEFINE inside == {id \in Ids(s) : project = {} \/ s.byId[id].project \in project}
<1>1. \A p \in project : s.projects[p] = {id \in Ids(s) : s.byId[id].project = p}
  BY DEF Filed, InProject
<1>2. IdsByProject(s, project) = inside
  <2>1. CASE project = {}
    BY <2>1 DEF IdsByProject
  <2>2. CASE project # {}
    <3>1. IdsByProject(s, project) = UNION {s.projects[p] : p \in project}
      BY <2>2 DEF IdsByProject
    <3>2. UNION {s.projects[p] : p \in project} = inside
      BY <1>1, <2>2
    <3> QED
      BY <3>1, <3>2
  <2> QED
    BY <2>1, <2>2
<1>3. \A w \in words : s.tokens[w] = {id \in Ids(s) : w \in Indexable(s.byId[id])}
  BY DEF Filed, WithWord
<1>4. inside \cap UNION {s.tokens[w] : w \in words} = {id \in inside : Indexable(s.byId[id]) \cap words # {}}
  BY <1>3
<1> QED
  BY <1>2, <1>4 DEF Inside, Named

\* A search of a store with exact indexes finds what it should.
LEMMA Searched ==
  ASSUME AtomStoreAssumption, Filed(store), NEW words \in SUBSET Word, NEW project \in SUBSET AtomProject,
         NEW archived \in BOOLEAN, SearchAtoms(words, project, archived)
  PROVE  LookupSound' /\ lookup'.call = "search"
<1> DEFINE inside == {id \in Ids(store) : project = {} \/ store.byId[id].project \in project}
           named == {id \in inside : Indexable(store.byId[id]) \cap words # {}}
           ranked == IF named = {} THEN inside ELSE named
           C == Candidates(store, words, project, archived)
<1>1. C = {id \in ranked : archived \/ id \notin store.archived}
  <2>1. IdsByProject(store, project) = inside /\ inside \cap UNION {store.tokens[w] : w \in words} = named
    <3>1. /\ IdsByProject(store, project) = Inside(store, project)
          /\ Inside(store, project) \cap UNION {store.tokens[w] : w \in words} = Named(store, project, words)
      BY Reached
    <3> QED
      BY <3>1 DEF Inside, Named
  <2>2. C = {id \in ranked \cap Ids(store) : archived \/ id \notin store.archived}
    BY <2>1 DEF Candidates
  <2>3. ranked \cap Ids(store) = ranked
    OBVIOUS
  <2> QED
    BY <2>2, <2>3
<1>2. ranked \subseteq inside /\ inside \subseteq Ids(store)
  OBVIOUS
<1>3. IsFiniteSet(C) /\ Cardinality(C) \in Nat
  <2>1. C \subseteq Ids(store)
    BY <1>1, <1>2
  <2> QED
    BY <2>1, FS_Subset, FS_CardinalityType DEF Filed
<1>4. PICK top \in TopOf(C, SearchSize) :
         lookup' = [call |-> "search", words |-> words, project |-> project, archived |-> archived,
                    saw |-> store, found |-> top]
  BY DEF SearchAtoms
<1>5. top \subseteq C /\ (top = {} => C = {})
  <2>1. top \subseteq C /\ Cardinality(top) = IF Cardinality(C) < SearchSize THEN Cardinality(C) ELSE SearchSize
    BY <1>4 DEF TopOf
  <2>2. ASSUME top = {} PROVE C = {}
    <3>1. Cardinality(top) = 0
      BY <2>2, FS_EmptySet
    <3>2. Cardinality(C) = 0
      BY <1>3, <2>1, <3>1 DEF AtomStoreAssumption
    <3> QED
      BY <1>3, <3>2, FS_EmptySet
  <2> QED
    BY <2>1, <2>2
<1> HIDE DEF C
<1>6. /\ top \subseteq inside
      /\ ~archived => top \cap store.archived = {}
      /\ top = {} => ranked \subseteq (IF archived THEN {} ELSE store.archived)
  <2> HIDE DEF inside, ranked
  <2> QED
    BY <1>1, <1>2, <1>5
<1>7. /\ lookup'.call = "search" /\ lookup'.words = words /\ lookup'.project = project
      /\ lookup'.archived = archived /\ lookup'.saw = store /\ lookup'.found = top
  BY <1>4
<1> QED
  BY <1>6, <1>7 DEF LookupSound

-----------------------------------------------------------------------------
\* A set of numbers has a least one.
LEMMA FirstOf ==
  ASSUME NEW T, T \subseteq Nat, T # {}
  PROVE  \E i \in T : \A j \in T : i <= j
<1> DEFINE R == {ss \in Nat \X Nat : ss[1] < ss[2]}
<1>1. OpToRel(<, Nat) = R
  BY Zenon DEF OpToRel
<1>2. IsWellFoundedOn(R, Nat)
  BY <1>1, NatLessThanWellFounded, Zenon
<1> HIDE DEF R
<1>3. PICK i \in T : \A j \in T : ~(<<j, i>> \in R)
  BY <1>2, WFMin
<1>4. ASSUME NEW j \in T PROVE i <= j
  <2>1. <<j, i>> \in Nat \X Nat /\ <<j, i>>[1] = j /\ <<j, i>>[2] = i
    OBVIOUS
  <2>2. ~(j < i)
    <3>1. ASSUME j < i PROVE <<j, i>> \in R
      BY <2>1, <3>1 DEF R
    <3> QED
      BY <1>3, <3>1
  <2> QED
    BY <2>1, <2>2
<1> QED
  BY <1>4

\* The atoms of a consolidation, entry after entry.
Absorbing(entries) ==
  CHOOSE out : out = [n \in 0 .. Len(entries) |-> IF n = 0 THEN <<>> ELSE Absorb(out[n - 1], entries[n])]

\* The store, entry after entry.
Upserting(s, entries) ==
  CHOOSE after : after = [n \in 0 .. Len(entries) |->
    IF n = 0 THEN s ELSE UpsertSync(after[n - 1], entries[n][1], entries[n][2])]

\* The two recursions are named.
LEMMA FoldForms ==
  ASSUME NEW s, NEW entries
  PROVE  /\ ConsolidateMemories(entries) = Absorbing(entries)[Len(entries)]
         /\ UpsertMany(s, entries) = Upserting(s, entries)[Len(entries)]
BY Zenon DEF ConsolidateMemories, Absorbing, UpsertMany, Upserting

\* The first of these exists,
LEMMA AbsorbingExists ==
  ASSUME NEW entries, Len(entries) \in Nat
  PROVE  Absorbing(entries) = [n \in 0 .. Len(entries) |->
           IF n = 0 THEN <<>> ELSE Absorb(Absorbing(entries)[n - 1], entries[n])]
<1> DEFINE IsFold(f, k) ==
             f = [n \in 0 .. k |-> IF n = 0 THEN <<>> ELSE Absorb(f[n - 1], entries[n])]
           T == {k \in Nat : ~\E f : IsFold(f, k)}
<1>1. T = {}
  <2>1. SUFFICES ASSUME T # {} PROVE FALSE
    OBVIOUS
  <2>2. PICK k \in T : \A j \in T : k <= j
    BY <2>1, FirstOf
  <2>3. k # 0
    <3>1. IsFold([n \in 0 .. 0 |-> <<>>], 0)
      OBVIOUS
    <3> QED
      BY <3>1
  <2>4. k - 1 \in Nat /\ k - 1 \notin T
    <3>1. k \in Nat
      BY <2>2
    <3> HIDE DEF T
    <3> QED
      BY <2>2, <2>3, <3>1
  <2>5. PICK g : IsFold(g, k - 1)
    BY <2>4
  <2> DEFINE f == [n \in 0 .. k |-> IF n = 0 THEN <<>> ELSE Absorb(g[n - 1], entries[n])]
  <2>6. \A n \in 0 .. k : n # 0 => g[n - 1] = f[n - 1]
    <3>1. ASSUME NEW n \in 0 .. k, n # 0 PROVE g[n - 1] = f[n - 1]
      <4>1. n - 1 \in 0 .. (k - 1) /\ n - 1 \in 0 .. k
        BY <2>2, <3>1
      <4>2. f[n - 1] = IF n - 1 = 0 THEN <<>> ELSE Absorb(g[n - 1 - 1], entries[n - 1])
        BY <4>1
      <4>3. g[n - 1] = IF n - 1 = 0 THEN <<>> ELSE Absorb(g[n - 1 - 1], entries[n - 1])
        BY <2>5, <4>1
      <4> QED
        BY <4>2, <4>3
    <3> QED
      BY <3>1
  <2>7. IsFold(f, k)
    BY <2>6
  <2> QED
    BY <2>2, <2>7
<1>2. PICK f : IsFold(f, Len(entries))
  BY <1>1
<1> QED
  BY <1>2, Zenon DEF Absorbing

\* and the second.
LEMMA UpsertingExists ==
  ASSUME NEW s, NEW entries, Len(entries) \in Nat
  PROVE  Upserting(s, entries) = [n \in 0 .. Len(entries) |->
           IF n = 0 THEN s ELSE UpsertSync(Upserting(s, entries)[n - 1], entries[n][1], entries[n][2])]
<1> DEFINE IsFold(f, k) ==
             f = [n \in 0 .. k |-> IF n = 0 THEN s ELSE UpsertSync(f[n - 1], entries[n][1], entries[n][2])]
           T == {k \in Nat : ~\E f : IsFold(f, k)}
<1>1. T = {}
  <2>1. SUFFICES ASSUME T # {} PROVE FALSE
    OBVIOUS
  <2>2. PICK k \in T : \A j \in T : k <= j
    BY <2>1, FirstOf
  <2>3. k # 0
    <3>1. IsFold([n \in 0 .. 0 |-> s], 0)
      OBVIOUS
    <3> QED
      BY <3>1
  <2>4. k - 1 \in Nat /\ k - 1 \notin T
    <3>1. k \in Nat
      BY <2>2
    <3> HIDE DEF T
    <3> QED
      BY <2>2, <2>3, <3>1
  <2>5. PICK g : IsFold(g, k - 1)
    BY <2>4
  <2> DEFINE f == [n \in 0 .. k |-> IF n = 0 THEN s ELSE UpsertSync(g[n - 1], entries[n][1], entries[n][2])]
  <2>6. \A n \in 0 .. k : n # 0 => g[n - 1] = f[n - 1]
    <3>1. ASSUME NEW n \in 0 .. k, n # 0 PROVE g[n - 1] = f[n - 1]
      <4>1. n - 1 \in 0 .. (k - 1) /\ n - 1 \in 0 .. k
        BY <2>2, <3>1
      <4>2. f[n - 1] = IF n - 1 = 0 THEN s ELSE UpsertSync(g[n - 1 - 1], entries[n - 1][1], entries[n - 1][2])
        BY <4>1
      <4>3. g[n - 1] = IF n - 1 = 0 THEN s ELSE UpsertSync(g[n - 1 - 1], entries[n - 1][1], entries[n - 1][2])
        BY <2>5, <4>1
      <4> QED
        BY <4>2, <4>3
    <3> QED
      BY <3>1
  <2>7. IsFold(f, k)
    BY <2>6
  <2> QED
    BY <2>2, <2>7
<1>2. PICK f : IsFold(f, Len(entries))
  BY <1>1
<1> QED
  BY <1>2, Zenon DEF Upserting

\* Entries of atoms, none of them twice.
Entries(es) ==
  /\ es \in Seq(AtomId \X Atom)
  /\ \A i, j \in 1 .. Len(es) : es[i][1] = es[j][1] => i = j

\* An atom covers another: it keeps the project, the kind and the tags.
Covers(a, b) == a.project = b.project /\ a.kind = b.kind /\ b.tags \subseteq a.tags

\* What is kept of the first n entries: some of their ids, with an atom that covers
\* each of them.
Distilled(es, n, out) ==
  /\ Entries(out)
  /\ \A i \in 1 .. Len(out) : \E k \in 1 .. n :
       out[i][1] = es[k][1] /\ out[i][2].project = es[k][2].project /\ out[i][2].kind = es[k][2].kind
  /\ \A k \in 1 .. n : \E i \in 1 .. Len(out) : Covers(out[i][2], es[k][2])

\* The merged atom covers both.
LEMMA MergeCovers ==
  ASSUME NEW a \in Atom, NEW b \in Atom, Alike(a, b)
  PROVE  /\ MergeAtoms(a, b) \in Atom
         /\ Covers(MergeAtoms(a, b), a) /\ Covers(MergeAtoms(a, b), b)
<1> DEFINE l == IF b.size > a.size THEN b ELSE a
           m == [a EXCEPT !.title = l.title, !.summary = l.summary, !.size = l.size, !.tags = a.tags \cup b.tags]
<1>1. MergeAtoms(a, b) = m
  BY DEF MergeAtoms
<1>2. l \in Atom
  OBVIOUS
<1>3. m \in Atom /\ m.project = a.project /\ m.kind = a.kind /\ m.tags = a.tags \cup b.tags
  <2> HIDE DEF l
  <2> QED
    BY <1>2 DEF Atom
<1>4. a.project = b.project /\ a.kind = b.kind
  BY DEF Alike
<1> QED
  BY <1>1, <1>3, <1>4 DEF Covers

\* One more entry is absorbed.
LEMMA AbsorbHolds ==
  ASSUME NEW es, Entries(es), NEW n \in Nat, n + 1 \in 1 .. Len(es), NEW out, Distilled(es, n, out)
  PROVE  Distilled(es, n + 1, Absorb(out, es[n + 1]))
<1> DEFINE e == es[n + 1]
           alike == {i \in DOMAIN out : Alike(out[i][2], e[2])}
           first == CHOOSE i \in alike : \A j \in alike : i <= j
<1>1. out \in Seq(AtomId \X Atom) /\ Len(out) \in Nat /\ DOMAIN out = 1 .. Len(out)
  BY DEF Distilled, Entries
<1>2. e \in AtomId \X Atom /\ e[1] \in AtomId /\ e[2] \in Atom
  BY DEF Entries
<1>3. \A k \in 1 .. n : k \in 1 .. n + 1 /\ k \in 1 .. Len(es) /\ k # n + 1
  BY DEF Entries
<1>4. n + 1 \in 1 .. n + 1 /\ \A k \in 1 .. n + 1 : k \in 1 .. n \/ k = n + 1
  OBVIOUS
<1>5. \A i \in 1 .. Len(out) : out[i][1] # e[1]
  BY <1>3 DEF Distilled, Entries
<1>6. \A i \in 1 .. Len(out) : out[i] \in AtomId \X Atom /\ out[i][1] \in AtomId /\ out[i][2] \in Atom
  BY <1>1
<1>7. CASE alike = {}
  <2> DEFINE o == Append(out, e)
  <2>1. Absorb(out, e) = o
    BY <1>7 DEF Absorb
  <2>2. /\ o \in Seq(AtomId \X Atom) /\ Len(o) = Len(out) + 1
        /\ \A i \in 1 .. Len(out) : o[i] = out[i] /\ i \in 1 .. Len(o)
        /\ o[Len(out) + 1] = e /\ Len(out) + 1 \in 1 .. Len(o)
        /\ \A i \in 1 .. Len(o) : i \in 1 .. Len(out) \/ i = Len(out) + 1
    <3> HIDE DEF e
    <3>1. o \in Seq(AtomId \X Atom) /\ Len(o) = Len(out) + 1
      BY <1>1, <1>2
    <3>2. (\A i \in 1 .. Len(out) : o[i] = out[i]) /\ o[Len(out) + 1] = e
      BY <1>1, <1>2
    <3> HIDE DEF o
    <3> QED
      BY <1>1, <3>1, <3>2
  <2> HIDE DEF o, e
  <2>3. Entries(o)
    <3>1. \A i, j \in 1 .. Len(out) : out[i][1] = out[j][1] => i = j
      BY DEF Distilled, Entries
    <3> QED
      BY <1>5, <2>2, <3>1 DEF Entries
  <2>4. \A i \in 1 .. Len(o) : \E k \in 1 .. n + 1 :
          o[i][1] = es[k][1] /\ o[i][2].project = es[k][2].project /\ o[i][2].kind = es[k][2].kind
    <3>1. ASSUME NEW i \in 1 .. Len(out)
          PROVE  \E k \in 1 .. n + 1 :
                   o[i][1] = es[k][1] /\ o[i][2].project = es[k][2].project /\ o[i][2].kind = es[k][2].kind
      <4>1. PICK k \in 1 .. n :
              out[i][1] = es[k][1] /\ out[i][2].project = es[k][2].project /\ out[i][2].kind = es[k][2].kind
        BY DEF Distilled
      <4>2. o[i] = out[i] /\ k \in 1 .. n + 1
        BY <1>3, <2>2
      <4> QED
        BY <4>1, <4>2
    <3>2. o[Len(out) + 1] = es[n + 1]
      BY <2>2 DEF e
    <3> QED
      BY <1>4, <2>2, <3>1, <3>2
  <2>5. \A k \in 1 .. n + 1 : \E i \in 1 .. Len(o) : Covers(o[i][2], es[k][2])
    <3>1. ASSUME NEW k \in 1 .. n PROVE \E i \in 1 .. Len(o) : Covers(o[i][2], es[k][2])
      BY <2>2 DEF Distilled
    <3>2. Covers(o[Len(out) + 1][2], es[n + 1][2])
      BY <2>2 DEF e, Covers
    <3> QED
      BY <1>4, <2>2, <3>1, <3>2
  <2> QED
    BY <2>1, <2>3, <2>4, <2>5 DEF Distilled, e
<1>8. CASE alike # {}
  <2>1. first \in alike
    <3>1. alike \subseteq Nat
      BY <1>1
    <3>2. \E i \in alike : \A j \in alike : i <= j
      <4> HIDE DEF alike
      <4> QED
        BY <1>8, <3>1, FirstOf
    <3> HIDE DEF alike
    <3> QED
      BY <3>2
  <2> DEFINE m == MergeAtoms(out[first][2], e[2])
             o == [out EXCEPT ![first] = <<out[first][1], m>>]
  <2>2. Absorb(out, e) = o
    BY <1>8 DEF Absorb
  <2>3. first \in 1 .. Len(out) /\ Alike(out[first][2], e[2])
    BY <1>1, <2>1
  <2> HIDE DEF first
  <2>4. m \in Atom /\ Covers(m, out[first][2]) /\ Covers(m, e[2])
    BY <1>2, <1>6, <2>3, MergeCovers
  <2> HIDE DEF m, e
  <2>5. /\ o \in Seq(AtomId \X Atom) /\ Len(o) = Len(out)
        /\ \A i \in 1 .. Len(out) : i # first => o[i] = out[i]
        /\ o[first][1] = out[first][1] /\ o[first][2] = m
    BY <1>1, <1>6, <2>3, <2>4
  <2> HIDE DEF o
  <2>6. \A i \in 1 .. Len(out) : o[i][1] = out[i][1] /\ Covers(o[i][2], out[i][2])
    BY <2>4, <2>5 DEF Covers
  <2>7. Entries(o)
    <3>1. \A i, j \in 1 .. Len(out) : out[i][1] = out[j][1] => i = j
      BY DEF Distilled, Entries
    <3> QED
      BY <2>5, <2>6, <3>1 DEF Entries
  <2>8. \A i \in 1 .. Len(o) : \E k \in 1 .. n + 1 :
          o[i][1] = es[k][1] /\ o[i][2].project = es[k][2].project /\ o[i][2].kind = es[k][2].kind
    <3>1. \A i \in 1 .. Len(out) : \E k \in 1 .. n :
            out[i][1] = es[k][1] /\ out[i][2].project = es[k][2].project /\ out[i][2].kind = es[k][2].kind
      BY DEF Distilled
    <3> QED
      BY <1>3, <2>5, <2>6, <3>1 DEF Covers
  <2>9. \A k \in 1 .. n + 1 : \E i \in 1 .. Len(o) : Covers(o[i][2], es[k][2])
    <3>1. ASSUME NEW k \in 1 .. n PROVE \E i \in 1 .. Len(o) : Covers(o[i][2], es[k][2])
      <4>1. PICK i \in 1 .. Len(out) : Covers(out[i][2], es[k][2])
        BY DEF Distilled
      <4> QED
        BY <2>5, <2>6, <4>1 DEF Covers
    <3>2. Covers(o[first][2], es[n + 1][2])
      BY <2>4, <2>5 DEF e
    <3> QED
      BY <1>4, <2>3, <2>5, <3>1, <3>2
  <2> QED
    BY <2>2, <2>7, <2>8, <2>9 DEF Distilled, e
<1> QED
  BY <1>7, <1>8

\* All entries are absorbed.
LEMMA AllAbsorbed ==
  ASSUME NEW es, Entries(es)
  PROVE  Distilled(es, Len(es), ConsolidateMemories(es))
<1> DEFINE G == Absorbing(es)
           T == {n \in Nat : n \in 0 .. Len(es) /\ ~Distilled(es, n, G[n])}
<1>1. Len(es) \in Nat
  BY DEF Entries
<1>2. G = [n \in 0 .. Len(es) |-> IF n = 0 THEN <<>> ELSE Absorb(G[n - 1], es[n])]
  BY <1>1, AbsorbingExists
<1>3. ConsolidateMemories(es) = G[Len(es)]
  BY FoldForms
<1> HIDE DEF G
<1>4. Distilled(es, 0, G[0])
  <2>1. G[0] = <<>>
    BY <1>1, <1>2
  <2>2. <<>> \in Seq(AtomId \X Atom) /\ Len(<<>>) = 0
    OBVIOUS
  <2> QED
    BY <2>1, <2>2 DEF Distilled, Entries
<1>5. T = {}
  <2>1. SUFFICES ASSUME T # {} PROVE FALSE
    OBVIOUS
  <2>2. PICK n \in T : \A m \in T : n <= m
    BY <2>1, FirstOf
  <2>3. n # 0 /\ n \in Nat /\ n \in 0 .. Len(es)
    BY <1>4, <2>2
  <2>4. n - 1 \in Nat /\ n - 1 \in 0 .. Len(es) /\ n \in 1 .. Len(es) /\ (n - 1) + 1 = n /\ ~(n <= n - 1)
    BY <1>1, <2>3
  <2>5. Distilled(es, n - 1, G[n - 1])
    BY <2>2, <2>4
  <2>6. Distilled(es, (n - 1) + 1, Absorb(G[n - 1], es[(n - 1) + 1]))
    BY <2>4, <2>5, AbsorbHolds
  <2>7. G[n] = Absorb(G[n - 1], es[n])
    BY <1>2, <2>3
  <2>8. Distilled(es, n, G[n])
    BY <2>4, <2>6, <2>7
  <2> QED
    BY <2>2, <2>8
<1> QED
  BY <1>1, <1>3, <1>5

\* The store after the first n of the entries is upserted.
Filing(s, es, n, t) ==
  /\ Filed(t) /\ Ids(t) = Ids(s) /\ t.archived = s.archived
  /\ \A i \in 1 .. n : t.byId[es[i][1]] = es[i][2]
  /\ \A id \in Ids(s) : (\A i \in 1 .. n : es[i][1] # id) => t.byId[id] = s.byId[id]

\* All entries are filed, and no other atom changes.
LEMMA AllFiled ==
  ASSUME NEW s, Filed(s), NEW es, Entries(es), \A i \in 1 .. Len(es) : es[i][1] \in Ids(s)
  PROVE  Filing(s, es, Len(es), UpsertMany(s, es))
<1> DEFINE G == Upserting(s, es)
           T == {n \in Nat : n \in 0 .. Len(es) /\ ~Filing(s, es, n, G[n])}
<1>1. Len(es) \in Nat
  BY DEF Entries
<1>2. G = [n \in 0 .. Len(es) |-> IF n = 0 THEN s ELSE UpsertSync(G[n - 1], es[n][1], es[n][2])]
  BY <1>1, UpsertingExists
<1>3. UpsertMany(s, es) = G[Len(es)]
  BY FoldForms
<1> HIDE DEF G
<1>4. Filing(s, es, 0, G[0])
  <2>1. G[0] = s
    BY <1>1, <1>2
  <2> QED
    BY <2>1 DEF Filing
<1>5. T = {}
  <2>1. SUFFICES ASSUME T # {} PROVE FALSE
    OBVIOUS
  <2>2. PICK n \in T : \A m \in T : n <= m
    BY <2>1, FirstOf
  <2>3. n # 0 /\ n \in Nat /\ n \in 0 .. Len(es)
    BY <1>4, <2>2
  <2>4. n - 1 \in Nat /\ n - 1 \in 0 .. Len(es) /\ n \in 1 .. Len(es) /\ ~(n <= n - 1)
    BY <1>1, <2>3
  <2>5. Filing(s, es, n - 1, G[n - 1])
    BY <2>2, <2>4
  <2>6. G[n] = UpsertSync(G[n - 1], es[n][1], es[n][2])
    BY <1>2, <2>3
  <2> DEFINE p == G[n - 1]
             t == G[n]
             id == es[n][1]
             a == es[n][2]
  <2>7. id \in AtomId /\ a \in Atom /\ id \in Ids(s)
    BY <2>4 DEF Entries
  <2>8. \A i \in 1 .. n - 1 : es[i][1] # id /\ es[i][1] \in Ids(s) /\ i \in 1 .. n
    <3>1. ASSUME NEW i \in 1 .. n - 1 PROVE i \in 1 .. Len(es) /\ i # n /\ i \in 1 .. n
      BY <1>1, <2>4
    <3> QED
      BY <2>4, <3>1 DEF Entries
  <2>9. \A i \in 1 .. n : i \in 1 .. n - 1 \/ i = n
    BY <2>4
  <2>10. n \in 1 .. n
    BY <2>4
  <2> HIDE DEF id, a
  <2>11. /\ Filed(t) /\ Ids(t) = Ids(p) \cup {id} /\ t.archived = p.archived
         /\ \A i \in Ids(p) \cup {id} : t.byId[i] = IF i = id THEN a ELSE p.byId[i]
    <3>1. Filed(p) /\ t = UpsertSync(p, id, a)
      BY <2>5, <2>6 DEF Filing, id, a
    <3> HIDE DEF p, t
    <3> QED
      BY <2>7, <3>1, Upserted
  <2>12. Ids(p) = Ids(s) /\ p.archived = s.archived
    BY <2>5 DEF Filing
  <2> HIDE DEF p, t
  <2>13. Ids(t) = Ids(s) /\ t.archived = s.archived
    BY <2>7, <2>11, <2>12
  <2>14. \A x \in Ids(s) : t.byId[x] = IF x = id THEN a ELSE p.byId[x]
    BY <2>11, <2>12
  <2>15. \A i \in 1 .. n : t.byId[es[i][1]] = es[i][2]
    <3>1. ASSUME NEW i \in 1 .. n - 1 PROVE t.byId[es[i][1]] = es[i][2]
      <4>1. p.byId[es[i][1]] = es[i][2]
        BY <2>5 DEF Filing, p
      <4> QED
        BY <2>8, <2>14, <4>1
    <3>2. t.byId[es[n][1]] = es[n][2]
      BY <2>7, <2>14 DEF id, a
    <3> QED
      BY <2>9, <3>1, <3>2
  <2>16. ASSUME NEW x \in Ids(s), \A i \in 1 .. n : es[i][1] # x PROVE t.byId[x] = s.byId[x]
    <3>1. x # id /\ \A i \in 1 .. n - 1 : es[i][1] # x
      BY <2>8, <2>10, <2>16 DEF id
    <3>2. p.byId[x] = s.byId[x]
      BY <2>5, <3>1 DEF Filing, p
    <3> QED
      BY <2>14, <3>1, <3>2
  <2>17. Filing(s, es, n, t)
    BY <2>11, <2>13, <2>15, <2>16 DEF Filing
  <2> QED
    BY <2>2, <2>17 DEF t
<1> QED
  BY <1>1, <1>3, <1>5

\* An order of a finite set lists every member once.
LEMMA Ordered ==
  ASSUME NEW S, IsFiniteSet(S), NEW f \in SetToSeqs(S)
  PROVE  /\ f \in Seq(S) /\ Len(f) \in Nat /\ DOMAIN f = 1 .. Len(f)
         /\ \A i, j \in 1 .. Len(f) : f[i] = f[j] => i = j
         /\ \A x \in S : \E i \in 1 .. Len(f) : f[i] = x
<1> DEFINE D == 1 .. Cardinality(S)
<1>1. Cardinality(S) \in Nat
  BY FS_CardinalityType
<1>2. f \in [D -> S] /\ \A i, j \in D : i # j => f[i] # f[j]
  BY DEF SetToSeqs
<1>3. f \in Seq(S) /\ Len(f) = Cardinality(S)
  BY <1>1, <1>2
<1>4. f \in Injection(D, S)
  BY <1>2 DEF Injection, IsInjective
<1>5. Cardinality(D) = Cardinality(S)
  BY <1>1, FS_Interval
<1>6. f \in Surjection(D, S)
  <2> HIDE DEF D
  <2> QED
    BY <1>4, <1>5, FS_Injection
<1> QED
  BY <1>1, <1>2, <1>3, <1>6 DEF Surjection

\* What a consolidation of the atoms S in the order base leaves.
Consolidates(s, S, t) ==
  /\ Filed(t) /\ Ids(t) = Ids(s) /\ s.archived \subseteq t.archived
  /\ \A id \in S : \E kept \in S \ t.archived : Covers(t.byId[kept], s.byId[id])
  /\ \A id \in Ids(s) \ S : t.byId[id] = s.byId[id] /\ (id \in t.archived <=> id \in s.archived)

\* A consolidation, in whatever order, leaves each of its atoms covered by one still in use.
LEMMA ConsolidatedStore ==
  ASSUME NEW s, Filed(s), NEW S, S \subseteq Ids(s) \ s.archived, NEW base \in SetToSeqs(S)
  PROVE  Consolidates(s, S, Consolidated(s, base))
<1> DEFINE es == [i \in DOMAIN base |-> <<base[i], s.byId[base[i]]>>]
           out == ConsolidateMemories(es)
           stable == {out[i][1] : i \in DOMAIN out}
           merged == {base[i] : i \in DOMAIN base} \ stable
           u == [s EXCEPT !.archived = @ \cup merged]
           t == UpsertMany(u, out)
<1>1. Consolidated(s, base) = t
  BY DEF Consolidated
<1>2. IsFiniteSet(S) /\ S \subseteq AtomId /\ S \subseteq Ids(s)
  <2>1. S \in SUBSET Ids(s) /\ IsFiniteSet(Ids(s)) /\ Ids(s) \subseteq AtomId
    BY DEF Filed
  <2>2. IsFiniteSet(S)
    BY <2>1, FS_Subset
  <2> QED
    BY <2>1, <2>2
<1>3. /\ base \in Seq(S) /\ Len(base) \in Nat /\ DOMAIN base = 1 .. Len(base)
      /\ \A i, j \in 1 .. Len(base) : base[i] = base[j] => i = j
      /\ \A x \in S : \E i \in 1 .. Len(base) : base[i] = x
  BY <1>2, Ordered
<1>4. /\ es \in Seq(AtomId \X Atom) /\ Len(es) = Len(base)
      /\ \A i \in 1 .. Len(base) : base[i] \in S /\ es[i][1] = base[i] /\ es[i][2] = s.byId[base[i]]
  <2>1. \A i \in 1 .. Len(base) : base[i] \in S
    BY <1>3
  <2>2. \A x \in S : s.byId[x] \in Atom
    BY <1>2 DEF Filed
  <2>3. es = [i \in 1 .. Len(base) |-> <<base[i], s.byId[base[i]]>>]
    BY <1>3
  <2> HIDE DEF es
  <2>4. es \in [1 .. Len(base) -> AtomId \X Atom]
    BY <1>2, <2>1, <2>2, <2>3
  <2>5. es \in Seq(AtomId \X Atom) /\ Len(es) = Len(base)
    BY <1>3, <2>3, <2>4
  <2> QED
    BY <2>1, <2>3, <2>5
<1> HIDE DEF es
<1>5. Distilled(es, Len(base), out)
  <2>1. Entries(es)
    BY <1>3, <1>4 DEF Entries
  <2> QED
    BY <1>4, <2>1, AllAbsorbed
<1> HIDE DEF out
<1>6. /\ Entries(out) /\ DOMAIN out = 1 .. Len(out)
      /\ \A i \in 1 .. Len(out) : out[i][1] \in S /\ out[i][1] \in stable
  <2>1. Entries(out) /\ out \in Seq(AtomId \X Atom)
    BY <1>5 DEF Distilled, Entries
  <2>2. DOMAIN out = 1 .. Len(out)
    BY <2>1
  <2>3. ASSUME NEW i \in 1 .. Len(out) PROVE out[i][1] \in S
    <3>1. PICK k \in 1 .. Len(base) : out[i][1] = es[k][1]
      BY <1>5 DEF Distilled
    <3> QED
      BY <1>4, <3>1
  <2> QED
    BY <2>1, <2>2, <2>3
<1>7. merged \subseteq S /\ \A i \in 1 .. Len(out) : out[i][1] \notin merged
  BY <1>3, <1>4, <1>6
<1> HIDE DEF stable, merged
<1>8. Filed(u) /\ Ids(u) = Ids(s) /\ u.byId = s.byId /\ u.archived = s.archived \cup merged
  <2> DEFINE A == s.archived \cup merged
  <2>1. A \subseteq Ids(s)
    BY <1>2, <1>7 DEF Filed
  <2>2. u = [s EXCEPT !.archived = A]
    OBVIOUS
  <2> HIDE DEF u, A
  <2>3. Filed(u) /\ Ids(u) = Ids(s) /\ u.byId = s.byId /\ u.archived = A
    BY <2>1, <2>2, Shelved
  <2> QED
    BY <2>3 DEF A
<1> HIDE DEF u
<1>9. Filing(u, out, Len(out), t)
  BY <1>2, <1>6, <1>8, AllFiled
<1> HIDE DEF t
<1>10. Filed(t) /\ Ids(t) = Ids(s) /\ t.archived = s.archived \cup merged
  BY <1>8, <1>9 DEF Filing
<1>11. ASSUME NEW id \in S PROVE \E kept \in S \ t.archived : Covers(t.byId[kept], s.byId[id])
  <2>1. PICK k \in 1 .. Len(base) : base[k] = id
    BY <1>3
  <2>2. PICK i \in 1 .. Len(out) : Covers(out[i][2], es[k][2])
    BY <1>5 DEF Distilled
  <2>3. es[k][2] = s.byId[id]
    BY <1>4, <2>1
  <2>4. t.byId[out[i][1]] = out[i][2]
    BY <1>9 DEF Filing
  <2>5. out[i][1] \in S \ t.archived
    BY <1>6, <1>7, <1>10
  <2> QED
    BY <2>2, <2>3, <2>4, <2>5
<1>12. ASSUME NEW id \in Ids(s) \ S
       PROVE  t.byId[id] = s.byId[id] /\ (id \in t.archived <=> id \in s.archived)
  <2>1. \A i \in 1 .. Len(out) : out[i][1] # id
    BY <1>6
  <2>2. t.byId[id] = s.byId[id]
    BY <1>8, <1>9, <2>1 DEF Filing
  <2> QED
    BY <1>7, <1>10, <2>2
<1> QED
  BY <1>1, <1>10, <1>11, <1>12 DEF Consolidates

\* A consolidation covers what it archives.
LEMMA ConsolidationStep ==
  ASSUME Filed(store), NEW project \in SUBSET AtomProject, ConsolidateAtoms(project)
  PROVE  Filed(store') /\ ConsolidationCovers' /\ lookup'.call = "consolidate"
<1> DEFINE S == IdsByProject(store, project) \ store.archived
<1>1. PICK base \in SetToSeqs(S) :
        /\ store' = Consolidated(store, base)
        /\ lookup' = [call |-> "consolidate", project |-> project, saw |-> store]
  BY DEF ConsolidateAtoms
<1>2. IdsByProject(store, project) = Inside(store, project)
  <2>1. {} \in SUBSET Word
    OBVIOUS
  <2> QED
    BY <2>1, Reached
<1>3. S \subseteq Ids(store) \ store.archived
  BY <1>2 DEF Inside
<1>4. Consolidates(store, S, store')
  <2> HIDE DEF S
  <2> QED
    BY <1>1, <1>3, ConsolidatedStore
<1>5. lookup'.call = "consolidate" /\ lookup'.project = project /\ lookup'.saw = store
  BY <1>1
<1>6. Ids(store)' = Ids(store')
  BY DEF Ids
<1>7. Ids(store') = Ids(store) /\ store.archived \subseteq store'.archived
  BY <1>4 DEF Consolidates
<1>8. ASSUME NEW id \in Ids(store) \ store.archived
      PROVE  \E kept \in Ids(store') \ store'.archived : Covers(store'.byId[kept], store.byId[id])
  <2>1. CASE id \in S
    <3>1. PICK kept \in S \ store'.archived : Covers(store'.byId[kept], store.byId[id])
      BY <1>4, <2>1 DEF Consolidates
    <3> QED
      BY <1>3, <1>7, <3>1
  <2>2. CASE id \notin S
    <3>1. store'.byId[id] = store.byId[id] /\ id \notin store'.archived
      BY <1>4, <2>2 DEF Consolidates
    <3> QED
      BY <1>7, <3>1 DEF Covers
  <2> QED
    BY <2>1, <2>2
<1>9. ASSUME NEW id \in Ids(store), project # {}, store.byId[id].project \notin project
      PROVE  store'.byId[id] = store.byId[id] /\ (id \in store'.archived <=> id \in store.archived)
  <2>1. id \notin S
    BY <1>2, <1>9 DEF Inside
  <2> QED
    BY <1>4, <2>1 DEF Consolidates
<1> HIDE DEF S
<1>10. ConsolidationCovers'
  BY <1>5, <1>7, <1>8, <1>9 DEF ConsolidationCovers, Covers, Ids
<1>11. Filed(store')
  BY <1>4 DEF Consolidates
<1> QED
  BY <1>5, <1>10, <1>11

-----------------------------------------------------------------------------
\* A larger factor makes a larger product.
LEMMA Scaled ==
  ASSUME NEW i \in Nat, NEW x \in Nat, NEW y \in Nat, x <= y
  PROVE  i * x \in Nat /\ i * y \in Nat /\ i * x <= i * y
<1>1. PICK z \in Nat : y = x + z
  <2>1. y - x \in Nat /\ y = x + (y - x)
    OBVIOUS
  <2> QED
    BY <2>1
<1>2. i * x \in Nat /\ i * z \in Nat /\ i * y = i * x + i * z
  BY <1>1
<1> QED
  BY <1>2

\* What an atom rated i and trusted c, d days old, and e days old later, may become.
Falls(i, c, kind, protected, d, e) ==
  LET then  == Archivist(i, c, d, kind, protected)
      later == Archivist(i, c, e, kind, protected)
  IN  /\ later.promote => then.promote
      /\ then.archive => later.archive
      /\ ~(then.promote /\ then.archive) /\ (protected => ~then.archive)

\* Days take a promotion and never give one, and bring an archiving and never take it back.
LEMMA ArchivistFalls ==
  ASSUME NEW i \in 0 .. 100, NEW c \in 0 .. 100, NEW kind, NEW protected \in BOOLEAN,
         NEW d \in Nat, NEW e \in Nat, d <= e
  PROVE  Falls(i, c, kind, protected, d, e)
<1> DEFINE decay(n) == IF 2 * n > 650 THEN 350 ELSE 1000 - 2 * n
           fade(n)  == IF 8 * n > 2500 THEN 7500 ELSE 10000 - 8 * n
           boost    == (CASE kind = "code_entity" -> 300 [] kind = "procedural" -> 200 [] OTHER -> 0)
                       + (IF c >= 85 THEN 200 ELSE 0) + (IF protected THEN 800 ELSE 0)
           rated(n) == (i * decay(n) + 5) \div 10 + boost
           after(n) == IF rated(n) > 10000 THEN 10000 ELSE rated(n)
           trust(n) == (c * fade(n) + 50) \div 100
<1>1. ASSUME NEW n \in Nat
      PROVE  /\ Archivist(i, c, n, kind, protected).promote <=> (after(n) >= 8200 /\ trust(n) >= 8200)
             /\ Archivist(i, c, n, kind, protected).archive <=> (after(n) < 2200 /\ trust(n) < 4500 /\ ~protected)
  <2> DEFINE p == after(n) >= 8200 /\ trust(n) >= 8200
             q == after(n) < 2200 /\ trust(n) < 4500 /\ ~protected
  <2>1. Archivist(i, c, n, kind, protected) =
          [importance |-> after(n), confidence |-> trust(n), promote |-> p, archive |-> q]
    BY DEF Archivist
  <2> HIDE DEF after, trust, p, q
  <2>2. Archivist(i, c, n, kind, protected).promote = p /\ Archivist(i, c, n, kind, protected).archive = q
    BY <2>1
  <2>3. (Archivist(i, c, n, kind, protected).promote <=> p) /\ (Archivist(i, c, n, kind, protected).archive <=> q)
    BY <2>2
  <2> QED
    BY <2>3 DEF p, q
<1>2. decay(e) <= decay(d) /\ decay(e) \in Nat /\ decay(d) \in Nat
  OBVIOUS
<1>3. fade(e) <= fade(d) /\ fade(e) \in Nat /\ fade(d) \in Nat
  OBVIOUS
<1>4. boost \in Nat
  OBVIOUS
<1> HIDE DEF decay, fade, boost
<1>5. i * decay(e) \in Nat /\ i * decay(d) \in Nat /\ i * decay(e) <= i * decay(d)
  BY <1>2, Scaled
<1>6. c * fade(e) \in Nat /\ c * fade(d) \in Nat /\ c * fade(e) <= c * fade(d)
  BY <1>3, Scaled
<1>7. rated(e) \in Nat /\ rated(d) \in Nat /\ rated(e) <= rated(d)
  <2> DEFINE x == i * decay(e)
             y == i * decay(d)
  <2>1. x \in Nat /\ y \in Nat /\ x <= y
    BY <1>5
  <2> HIDE DEF x, y
  <2>2. (x + 5) \div 10 \in Nat /\ (y + 5) \div 10 \in Nat /\ (x + 5) \div 10 <= (y + 5) \div 10
    BY <2>1
  <2> QED
    BY <1>4, <2>2 DEF x, y
<1>8. trust(e) \in Nat /\ trust(d) \in Nat /\ trust(e) <= trust(d)
  <2> DEFINE x == c * fade(e)
             y == c * fade(d)
  <2>1. x \in Nat /\ y \in Nat /\ x <= y
    BY <1>6
  <2> HIDE DEF x, y
  <2>2. (x + 50) \div 100 \in Nat /\ (y + 50) \div 100 \in Nat /\ (x + 50) \div 100 <= (y + 50) \div 100
    BY <2>1
  <2> QED
    BY <2>2 DEF x, y
<1> HIDE DEF rated, trust
<1>9. after(e) \in Nat /\ after(d) \in Nat /\ after(e) <= after(d)
  BY <1>7
<1> HIDE DEF after
<1> DEFINE then == Archivist(i, c, d, kind, protected)
           later == Archivist(i, c, e, kind, protected)
<1>10. /\ then.promote <=> (after(d) >= 8200 /\ trust(d) >= 8200)
       /\ then.archive <=> (after(d) < 2200 /\ trust(d) < 4500 /\ ~protected)
       /\ later.promote <=> (after(e) >= 8200 /\ trust(e) >= 8200)
       /\ later.archive <=> (after(e) < 2200 /\ trust(e) < 4500 /\ ~protected)
  BY <1>1
<1> HIDE DEF then, later
<1>11. (after(e) >= 8200 => after(d) >= 8200) /\ (trust(e) >= 8200 => trust(d) >= 8200)
  BY <1>8, <1>9
<1>12. (after(d) < 2200 => after(e) < 2200) /\ (trust(d) < 4500 => trust(e) < 4500)
  BY <1>8, <1>9
<1>13. ~(after(d) >= 8200 /\ after(d) < 2200)
  BY <1>9
<1>14. later.promote => then.promote
  BY <1>10, <1>11
<1>15. then.archive => later.archive
  BY <1>10, <1>12
<1>16. ~(then.promote /\ then.archive)
  BY <1>10, <1>13
<1>17. protected => ~then.archive
  BY <1>10
<1> QED
  BY <1>14, <1>15, <1>16, <1>17, Zenon DEF Falls, then, later

\* The figures of the property are among them.
LEMMA ArchivistIsSteady == ArchivistSteady
<1>1. ASSUME NEW i \in 0 .. 100, NEW c \in 0 .. 100, NEW kind, NEW protected \in BOOLEAN, NEW d \in Nat
      PROVE  Falls(i, c, kind, protected, d, d + 30)
  <2>1. PICK e : e = d + 30
    OBVIOUS
  <2>2. e \in Nat /\ d <= e
    BY <2>1
  <2>3. Falls(i, c, kind, protected, d, e)
    BY <2>2, ArchivistFalls
  <2> QED
    BY <2>1, <2>3
<1> DEFINE S == {0, 15, 20, 21, 22, 44, 45, 46, 79, 80, 82, 85, 100}
           K == {"semantic", "procedural", "code_entity"}
           D == {0, 1, 30, 312, 325, 400}
<1>2. S \subseteq 0 .. 100 /\ D \subseteq Nat
  OBVIOUS
<1> HIDE DEF S, K, D
<1>3. ASSUME NEW i \in S, NEW c \in S, NEW kind \in K, NEW protected \in BOOLEAN, NEW d \in D
      PROVE  Falls(i, c, kind, protected, d, d + 30)
  <2>1. i \in 0 .. 100 /\ c \in 0 .. 100 /\ d \in Nat
    BY <1>2
  <2> QED
    BY <1>1, <2>1
<1> QED
  BY <1>3, Zenon DEF ArchivistSteady, Falls, S, K, D

-----------------------------------------------------------------------------
\* What a stage keeps.
LEMMA StageFields ==
  ASSUME NEW k, NEW at, NEW kept, {"at", "call", "dry"} \cap DOMAIN kept = {}
  PROVE  /\ Stage(k, at, kept).at = at /\ Stage(k, at, kept).call = k.call /\ Stage(k, at, kept).dry = k.dry
         /\ \A x \in DOMAIN kept : Stage(k, at, kept)[x] = kept[x]
BY DEF Stage

\* The stages at which an evolution may still write.
Working == {"propose", "review", "neighbours", "merge", "persist"}

Stored == {"store", "merge", "compress"}

\* The call lets an evolution write.
MayWrite(call) == call.agent = NoAgent \/ Agents[call.agent]

\* An evolution k that wrote ws did what its call asked for.
AskedFor(k, ws) ==
  /\ k.at \in Working \cup {"idle", "done"}
  /\ ws = {} \/ \E id \in DraftId : ws = {id}
  /\ k.at \in Working =>
       ws = {} /\ MayWrite(k.call) /\ k.call.flag \in {"unset", "true", "false"}
       /\ k.dry = DryRun(k.call.agent, k.call.flag)
  /\ k.at = "review" => k.reviews \in Seq(Reviews)
  /\ k.at \in {"neighbours", "merge"} => k.chosen \in Reviews /\ Wanted(k.chosen)
  /\ k.at = "persist" => k.action \in Stored
  /\ k.at = "done" =>
       /\ k.outcome \in Stored => k.dry \in BOOLEAN /\ (ws = {} <=> k.dry)
       /\ ws # {} => k.outcome \in Stored /\ MayWrite(k.call) /\ ~DryRun(k.call.agent, k.call.flag)
                     /\ k.call.flag \in {"unset", "true", "false"}
       /\ k.outcome = "reject" => \A i \in DOMAIN k.reviews : ~Wanted(k.reviews[i])

\* All of them did.
EvolutionsAsked ==
  /\ DOMAIN evo = Evolver /\ DOMAIN writes = Evolver
  /\ \A t \in Evolver : AskedFor(evo[t], writes[t])

\* What was asked for is what the property says.
LEMMA AskedWrites ==
  ASSUME EvolutionsAsked, NEW t \in Evolver
  PROVE  WritesAsked(t) /\ writes[t] \subseteq DraftId
<1> DEFINE k == evo[t]
           ws == writes[t]
<1>1. AskedFor(k, ws)
  BY DEF EvolutionsAsked
<1>2. Cardinality(ws) <= 1 /\ ws \subseteq DraftId
  <2>1. CASE ws = {}
    BY <2>1, FS_EmptySet
  <2>2. ASSUME NEW id \in DraftId, ws = {id} PROVE Cardinality(ws) <= 1 /\ ws \subseteq DraftId
    <3> HIDE DEF ws
    <3>1. Cardinality({id}) = 1
      BY FS_Singleton
    <3> QED
      BY <2>2, <3>1
  <2> HIDE DEF ws
  <2> QED
    BY <1>1, <2>1, <2>2 DEF AskedFor
<1>3. ASSUME ws # {}, k.at # "idle"
      PROVE  /\ k.at = "done" /\ k.outcome \in Stored /\ k.call.flag # "true"
             /\ k.call.agent # NoAgent => Agents[k.call.agent] /\ k.call.flag = "false"
  BY <1>1, <1>3 DEF AskedFor, MayWrite, DryRun
<1>4. ASSUME k.at = "done"
      PROVE  /\ k.outcome \in Stored => (ws = {}) = k.dry
             /\ k.outcome = "reject" => \A i \in DOMAIN k.reviews : ~Wanted(k.reviews[i])
  <2>1. k.outcome = "reject" => \A i \in DOMAIN k.reviews : ~Wanted(k.reviews[i])
    BY <1>1, <1>4 DEF AskedFor
  <2>2. k.outcome \in Stored => k.dry \in BOOLEAN /\ (ws = {} <=> k.dry)
    BY <1>1, <1>4 DEF AskedFor
  <2> QED
    BY <2>1, <2>2
<1> QED
  BY <1>2, <1>3, <1>4 DEF WritesAsked, Stored

\* Only one evolution moves.
LEMMA OneEvolves ==
  ASSUME EvolutionsAsked, NEW t \in Evolver, NEW k, NEW ws, AskedFor(k, ws),
         evo' = [evo EXCEPT ![t] = k], writes' = [writes EXCEPT ![t] = ws] \/ (writes' = writes /\ ws = writes[t])
  PROVE  EvolutionsAsked'
<1>1. DOMAIN evo' = Evolver /\ DOMAIN writes' = Evolver
  BY DEF EvolutionsAsked
<1>2. \A u \in Evolver : evo'[u] = (IF u = t THEN k ELSE evo[u]) /\ writes'[u] = (IF u = t THEN ws ELSE writes[u])
  BY DEF EvolutionsAsked
<1> QED
  BY <1>1, <1>2 DEF EvolutionsAsked

\* An evolution that ends without a write.
LEMMA EndedAsked ==
  ASSUME NEW k, NEW ws, AskedFor(k, ws), k.at \in Working, NEW outcome \in {"error", "archive"}
  PROVE  AskedFor(Ended(k, outcome), ws)
<1>1. Ended(k, outcome) = Stage(k, "done", [outcome |-> outcome, reviews |-> <<>>])
  BY DEF Ended
<1>2. Ended(k, outcome).at = "done" /\ Ended(k, outcome).outcome = outcome
  BY <1>1 DEF Stage
<1> HIDE DEF Ended
<1> QED
  BY <1>2 DEF AskedFor, Working, Stored

\* What a review may say.
LEMMA ReviewsSay == MayReview \subseteq Reviews
<1>1. ASSUME NEW score \in Percents PROVE FallbackReview(score) \in Reviews
  <2> DEFINE action == IF score >= 80 THEN "merge" ELSE IF score >= 60 THEN "store"
                       ELSE IF score >= 42 THEN "compress" ELSE "reject"
  <2>1. action \in Actions
    BY DEF Actions
  <2>2. FallbackReview(score) = [accepted |-> action # "reject", action |-> action, score |-> score]
    BY DEF FallbackReview
  <2> HIDE DEF action
  <2> QED
    BY <2>1, <2>2 DEF Reviews
<1> QED
  BY <1>1 DEF MayReview

\* Where the best review is not wanted, none is.
LEMMA BestWanted ==
  ASSUME NEW reviews \in Seq(Reviews), NEW i \in BestReviews(reviews), ~Wanted(reviews[i]),
         NEW j \in DOMAIN reviews
  PROVE  ~Wanted(reviews[j])
<1>1. i \in DOMAIN reviews /\ ~Before(reviews[j], reviews[i])
  BY DEF BestReviews
<1>2. reviews[i] \in Reviews /\ reviews[j] \in Reviews
  BY <1>1
<1> DEFINE r == reviews[j]
           q == reviews[i]
<1>3. r \in Reviews /\ q \in Reviews /\ ~Wanted(q) /\ ~Before(r, q)
  BY <1>1, <1>2
<1> HIDE DEF r, q
<1>4. ~Wanted(r)
  BY <1>3 DEF Before, Wanted, Weight, Reviews, Actions
<1> QED
  BY <1>4 DEF r

\* The archivist lets an atom be written that was wanted.
LEMMA JudgedAsked ==
  ASSUME NEW k, NEW ws, AskedFor(k, ws), k.at \in {"neighbours", "merge"}, NEW kind, NEW confidence, NEW protected
  PROVE  AskedFor(Judged(k, kind, confidence, protected), ws)
<1>1. k.at \in Working /\ k.chosen \in Reviews /\ Wanted(k.chosen)
  BY DEF AskedFor, Working
<1>2. k.chosen.action \in Stored
  BY <1>1 DEF Reviews, Wanted, Actions, Stored
<1> DEFINE p == Stage(k, "persist", [action |-> k.chosen.action])
<1>3. p.at = "persist" /\ p.call = k.call /\ p.dry = k.dry /\ p.action = k.chosen.action
  BY DEF Stage
<1> HIDE DEF p
<1>4. AskedFor(p, ws)
  BY <1>1, <1>2, <1>3 DEF AskedFor, Working
<1>5. AskedFor(Ended(k, "archive"), ws)
  BY <1>1, EndedAsked
<1>6. Judged(k, kind, confidence, protected) = Ended(k, "archive") \/ Judged(k, kind, confidence, protected) = p
  BY Zenon DEF Judged, p
<1> QED
  BY <1>4, <1>5, <1>6

\* Every step of an evolution leaves it as asked.
LEMMA EvolutionStep ==
  ASSUME EvolutionsAsked, EvolutionNext
  PROVE  EvolutionsAsked'
<1>0. ASSUME NEW t \in Evolver PROVE AskedFor(evo[t], writes[t])
  BY DEF EvolutionsAsked
<1>1. ASSUME NEW t \in Evolver, NEW agent \in DOMAIN Agents \cup {NoAgent}, NEW flag \in {"unset", "true", "false"},
             BeginEvolution(t, agent, flag)
      PROVE  EvolutionsAsked'
  <2> DEFINE call == [agent |-> agent, flag |-> flag]
             k == IF agent = NoAgent \/ Agents[agent]
                  THEN [at |-> "propose", call |-> call, dry |-> DryRun(agent, flag)]
                  ELSE [at |-> "done", call |-> call, dry |-> TRUE, outcome |-> "read", reviews |-> <<>>]
  <2>1. evo' = [evo EXCEPT ![t] = k] /\ writes' = [writes EXCEPT ![t] = {}]
    BY <1>1 DEF BeginEvolution
  <2>2. AskedFor(k, {})
    <3>1. call.agent = agent /\ call.flag = flag
      OBVIOUS
    <3> HIDE DEF call
    <3>2. CASE agent = NoAgent \/ Agents[agent]
      <4>1. k = [at |-> "propose", call |-> call, dry |-> DryRun(agent, flag)]
        BY <3>2
      <4> HIDE DEF k
      <4>2. k.at = "propose" /\ k.call = call /\ k.dry = DryRun(agent, flag)
        BY <4>1
      <4> QED
        BY <3>1, <3>2, <4>2 DEF AskedFor, Working, MayWrite
    <3>3. CASE ~(agent = NoAgent \/ Agents[agent])
      <4>1. k = [at |-> "done", call |-> call, dry |-> TRUE, outcome |-> "read", reviews |-> <<>>]
        BY <3>3
      <4> HIDE DEF k
      <4>2. k.at = "done" /\ k.outcome = "read"
        BY <4>1
      <4> QED
        BY <4>2 DEF AskedFor, Working, Stored
    <3> QED
      BY <3>2, <3>3
  <2> HIDE DEF k
  <2> QED
    BY <2>1, <2>2, OneEvolves
<1>2. ASSUME NEW t \in Evolver, ModelFails(t) PROVE EvolutionsAsked'
  <2>1. evo[t].at \in Working /\ evo' = [evo EXCEPT ![t] = Ended(evo[t], "error")] /\ writes' = writes
    BY <1>2 DEF ModelFails, Step, Working
  <2>2. AskedFor(Ended(evo[t], "error"), writes[t])
    BY <1>0, <2>1, EndedAsked
  <2> QED
    BY <2>1, <2>2, OneEvolves
<1>3. ASSUME NEW t \in Evolver, Propose(t) PROVE EvolutionsAsked'
  <2>1. PICK n \in 1 .. MaxCandidates :
          Step(t, Stage(evo[t], "review", [left |-> n, reviews |-> <<>>]))
    BY <1>3 DEF Propose
  <2> DEFINE k == Stage(evo[t], "review", [left |-> n, reviews |-> <<>>])
  <2>2. evo[t].at = "propose" /\ evo' = [evo EXCEPT ![t] = k] /\ writes' = writes
    BY <1>3, <2>1 DEF Propose, Step
  <2>3. k.at = "review" /\ k.call = evo[t].call /\ k.dry = evo[t].dry /\ k.reviews = <<>>
    BY DEF Stage
  <2> HIDE DEF k
  <2>4. AskedFor(k, writes[t])
    BY <1>0, <2>2, <2>3 DEF AskedFor, Working
  <2> QED
    BY <2>2, <2>4, OneEvolves
<1>4. ASSUME NEW t \in Evolver, Review(t) PROVE EvolutionsAsked'
  <2>1. PICK review \in MayReview :
          Step(t, [evo[t] EXCEPT !.left = @ - 1, !.reviews = Append(@, review)])
    BY <1>4, Zenon DEF Review
  <2> DEFINE e == evo[t]
             k == [e EXCEPT !.left = @ - 1, !.reviews = Append(@, review)]
  <2>2. e.at = "review" /\ evo' = [evo EXCEPT ![t] = k] /\ writes' = writes
    BY <1>4, <2>1 DEF Review, Step
  <2>3. AskedFor(e, writes[t])
    BY <1>0
  <2> HIDE DEF e
  <2>4. k.at = e.at /\ k.call = e.call /\ k.dry = e.dry
    OBVIOUS
  <2>5. k.reviews = Append(e.reviews, review)
    OBVIOUS
  <2> HIDE DEF k
  <2>6. AskedFor(k, writes[t])
    <3>1. e.reviews \in Seq(Reviews) /\ review \in Reviews
      BY <2>2, <2>3, ReviewsSay DEF AskedFor
    <3>2. k.reviews \in Seq(Reviews)
      BY <2>5, <3>1
    <3> QED
      BY <2>2, <2>3, <2>4, <3>2 DEF AskedFor, Working
  <2> QED
    BY <2>2, <2>6, OneEvolves
<1>5. ASSUME NEW t \in Evolver, Select(t) PROVE EvolutionsAsked'
  <2> DEFINE e == evo[t]
  <2>1. PICK i \in BestReviews(e.reviews) :
          Step(t, IF Wanted(e.reviews[i]) THEN Stage(e, "neighbours", [chosen |-> e.reviews[i]])
                  ELSE Ended(e, "reject"))
    BY <1>5 DEF Select
  <2>2. e.at = "review" /\ AskedFor(e, writes[t])
    BY <1>0, <1>5 DEF Select
  <2>3. e.reviews \in Seq(Reviews) /\ i \in DOMAIN e.reviews /\ e.reviews[i] \in Reviews
    <3>1. e.reviews \in Seq(Reviews)
      BY <2>2 DEF AskedFor
    <3>2. i \in DOMAIN e.reviews
      BY <2>1 DEF BestReviews
    <3> QED
      BY <3>1, <3>2
  <2>4. CASE Wanted(e.reviews[i])
    <3> DEFINE k == Stage(e, "neighbours", [chosen |-> e.reviews[i]])
    <3>1. evo' = [evo EXCEPT ![t] = k] /\ writes' = writes
      BY <2>1, <2>4 DEF Step
    <3>2. k.at = "neighbours" /\ k.call = e.call /\ k.dry = e.dry /\ k.chosen = e.reviews[i]
      BY DEF Stage
    <3> HIDE DEF k, e
    <3>3. AskedFor(k, writes[t])
      BY <2>2, <2>3, <2>4, <3>2 DEF AskedFor, Working
    <3> QED
      BY <3>1, <3>3, OneEvolves
  <2>5. CASE ~Wanted(e.reviews[i])
    <3> DEFINE k == Ended(e, "reject")
    <3>1. evo' = [evo EXCEPT ![t] = k] /\ writes' = writes
      BY <2>1, <2>5 DEF Step
    <3>2. k.at = "done" /\ k.outcome = "reject" /\ k.reviews = e.reviews
      <4>1. k = Stage(e, "done", [outcome |-> "reject", reviews |-> e.reviews])
        BY DEF Ended
      <4> QED
        BY <4>1 DEF Stage
    <3> HIDE DEF k
    <3>3. \A j \in DOMAIN e.reviews : ~Wanted(e.reviews[j])
      BY <2>1, <2>3, <2>5, BestWanted
    <3> HIDE DEF e
    <3>4. AskedFor(k, writes[t])
      BY <2>2, <3>2, <3>3 DEF AskedFor, Working, Stored
    <3> QED
      BY <3>1, <3>4, OneEvolves
  <2> QED
    BY <2>4, <2>5
<1>6. ASSUME NEW t \in Evolver, NEW kind, NEW clarity, Neighbours(t, kind, clarity) PROVE EvolutionsAsked'
  <2> DEFINE e == evo[t]
             k == Stage(e, "merge", [chosen |-> e.chosen, kind |-> kind])
  <2>1. e.at = "neighbours" /\ AskedFor(e, writes[t])
    BY <1>0, <1>6 DEF Neighbours
  <2>2. Step(t, k) \/ \E protected \in BOOLEAN : Step(t, Judged(e, kind, clarity, protected))
    BY <1>6 DEF Neighbours
  <2>3. CASE Step(t, k)
    <3>1. evo' = [evo EXCEPT ![t] = k] /\ writes' = writes
      BY <2>3 DEF Step
    <3>2. k.at = "merge" /\ k.call = e.call /\ k.dry = e.dry /\ k.chosen = e.chosen
      BY DEF Stage
    <3> HIDE DEF k, e
    <3>3. AskedFor(k, writes[t])
      BY <2>1, <3>2 DEF AskedFor, Working
    <3> QED
      BY <3>1, <3>3, OneEvolves
  <2>4. ASSUME NEW protected \in BOOLEAN, Step(t, Judged(e, kind, clarity, protected))
        PROVE  EvolutionsAsked'
    <3>1. evo' = [evo EXCEPT ![t] = Judged(e, kind, clarity, protected)] /\ writes' = writes
      BY <2>4 DEF Step
    <3>2. AskedFor(Judged(e, kind, clarity, protected), writes[t])
      BY <2>1, JudgedAsked
    <3> QED
      BY <3>1, <3>2, OneEvolves
  <2> QED
    BY <2>2, <2>3, <2>4
<1>7. ASSUME NEW t \in Evolver, NEW confidence, NEW protected, Merge(t, confidence, protected)
      PROVE  EvolutionsAsked'
  <2> DEFINE k == Judged(evo[t], evo[t].kind, confidence, protected)
  <2>1. evo[t].at = "merge" /\ evo' = [evo EXCEPT ![t] = k] /\ writes' = writes
    BY <1>7 DEF Merge, Step
  <2>2. AskedFor(k, writes[t])
    BY <1>0, <2>1, JudgedAsked
  <2> HIDE DEF k
  <2> QED
    BY <2>1, <2>2, OneEvolves
<1>8. ASSUME NEW t \in Evolver, NEW id \in DraftId, NEW a \in Drafts, Persist(t, id, a) PROVE EvolutionsAsked'
  <2> DEFINE e == evo[t]
             k == Ended(e, e.action)
             ws == IF e.dry THEN {} ELSE {id}
  <2>1. e.at = "persist" /\ AskedFor(e, writes[t])
    BY <1>0, <1>8 DEF Persist
  <2>2. /\ writes[t] = {} /\ MayWrite(e.call) /\ e.call.flag \in {"unset", "true", "false"}
        /\ e.dry = DryRun(e.call.agent, e.call.flag) /\ e.action \in Stored
    BY <2>1 DEF AskedFor, Working
  <2>3. evo' = [evo EXCEPT ![t] = k]
    BY <1>8 DEF Persist, EvolutionsAsked
  <2>4. writes' = [writes EXCEPT ![t] = ws] \/ (writes' = writes /\ ws = writes[t])
    <3>1. CASE e.dry
      BY <1>8, <2>2, <3>1 DEF Persist
    <3>2. CASE ~e.dry
      <4>1. writes' = [writes EXCEPT ![t] = @ \cup {id}]
        BY <1>8, <3>2 DEF Persist
      <4>2. writes[t] \cup {id} = {id} /\ ws = {id}
        BY <2>2, <3>2
      <4> HIDE DEF ws
      <4> QED
        BY <4>1, <4>2
    <3> QED
      BY <3>1, <3>2
  <2>5. k.at = "done" /\ k.call = e.call /\ k.dry = e.dry /\ k.outcome = e.action
    <3>1. k = Stage(e, "done", [outcome |-> e.action, reviews |-> IF e.action = "reject" THEN e.reviews ELSE <<>>])
      BY DEF Ended
    <3> QED
      BY <3>1 DEF Stage
  <2>6. e.dry \in BOOLEAN /\ (ws = {} <=> e.dry) /\ (ws # {} => ~e.dry) /\ (ws = {} \/ ws = {id})
    <3>1. e.dry \in BOOLEAN
      BY <2>2 DEF DryRun
    <3> HIDE DEF e
    <3> QED
      BY <3>1
  <2> HIDE DEF k, ws, e
  <2>7. AskedFor(k, ws)
    BY <2>2, <2>5, <2>6 DEF AskedFor, Working, Stored
  <2> QED
    BY <2>3, <2>4, <2>7, OneEvolves
<1>9. ASSUME NEW t \in Evolver, StoreFails(t) PROVE EvolutionsAsked'
  <2>1. evo[t].at \in Working /\ evo' = [evo EXCEPT ![t] = Ended(evo[t], "error")] /\ writes' = writes
    BY <1>9 DEF StoreFails, Step, Working
  <2>2. AskedFor(Ended(evo[t], "error"), writes[t])
    BY <1>0, <2>1, EndedAsked
  <2> QED
    BY <2>1, <2>2, OneEvolves
<1>10. ASSUME NEW t \in Evolver, Reported(t) PROVE EvolutionsAsked'
  <2>1. evo' = [evo EXCEPT ![t] = NoEvolution] /\ writes' = writes
    BY <1>10 DEF Reported, Step
  <2>2. NoEvolution.at = "idle"
    BY DEF NoEvolution
  <2>3. AskedFor(NoEvolution, writes[t])
    BY <1>0, <2>2 DEF AskedFor, Working
  <2> QED
    BY <2>1, <2>3, OneEvolves
<1>11. CASE Others
  BY <1>11 DEF Others, EvolutionsAsked
<1> QED
  BY <1>1, <1>2, <1>3, <1>4, <1>5, <1>6, <1>7, <1>8, <1>9, <1>10, <1>11 DEF EvolutionNext

-----------------------------------------------------------------------------
\* The store is filed and what was last read from it was right.
StoreRight == Filed(store) /\ LookupSound /\ ConsolidationCovers

\* A step that reads nothing and leaves the store filed keeps it so.
LEMMA ReadsNothing ==
  ASSUME Filed(store'), lookup' = NoLookup
  PROVE  StoreRight'
<1>1. lookup'.call = "none"
  BY DEF NoLookup
<1>2. LookupSound' /\ ConsolidationCovers'
  BY <1>1 DEF LookupSound, ConsolidationCovers
<1>3. Filed(store)'
  BY DEF Filed, Ids, InProject, WithWord, Indexable
<1> QED
  BY <1>2, <1>3 DEF StoreRight

\* The steps of a caller, one by one: an upsert,
LEMMA UpsertStep ==
  ASSUME Filed(store), NEW id \in AtomId, NEW a \in Atom, UpsertAtom(id, a)
  PROVE  StoreRight'
<1>1. store' = UpsertSync(store, id, a) /\ lookup' = NoLookup
  BY DEF UpsertAtom
<1>2. Filed(store')
  BY <1>1, Upserted
<1> QED
  BY <1>1, <1>2, ReadsNothing

\* a deletion,
LEMMA DeleteStep ==
  ASSUME Filed(store), NEW id, DeleteAtom(id)
  PROVE  StoreRight'
<1>1. id \in Ids(store) /\ store' = DeleteSync(store, id) /\ lookup' = NoLookup
  BY DEF DeleteAtom
<1>2. Filed(store')
  BY <1>1, Removed
<1> QED
  BY <1>1, <1>2, ReadsNothing

\* the archiving of an atom,
LEMMA ArchiveStep ==
  ASSUME Filed(store), NEW id, ArchiveAtom(id)
  PROVE  StoreRight'
<1> DEFINE A == store.archived \cup {id}
<1>1. id \in Ids(store) /\ store' = [store EXCEPT !.archived = A] /\ lookup' = NoLookup
  BY DEF ArchiveAtom, ArchiveSync
<1>2. A \subseteq Ids(store)
  BY <1>1 DEF Filed
<1> HIDE DEF A
<1>3. Filed(store')
  BY <1>1, <1>2, Shelved
<1> QED
  BY <1>1, <1>3, ReadsNothing

\* its return,
LEMMA RestoreStep ==
  ASSUME Filed(store), NEW id, RestoreAtom(id)
  PROVE  StoreRight'
<1> DEFINE A == store.archived \ {id}
<1>1. store' = [store EXCEPT !.archived = A] /\ lookup' = NoLookup
  BY DEF RestoreAtom
<1>2. A \subseteq Ids(store)
  BY DEF Filed
<1> HIDE DEF A
<1>3. Filed(store')
  BY <1>1, <1>2, Shelved
<1> QED
  BY <1>1, <1>3, ReadsNothing

\* a search,
LEMMA SearchStep ==
  ASSUME AtomStoreAssumption, Filed(store), NEW words \in SUBSET Word, NEW project \in SUBSET AtomProject,
         NEW archived \in BOOLEAN, SearchAtoms(words, project, archived)
  PROVE  StoreRight'
<1>1. LookupSound' /\ lookup'.call = "search"
  BY Searched
<1>2. ConsolidationCovers'
  BY <1>1 DEF ConsolidationCovers
<1>3. Filed(store)'
  BY DEF SearchAtoms, Filed, Ids, InProject, WithWord, Indexable
<1> QED
  BY <1>1, <1>2, <1>3 DEF StoreRight

\* a consolidation,
LEMMA ConsolidateStep ==
  ASSUME Filed(store), NEW project \in SUBSET AtomProject, ConsolidateAtoms(project)
  PROVE  StoreRight'
<1>1. Filed(store') /\ ConsolidationCovers' /\ lookup'.call = "consolidate"
  BY ConsolidationStep
<1>2. LookupSound'
  BY <1>1 DEF LookupSound
<1>3. Filed(store)'
  BY <1>1 DEF Filed, Ids, InProject, WithWord, Indexable
<1> QED
  BY <1>1, <1>2, <1>3 DEF StoreRight

\* and a step that leaves the store alone.
LEMMA SameStore ==
  ASSUME StoreRight, UNCHANGED <<store, lookup>>
  PROVE  StoreRight'
<1>1. store' = store /\ lookup' = lookup
  OBVIOUS
<1>2. Filed(store)' /\ LookupSound'
  <2>1. Filed(store)'
    BY <1>1 DEF StoreRight, Filed, Ids, InProject, WithWord, Indexable
  <2>2. LookupSound'
    BY <1>1 DEF StoreRight, LookupSound
  <2> QED
    BY <2>1, <2>2
<1>3. ConsolidationCovers'
  BY <1>1 DEF StoreRight, ConsolidationCovers, Ids
<1> QED
  BY <1>2, <1>3 DEF StoreRight

\* Every step of the callers of the store.
LEMMA StoreStep ==
  ASSUME AtomStoreAssumption, EvolutionAssumption, StoreRight, AtomsNext
  PROVE  StoreRight'
<1>1. Filed(store) /\ Atoms \subseteq Atom /\ Drafts \subseteq Atom /\ DraftId \subseteq AtomId
  BY DEF StoreRight, AtomStoreAssumption, EvolutionAssumption
<1>2. CASE AtomNext
  <2>1. ASSUME NEW id \in AtomId, NEW a \in Atoms, UpsertAtom(id, a) PROVE StoreRight'
    BY <1>1, <2>1, UpsertStep
  <2>2. ASSUME NEW id \in AtomId, DeleteAtom(id) \/ ArchiveAtom(id) \/ RestoreAtom(id) PROVE StoreRight'
    BY <1>1, <2>2, DeleteStep, ArchiveStep, RestoreStep
  <2>3. {{}} \cup {{p} : p \in AtomProject} \subseteq SUBSET AtomProject
    OBVIOUS
  <2>4. ASSUME NEW words \in SUBSET Word, NEW project \in {{}} \cup {{p} : p \in AtomProject},
               NEW archived \in BOOLEAN, SearchAtoms(words, project, archived)
        PROVE  StoreRight'
    BY <1>1, <2>3, <2>4, SearchStep
  <2>5. ASSUME NEW project \in {{}} \cup {{p} : p \in AtomProject}, ConsolidateAtoms(project) PROVE StoreRight'
    BY <1>1, <2>3, <2>5, ConsolidateStep
  <2> QED
    BY <1>2, <2>1, <2>2, <2>4, <2>5, Zenon DEF AtomNext
<1>3. CASE EvolutionNext
  <2>1. ASSUME NEW t \in Evolver, NEW id \in DraftId, NEW a \in Drafts, Persist(t, id, a) PROVE StoreRight'
    <3>1. CASE evo[t].dry
      BY <2>1, <3>1, SameStore DEF Persist
    <3>2. CASE ~evo[t].dry
      <4>1. UpsertAtom(id, a)
        BY <2>1, <3>2 DEF Persist
      <4> QED
        BY <1>1, <4>1, UpsertStep
    <3> QED
      BY <3>1, <3>2
  <2>2. CASE Others
    BY <1>1, <2>2, UpsertStep, DeleteStep, ArchiveStep DEF Others
  <2>3. ASSUME NEW t \in Evolver, NEW agent, NEW flag, BeginEvolution(t, agent, flag) PROVE StoreRight'
    BY <2>3, SameStore DEF BeginEvolution
  <2>4. ASSUME NEW t \in Evolver, NEW next, Step(t, next) PROVE StoreRight'
    BY <2>4, SameStore DEF Step
  <2>5. ASSUME NEW t \in Evolver, ModelFails(t) \/ Propose(t) \/ Review(t) \/ Select(t) \/ StoreFails(t) \/ Reported(t)
        PROVE  StoreRight'
    BY <2>4, <2>5, Zenon DEF ModelFails, Propose, Review, Select, StoreFails, Reported
  <2>6. ASSUME NEW t \in Evolver, NEW kind, NEW clarity, Neighbours(t, kind, clarity) PROVE StoreRight'
    BY <2>4, <2>6, Zenon DEF Neighbours
  <2>7. ASSUME NEW t \in Evolver, NEW confidence, NEW protected, Merge(t, confidence, protected) PROVE StoreRight'
    BY <2>4, <2>7 DEF Merge
  <2> QED
    BY <1>3, <2>1, <2>2, <2>3, <2>5, <2>6, <2>7, Zenon DEF EvolutionNext
<1> QED
  BY <1>2, <1>3 DEF AtomsNext

\* Together they are inductive.
AtomsInv == StoreRight /\ EvolutionsAsked

\* It holds of an empty store with no evolution under way,
LEMMA AtomsInitially ==
  ASSUME EvolutionInit
  PROVE  AtomsInv
<1>1. store = EmptyStore /\ lookup = NoLookup /\ evo = [t \in Evolver |-> NoEvolution] /\ writes = [t \in Evolver |-> {}]
  BY DEF EvolutionInit, AtomInit
<1>2. Filed(store)
  <2>1. /\ DOMAIN store = StoreFields /\ store.byId = <<>> /\ store.archived = {}
        /\ store.projects = [p \in AtomProject |-> {}] /\ store.tokens = [w \in Word |-> {}]
    BY <1>1 DEF EmptyStore, StoreFields
  <2>2. Ids(store) = {}
    BY <2>1 DEF Ids
  <2>3. store.byId \in [{} -> Atom]
    BY <2>1
  <2>4. store.projects = InProject(store.byId, {}) /\ store.tokens = WithWord(store.byId, {})
    BY <2>1 DEF InProject, WithWord
  <2> QED
    BY <2>1, <2>2, <2>3, <2>4, FS_EmptySet DEF Filed
<1>3. LookupSound /\ ConsolidationCovers
  BY <1>1 DEF NoLookup, LookupSound, ConsolidationCovers
<1>4. EvolutionsAsked
  BY <1>1 DEF EvolutionsAsked, NoEvolution, AskedFor, Working
<1> QED
  BY <1>2, <1>3, <1>4 DEF AtomsInv, StoreRight

\* every step keeps it,
LEMMA AtomsNextKeeps ==
  ASSUME AtomStoreAssumption, EvolutionAssumption, AtomsInv, [AtomsNext]_evolutionVars
  PROVE  AtomsInv'
<1>1. CASE AtomsNext
  <2>1. StoreRight'
    BY <1>1, StoreStep DEF AtomsInv
  <2>2. EvolutionsAsked'
    <3>1. CASE EvolutionNext
      BY <3>1, EvolutionStep DEF AtomsInv
    <3>2. CASE UNCHANGED <<requireReal, evo, writes>>
      BY <3>2 DEF AtomsInv, EvolutionsAsked
    <3> QED
      BY <1>1, <3>1, <3>2 DEF AtomsNext
  <2> QED
    BY <2>1, <2>2 DEF AtomsInv
<1>2. CASE UNCHANGED evolutionVars
  <2>1. UNCHANGED <<store, lookup>> /\ evo' = evo /\ writes' = writes
    BY <1>2 DEF evolutionVars
  <2>2. StoreRight'
    BY <2>1, SameStore DEF AtomsInv
  <2>3. EvolutionsAsked'
    BY <2>1 DEF AtomsInv, EvolutionsAsked
  <2> QED
    BY <2>2, <2>3 DEF AtomsInv
<1> QED
  BY <1>1, <1>2

\* and it says what the properties say.
LEMMA AtomsInvMeans ==
  ASSUME EvolutionAssumption, AtomsInv
  PROVE  AtomsSound /\ EvolutionTypeOK
<1>1. Filed(store) /\ LookupSound /\ ConsolidationCovers
  BY DEF AtomsInv, StoreRight
<1>2. IndexExact
  BY <1>1 DEF Filed, IndexExact, InProject, WithWord
<1>3. ASSUME NEW t \in Evolver PROVE WritesAsked(t) /\ writes[t] \subseteq DraftId /\ AskedFor(evo[t], writes[t])
  BY AskedWrites DEF AtomsInv, EvolutionsAsked
<1>4. EvolutionSound
  BY <1>3, ArchivistIsSteady DEF EvolutionSound
<1>5. EvolutionTypeOK
  <2>1. Ids(store) \subseteq AtomId /\ \A id \in Ids(store) : store.byId[id].project \in AtomProject
    BY <1>1 DEF Filed, Atom
  <2>2. \A t \in Evolver :
          /\ evo[t].at \in {"idle", "propose", "review", "neighbours", "merge", "persist", "done"}
          /\ writes[t] \subseteq AtomId
    BY <1>3 DEF AskedFor, Working, EvolutionAssumption
  <2> QED
    BY <2>1, <2>2 DEF EvolutionTypeOK
<1> QED
  BY <1>1, <1>2, <1>4, <1>5 DEF AtomsSound

\* Whatever is upserted, replaced, deleted, archived, restored and merged in the
\* library's store, by its callers or by evolutions that overlap, its indexes say what
\* its atoms say, a search finds what it should, a consolidation archives only what an
\* atom still in use covers, in whatever order it takes the atoms, and an evolution
\* writes at most one atom and none it was not asked for (store.ts, consolidate.ts,
\* engine.ts).
THEOREM AtomsStaySound == AtomsSpec => []AtomsSound
<1>1. EvolutionInit => AtomsInv
  BY AtomsInitially
<1>2. AtomsInv /\ [AtomsNext]_evolutionVars => AtomsInv'
  BY AtomStoreAssumption, EvolutionAssumption, AtomsNextKeeps
<1>3. AtomsInv => AtomsSound
  BY EvolutionAssumption, AtomsInvMeans
<1> QED
  BY <1>1, <1>2, <1>3, PTL DEF AtomsSpec

\* The atoms are of known projects, and an evolution is at a known stage.
THEOREM EvolutionTyped == AtomsSpec => []EvolutionTypeOK
<1>1. EvolutionInit => AtomsInv
  BY AtomsInitially
<1>2. AtomsInv /\ [AtomsNext]_evolutionVars => AtomsInv'
  BY AtomStoreAssumption, EvolutionAssumption, AtomsNextKeeps
<1>3. AtomsInv => EvolutionTypeOK
  BY EvolutionAssumption, AtomsInvMeans
<1> QED
  BY <1>1, <1>2, <1>3, PTL DEF AtomsSpec

-----------------------------------------------------------------------------
(***************************************************************************)
(* The graphs.                                                             *)
(***************************************************************************)
\* There are n numbers from one, and as many before n.
LEMMA Counting ==
  ASSUME NEW n \in Nat
  PROVE  /\ IsFiniteSet(1 .. n) /\ Cardinality(1 .. n) = n
         /\ IsFiniteSet(0 .. (n - 1)) /\ Cardinality(0 .. (n - 1)) = n
<1>1. \A a, b \in Int : IsFiniteSet(a .. b) /\ Cardinality(a .. b) = (IF a > b THEN 0 ELSE b - a + 1)
  BY FS_Interval, Zenon
<1>2. IsFiniteSet(1 .. n) /\ Cardinality(1 .. n) = (IF 1 > n THEN 0 ELSE n - 1 + 1)
  BY <1>1
<1>3. IsFiniteSet(0 .. (n - 1)) /\ Cardinality(0 .. (n - 1)) = (IF 0 > n - 1 THEN 0 ELSE n - 1 - 0 + 1)
  BY <1>1
<1> QED
  BY <1>2, <1>3

\* The pairs of order put any two of set one before the other.
Orders(order, set) ==
  /\ \A x \in set : <<x, x>> \notin order
  /\ \A x, y \in set : x = y \/ <<x, y>> \in order \/ <<y, x>> \in order
  /\ \A x, y, z \in set : <<x, y>> \in order /\ <<y, z>> \in order => <<x, z>> \in order

\* The list has the members of set in this order.
Lists(list, set, order) ==
  /\ list \in Seq(set) /\ Len(list) = Cardinality(set) /\ DOMAIN list = 1 .. Len(list)
  /\ \A x \in set : \E k \in 1 .. Len(list) : list[k] = x
  /\ \A j, k \in 1 .. Len(list) : j < k => <<list[j], list[k]>> \in order
  /\ \A j, k \in 1 .. Len(list) : list[j] = list[k] => j = k

\* A set put in order: as many are before the k-th as InOrder asks for.
LEMMA PutInOrder ==
  ASSUME NEW set, IsFiniteSet(set), NEW order, Orders(order, set)
  PROVE  Lists(InOrder(set, order), set, order)
<1> DEFINE n == Cardinality(set)
           Lower(x) == {y \in set : <<y, x>> \in order}
           rank == [x \in set |-> Cardinality(Lower(x))]
           list == InOrder(set, order)
<1>1. n \in Nat
  BY FS_CardinalityType
<1>2. ASSUME NEW x \in set
      PROVE  IsFiniteSet(Lower(x)) /\ Cardinality(Lower(x)) \in 0 .. (n - 1)
  <2>1. Lower(x) \in SUBSET set /\ x \notin Lower(x)
    BY DEF Orders
  <2> HIDE DEF Lower
  <2>2. IsFiniteSet(Lower(x)) /\ Cardinality(Lower(x)) <= n /\ Cardinality(Lower(x)) # n
    BY <2>1, FS_Subset
  <2> QED
    BY <1>1, <2>2, FS_CardinalityType
<1>3. ASSUME NEW x \in set, NEW y \in set, <<x, y>> \in order
      PROVE  Cardinality(Lower(x)) < Cardinality(Lower(y))
  <2>1. Lower(x) \in SUBSET Lower(y) /\ x \in Lower(y) /\ x \notin Lower(x)
    BY <1>3 DEF Orders
  <2>2. IsFiniteSet(Lower(y)) /\ Cardinality(Lower(x)) \in 0 .. (n - 1) /\ Cardinality(Lower(y)) \in 0 .. (n - 1)
    BY <1>2
  <2> HIDE DEF Lower
  <2>3. Cardinality(Lower(x)) <= Cardinality(Lower(y)) /\ Cardinality(Lower(x)) # Cardinality(Lower(y))
    BY <2>1, <2>2, FS_Subset
  <2> QED
    BY <1>1, <2>2, <2>3
<1>4. rank \in [set -> 0 .. (n - 1)]
  BY <1>2
<1>5. ASSUME NEW x \in set, NEW y \in set, rank[x] = rank[y] PROVE x = y
  <2>1. rank[x] = Cardinality(Lower(x)) /\ rank[y] = Cardinality(Lower(y))
    OBVIOUS
  <2>2. Cardinality(Lower(x)) = Cardinality(Lower(y)) /\ Cardinality(Lower(x)) \in 0 .. (n - 1)
    BY <1>2, <1>5, <2>1
  <2> HIDE DEF Lower, rank
  <2>3. <<x, y>> \notin order /\ <<y, x>> \notin order
    BY <1>1, <1>3, <2>2
  <2> QED
    BY <2>3 DEF Orders
<1>6. rank \in Injection(set, 0 .. (n - 1))
  BY <1>4, <1>5 DEF Injection, IsInjective
<1>7. IsFiniteSet(0 .. (n - 1)) /\ Cardinality(0 .. (n - 1)) = n
  BY <1>1, Counting
<1>8. \A k \in 0 .. (n - 1) : \E x \in set : rank[x] = k
  <2> HIDE DEF rank
  <2>1. rank \in Surjection(set, 0 .. (n - 1))
    BY <1>6, <1>7, FS_Injection
  <2> QED
    BY <2>1 DEF Surjection
<1>9. list = [k \in 1 .. n |-> CHOOSE x \in set : Cardinality(Lower(x)) = k - 1]
  BY DEF InOrder
<1>10. ASSUME NEW k \in 1 .. n PROVE list[k] \in set /\ rank[list[k]] = k - 1
  <2>1. k - 1 \in 0 .. (n - 1)
    BY <1>1
  <2>2. \E x \in set : Cardinality(Lower(x)) = k - 1
    BY <1>8, <2>1
  <2>3. list[k] = CHOOSE x \in set : Cardinality(Lower(x)) = k - 1
    BY <1>9
  <2> HIDE DEF Lower, list
  <2> QED
    BY <2>2, <2>3
<1> HIDE DEF Lower, rank
<1>11. DOMAIN list = 1 .. n /\ list \in [1 .. n -> set]
  BY <1>9, <1>10
<1> HIDE DEF list
<1>12. list \in Seq(set) /\ Len(list) = n
  BY <1>1, <1>11
<1> HIDE DEF n
<1>13. ASSUME NEW x \in set PROVE \E k \in 1 .. n : list[k] = x
  <2>1. rank[x] \in 0 .. (n - 1)
    BY <1>4
  <2>2. PICK k \in 1 .. n : k - 1 = rank[x]
    <3>1. \A r \in 0 .. (n - 1) : r + 1 \in 1 .. n /\ r + 1 - 1 = r
      BY <1>1
    <3> QED
      BY <2>1, <3>1
  <2>3. list[k] \in set /\ rank[list[k]] = rank[x]
    BY <1>10, <2>2
  <2> QED
    BY <1>5, <2>2, <2>3
<1>14. ASSUME NEW j \in 1 .. n, NEW k \in 1 .. n, j < k PROVE <<list[j], list[k]>> \in order
  <2>1. list[j] \in set /\ list[k] \in set /\ rank[list[j]] = j - 1 /\ rank[list[k]] = k - 1
    BY <1>10
  <2>2. ASSUME <<list[k], list[j]>> \in order PROVE FALSE
    <3>1. rank[list[k]] < rank[list[j]]
      BY <1>3, <2>1, <2>2 DEF rank
    <3> QED
      BY <1>1, <1>14, <2>1, <3>1
  <2>3. list[j] # list[k]
    BY <1>1, <1>14, <2>1
  <2> QED
    BY <2>1, <2>2, <2>3 DEF Orders
<1>15. ASSUME NEW j \in 1 .. n, NEW k \in 1 .. n, list[j] = list[k] PROVE j = k
  <2>1. rank[list[j]] = j - 1 /\ rank[list[k]] = k - 1
    BY <1>10
  <2>2. j - 1 = k - 1
    BY <1>15, <2>1
  <2> QED
    BY <1>1, <2>2
<1> QED
  BY <1>11, <1>12, <1>13, <1>14, <1>15 DEF Lists, n, list

\* The places of a list are finitely many.
LEMMA PlacesFinite ==
  ASSUME NEW list, NEW X, list \in Seq(X)
  PROVE  /\ DOMAIN list = 1 .. Len(list) /\ Len(list) \in Nat /\ IsFiniteSet(DOMAIN list)
         /\ \A T \in SUBSET DOMAIN list : IsFiniteSet(T)
<1>1. DOMAIN list = 1 .. Len(list) /\ Len(list) \in Nat
  OBVIOUS
<1>2. IsFiniteSet(DOMAIN list)
  BY <1>1, FS_Interval
<1> QED
  BY <1>1, <1>2, FS_Subset

\* The entry of out at k is that of list at at[k], and at has just these places.
Picks(out, list, places, at) ==
  /\ DOMAIN out = 1 .. Len(out) /\ Len(out) \in Nat
  /\ at \in [1 .. Len(out) -> places]
  /\ \A k \in 1 .. Len(out) : out[k] = list[at[k]]
  /\ \A i \in places : \E k \in 1 .. Len(out) : at[k] = i
  /\ \A j, k \in 1 .. Len(out) : at[j] = at[k] => j = k

\* Entries of a list, put in order by their places.
LEMMA PickedInOrder ==
  ASSUME NEW X, NEW list \in Seq(X), NEW places \in SUBSET DOMAIN list,
         NEW at, NEW order, Lists(at, places, order), NEW out, out = [k \in DOMAIN at |-> list[at[k]]]
  PROVE  out \in Seq(X) /\ Picks(out, list, places, at)
<1>1. /\ at \in Seq(places) /\ DOMAIN at = 1 .. Len(at) /\ Len(at) \in Nat
      /\ \A x \in places : \E k \in 1 .. Len(at) : at[k] = x
      /\ \A j, k \in 1 .. Len(at) : at[j] = at[k] => j = k
  <2>1. at \in Seq(places)
    BY Zenon DEF Lists
  <2>2. Len(at) \in Nat
    BY <2>1
  <2> QED
    BY <2>1, <2>2, Zenon DEF Lists
<1>2. \A k \in 1 .. Len(at) : at[k] \in places /\ at[k] \in 1 .. Len(list)
  BY <1>1
<1>3. out \in [1 .. Len(at) -> X]
  BY <1>1, <1>2
<1>4. out \in Seq(X) /\ Len(out) = Len(at) /\ DOMAIN out = 1 .. Len(out)
  BY <1>1, <1>3
<1>5. at \in [1 .. Len(out) -> places]
  BY <1>1, <1>4
<1>6. \A k \in 1 .. Len(out) : out[k] = list[at[k]]
  BY <1>1, <1>4
<1> QED
  BY <1>1, <1>4, <1>5, <1>6 DEF Picks

\* Array.filter gives the entries in the set, one for each place that holds one.
LEMMA FilterPicks ==
  ASSUME NEW X, NEW list \in Seq(X), NEW set
  PROVE  /\ Filter(list, set) \in Seq(X)
         /\ \E at : Picks(Filter(list, set), list, {i \in DOMAIN list : list[i] \in set}, at)
<1> DEFINE places == {i \in DOMAIN list : list[i] \in set}
           order == {p \in places \X places : p[1] < p[2]}
           at == InOrder(places, order)
<1>1. Filter(list, set) = [k \in DOMAIN at |-> list[at[k]]]
  BY DEF Filter
<1>2. places \in SUBSET DOMAIN list /\ places \subseteq Int
  BY PlacesFinite
<1>3. IsFiniteSet(places)
  BY <1>2, PlacesFinite
<1>4. \A x, y \in places : <<x, y>> \in order <=> x < y
  OBVIOUS
<1> HIDE DEF order
<1>5. Orders(order, places)
  <2> HIDE DEF places
  <2> QED
    BY <1>2, <1>4 DEF Orders
<1>6. Lists(at, places, order)
  BY <1>3, <1>5, PutInOrder
<1> HIDE DEF places, at
<1>7. \A out : out = [k \in DOMAIN at |-> list[at[k]]] => out \in Seq(X) /\ Picks(out, list, places, at)
  BY <1>2, <1>6, PickedInOrder
<1>8. Filter(list, set) \in Seq(X) /\ Picks(Filter(list, set), list, places, at)
  BY <1>1, <1>7, Zenon
<1> QED
  BY <1>8, Zenon DEF places

\* No edge of the list is heavier than one before it.
Falling(es) == \A j, k \in 1 .. Len(es) : j < k => es[k].weight <= es[j].weight

\* The edges of a node, put in order, are its edges heavy enough, the heaviest first.
LEMMA OutgoingPicks ==
  ASSUME library \in Seq(LibraryEdge), NEW v, NEW minWeight, MemoryGraphAssumption
  PROVE  /\ Outgoing(v, minWeight) \in Seq(LibraryEdge)
         /\ \E at : Picks(Outgoing(v, minWeight), library,
              {i \in DOMAIN library : library[i].from = v /\ library[i].weight >= minWeight}, at)
         /\ Falling(Outgoing(v, minWeight))
<1> DEFINE places == {i \in DOMAIN library : library[i].from = v /\ library[i].weight >= minWeight}
           order == {p \in places \X places :
                       \/ library[p[1]].weight > library[p[2]].weight
                       \/ library[p[1]].weight = library[p[2]].weight /\ p[1] < p[2]}
           at == InOrder(places, order)
<1>1. Outgoing(v, minWeight) = [k \in DOMAIN at |-> library[at[k]]]
  BY DEF Outgoing
<1>2. places \in SUBSET DOMAIN library /\ places \subseteq Int
  BY PlacesFinite
<1>3. IsFiniteSet(places)
  BY <1>2, PlacesFinite
<1>4. \A x \in places : library[x].weight \in Int
  <2>1. \A x \in DOMAIN library : library[x] \in LibraryEdge
    OBVIOUS
  <2>2. \A e \in LibraryEdge : e.weight \in Int
    <3>1. \A e \in LibraryEdge : e.weight \in Nat
      BY Zenon DEF MemoryGraphAssumption
    <3> QED
      BY <3>1
  <2> QED
    BY <1>2, <2>1, <2>2
<1>5. \A x, y \in places : <<x, y>> \in order <=>
        \/ library[x].weight > library[y].weight
        \/ library[x].weight = library[y].weight /\ x < y
  OBVIOUS
<1> HIDE DEF order
<1>6. Orders(order, places)
  <2> HIDE DEF places
  <2>1. \A x \in places : <<x, x>> \notin order
    BY <1>2, <1>4, <1>5
  <2>2. ASSUME NEW x \in places, NEW y \in places PROVE x = y \/ <<x, y>> \in order \/ <<y, x>> \in order
    <3> DEFINE a == library[x].weight
               b == library[y].weight
    <3>1. a \in Int /\ b \in Int /\ x \in Int /\ y \in Int
      BY <1>2, <1>4
    <3>2. /\ <<x, y>> \in order <=> (a > b \/ (a = b /\ x < y))
          /\ <<y, x>> \in order <=> (b > a \/ (b = a /\ y < x))
      BY <1>5
    <3> HIDE DEF a, b
    <3> QED
      BY <3>1, <3>2
  <2>3. ASSUME NEW x \in places, NEW y \in places, NEW z \in places, <<x, y>> \in order, <<y, z>> \in order
        PROVE  <<x, z>> \in order
    <3> DEFINE a == library[x].weight
               b == library[y].weight
               c == library[z].weight
    <3>1. a \in Int /\ b \in Int /\ c \in Int /\ x \in Int /\ y \in Int /\ z \in Int
      BY <1>2, <1>4
    <3>2. (a > b \/ (a = b /\ x < y)) /\ (b > c \/ (b = c /\ y < z))
      BY <1>5, <2>3
    <3>3. <<x, z>> \in order <=> (a > c \/ (a = c /\ x < z))
      BY <1>5
    <3> HIDE DEF a, b, c
    <3> QED
      BY <3>1, <3>2, <3>3
  <2> QED
    BY <2>1, <2>2, <2>3 DEF Orders
<1>7. Lists(at, places, order)
  BY <1>3, <1>6, PutInOrder
<1> HIDE DEF places, at
<1>10. \A out : out = [k \in DOMAIN at |-> library[at[k]]] => Falling(out)
  <2>1. /\ \A k \in 1 .. Len(at) : at[k] \in places
        /\ \A j, k \in 1 .. Len(at) : j < k => <<at[j], at[k]>> \in order
        /\ DOMAIN at = 1 .. Len(at) /\ Len(at) \in Nat
    <3>1. at \in Seq(places)
      BY <1>7, Zenon DEF Lists
    <3>2. /\ DOMAIN at = 1 .. Len(at)
          /\ \A j, k \in 1 .. Len(at) : j < k => <<at[j], at[k]>> \in order
      BY <1>7, Zenon DEF Lists
    <3> QED
      BY <3>1, <3>2
  <2>2. ASSUME NEW j \in 1 .. Len(at), NEW k \in 1 .. Len(at), j < k
        PROVE  library[at[k]].weight <= library[at[j]].weight
    <3> DEFINE x == at[j]
               y == at[k]
    <3>1. x \in places /\ y \in places /\ <<x, y>> \in order
      BY <2>1, <2>2
    <3> HIDE DEF x, y
    <3>2. /\ library[x].weight \in Int /\ library[y].weight \in Int
          /\ library[x].weight > library[y].weight \/ library[x].weight = library[y].weight
      BY <1>4, <1>5, <3>1
    <3>3. library[y].weight <= library[x].weight
      BY <3>2
    <3> QED
      BY <3>3 DEF x, y
  <2>3. ASSUME NEW out, out = [k \in DOMAIN at |-> library[at[k]]] PROVE Falling(out)
    <3>1. Len(out) = Len(at) /\ \A k \in 1 .. Len(at) : out[k] = library[at[k]]
      BY <2>1, <2>3
    <3> QED
      BY <2>2, <3>1 DEF Falling
  <2> QED
    BY <2>3
<1>8. \A out : out = [k \in DOMAIN at |-> library[at[k]]] => out \in Seq(LibraryEdge) /\ Picks(out, library, places, at)
  BY <1>2, <1>7, PickedInOrder
<1>9. /\ Outgoing(v, minWeight) \in Seq(LibraryEdge) /\ Picks(Outgoing(v, minWeight), library, places, at)
      /\ Falling(Outgoing(v, minWeight))
  BY <1>1, <1>8, <1>10, Zenon
<1> QED
  BY <1>9, Zenon DEF places

\* What the filters keep has its type, and each entry is one of the list.
LEMMA FilterKeeps ==
  ASSUME NEW X, NEW list \in Seq(X), NEW set
  PROVE  /\ Filter(list, set) \in Seq(X)
         /\ \A k \in DOMAIN Filter(list, set) : \E i \in DOMAIN list : Filter(list, set)[k] = list[i]
<1>1. PICK at : Picks(Filter(list, set), list, {i \in DOMAIN list : list[i] \in set}, at)
  BY FilterPicks, Zenon
<1>2. ASSUME NEW k \in DOMAIN Filter(list, set)
      PROVE  at[k] \in DOMAIN list /\ Filter(list, set)[k] = list[at[k]]
  BY <1>1 DEF Picks
<1>3. Filter(list, set) \in Seq(X)
  BY FilterPicks, Zenon
<1> QED
  BY <1>2, <1>3, Zenon

\* The rows left by Without, with a row of today before them.
LEMMA RowBefore ==
  ASSUME GraphTypeOK, NEW id, NEW m \in MemoryRow, m.at <= now
  PROVE  /\ Without(id) \in Seq(MemoryRow) /\ <<m>> \o Without(id) \in Seq(MemoryRow)
         /\ \A k \in DOMAIN Without(id) : Without(id)[k].at <= now
         /\ \A k \in DOMAIN (<<m>> \o Without(id)) : (<<m>> \o Without(id))[k].at <= now
<1> DEFINE w == Without(id)
<1>1. w \in Seq(MemoryRow) /\ \A k \in DOMAIN w : \E i \in DOMAIN memories : w[k] = memories[i]
  <2>1. memories \in Seq(MemoryRow)
    BY Zenon DEF GraphTypeOK
  <2>2. w = Filter(memories, {r \in MemoryRow : r.id # id})
    BY Zenon DEF Without
  <2>3. ASSUME NEW set
        PROVE  /\ Filter(memories, set) \in Seq(MemoryRow)
               /\ \A k \in DOMAIN Filter(memories, set) : \E i \in DOMAIN memories : Filter(memories, set)[k] = memories[i]
    BY <2>1, FilterKeeps
  <2> HIDE DEF w
  <2> QED
    BY <2>2, <2>3, Zenon
<1>2. \A k \in DOMAIN w : w[k].at <= now
  BY <1>1, Zenon DEF GraphTypeOK
<1> HIDE DEF w
<1>3. <<m>> \o w \in Seq(MemoryRow)
  BY <1>1
<1>4. ASSUME NEW k \in DOMAIN (<<m>> \o w) PROVE (<<m>> \o w)[k].at <= now
  <2>1. k = 1 \/ (k - 1 \in DOMAIN w /\ k # 1)
    BY <1>1
  <2>2. CASE k = 1
    BY <1>1, <2>2
  <2>3. CASE k - 1 \in DOMAIN w /\ k # 1
    <3>1. (<<m>> \o w)[k] = w[k - 1]
      BY <1>1, <2>3
    <3> QED
      BY <1>2, <2>3, <3>1
  <2> QED
    BY <2>1, <2>2, <2>3
<1> QED
  BY <1>1, <1>2, <1>3, <1>4 DEF w

\* A snapshot of today before the history.
LEMMA SnapshotBefore ==
  ASSUME GraphTypeOK, NEW s \in SnapshotRow, s.at <= now
  PROVE  /\ <<s>> \o history \in Seq(SnapshotRow)
         /\ \A k \in DOMAIN (<<s>> \o history) : (<<s>> \o history)[k].at <= now
<1>1. history \in Seq(SnapshotRow) /\ \A i \in DOMAIN history : history[i].at <= now
  BY Zenon DEF GraphTypeOK
<1>2. <<s>> \o history \in Seq(SnapshotRow)
  BY <1>1
<1>3. ASSUME NEW k \in DOMAIN (<<s>> \o history) PROVE (<<s>> \o history)[k].at <= now
  <2>1. k = 1 \/ (k - 1 \in DOMAIN history /\ k # 1)
    BY <1>1
  <2>2. CASE k = 1
    BY <1>1, <2>2
  <2>3. CASE k - 1 \in DOMAIN history /\ k # 1
    <3>1. (<<s>> \o history)[k] = history[k - 1]
      BY <1>1, <2>3
    <3> QED
      BY <1>1, <2>3, <3>1
  <2> QED
    BY <2>1, <2>2, <2>3
<1> QED
  BY <1>2, <1>3

\* What a run of the indexer scans are rows of the tables.
LEMMA ScansTyped ==
  ASSUME GraphTypeOK, MemoryGraphAssumption, NEW since
  PROVE  Listed(ListLimit, since) \in Seq(MemoryRow) /\ Snapshots(SnapLimit, since) \in Seq(SnapshotRow)
<1> DEFINE first == SubSeq(memories, 1, IF Len(memories) < ListLimit THEN Len(memories) ELSE ListLimit)
           recent == Filter(history, {s \in SnapshotRow : s.at >= since})
<1>1. ListLimit \in Nat /\ SnapLimit \in Nat
  BY DEF MemoryGraphAssumption
<1>2. memories \in Seq(MemoryRow) /\ history \in Seq(SnapshotRow)
  BY Zenon DEF GraphTypeOK
<1>3. first \in Seq(MemoryRow)
  BY <1>1, <1>2
<1>4. recent \in Seq(SnapshotRow)
  BY <1>2, FilterKeeps
<1>5. Listed(ListLimit, since) = Filter(first, {m \in MemoryRow : m.at >= since})
  BY Zenon DEF Listed
<1>6. Snapshots(SnapLimit, since) = SubSeq(recent, 1, IF Len(recent) < SnapLimit THEN Len(recent) ELSE SnapLimit)
  BY Zenon DEF Snapshots
<1> HIDE DEF first, recent
<1>7. Listed(ListLimit, since) \in Seq(MemoryRow)
  BY <1>3, <1>5, FilterKeeps
<1> QED
  BY <1>1, <1>4, <1>6, <1>7

\* An edge takes the place of the one with its key, or comes last.
LEMMA EdgeAdded ==
  ASSUME library \in Seq(LibraryEdge), NEW e \in LibraryEdge, AddEdge(e)
  PROVE  /\ library' \in Seq(LibraryEdge)
         /\ UniqueEdges => UniqueEdges'
<1>1. CASE \E i \in DOMAIN library : Key(library[i]) = Key(e)
  <2>1. library' = [i \in DOMAIN library |-> IF Key(library[i]) = Key(e) THEN e ELSE library[i]]
    BY <1>1 DEF AddEdge
  <2>2. DOMAIN library = 1 .. Len(library) /\ Len(library) \in Nat
    OBVIOUS
  <2>3. library' \in [1 .. Len(library) -> LibraryEdge]
    BY <2>1, <2>2
  <2>4. \A i \in DOMAIN library : Key(library'[i]) = Key(library[i])
    BY <2>1
  <2>5. library' \in Seq(LibraryEdge) /\ DOMAIN library' = DOMAIN library
    BY <2>1, <2>2, <2>3
  <2>6. ASSUME UniqueEdges PROVE \A i, j \in DOMAIN library' : Key(library'[i]) = Key(library'[j]) => i = j
    BY <2>4, <2>5, <2>6, Zenon DEF UniqueEdges
  <2>7. UniqueEdges' <=> \A i, j \in DOMAIN library' : Key(library'[i]) = Key(library'[j]) => i = j
    BY Zenon DEF UniqueEdges, Key
  <2> QED
    BY <2>5, <2>6, <2>7
<1>2. CASE ~\E i \in DOMAIN library : Key(library[i]) = Key(e)
  <2>1. library' = Append(library, e)
    BY <1>2 DEF AddEdge
  <2>2. /\ library' \in Seq(LibraryEdge) /\ DOMAIN library' = 1 .. Len(library) + 1
        /\ DOMAIN library = 1 .. Len(library) /\ Len(library) \in Nat
        /\ \A i \in 1 .. Len(library) : library'[i] = library[i]
        /\ library'[Len(library) + 1] = e
    BY <2>1
  <2>3. ASSUME UniqueEdges, NEW i \in DOMAIN library', NEW j \in DOMAIN library', Key(library'[i]) = Key(library'[j])
        PROVE  i = j
    <3> DEFINE K(k) == Key(library'[k])
    <3>1. \A k \in 1 .. Len(library) : K(k) # K(Len(library) + 1)
      BY <1>2, <2>2 DEF Key
    <3>2. \A k, h \in 1 .. Len(library) : K(k) = K(h) => k = h
      BY <2>2, <2>3 DEF UniqueEdges
    <3>3. K(i) = K(j)
      BY <2>3
    <3> HIDE DEF K
    <3> QED
      BY <2>2, <3>1, <3>2, <3>3
  <2>4. UniqueEdges' <=> \A i, j \in DOMAIN library' : Key(library'[i]) = Key(library'[j]) => i = j
    BY Zenon DEF UniqueEdges, Key
  <2> QED
    BY <2>2, <2>3, <2>4
<1> QED
  BY <1>1, <1>2

\* The edges left by the removal of a node had different keys before it.
LEMMA EdgesRemoved ==
  ASSUME library \in Seq(LibraryEdge), NEW v, RemoveNode(v), UniqueEdges
  PROVE  UniqueEdges'
<1> DEFINE set == {e \in LibraryEdge : e.from # v /\ e.to # v}
           places == {i \in DOMAIN library : library[i] \in set}
<1>1. library' = Filter(library, set)
  BY Zenon DEF RemoveNode
<1>2. PICK at : Picks(library', library, places, at)
  <2>1. \E at : Picks(Filter(library, set), library, places, at)
    BY FilterPicks, Zenon
  <2> QED
    BY <1>1, <2>1, Zenon
<1>3. /\ DOMAIN library' = 1 .. Len(library') /\ \A k \in 1 .. Len(library') : at[k] \in DOMAIN library
      /\ \A k \in 1 .. Len(library') : library'[k] = library[at[k]]
      /\ \A j, k \in 1 .. Len(library') : at[j] = at[k] => j = k
  BY <1>2 DEF Picks
<1>4. UniqueEdges' <=> \A i, j \in DOMAIN library' : Key(library'[i]) = Key(library'[j]) => i = j
  BY Zenon DEF UniqueEdges, Key
<1> HIDE DEF set, places
<1>5. ASSUME NEW i \in DOMAIN library', NEW j \in DOMAIN library', Key(library'[i]) = Key(library'[j])
      PROVE  i = j
  <2>1. /\ at[i] \in DOMAIN library /\ at[j] \in DOMAIN library
        /\ Key(library[at[i]]) = Key(library[at[j]])
    BY <1>3, <1>5
  <2>2. at[i] = at[j]
    BY <2>1, Zenon DEF UniqueEdges
  <2> QED
    BY <1>3, <2>2
<1> QED
  BY <1>4, <1>5

\* So had those left by the removal of one edge.
LEMMA EdgeTaken ==
  ASSUME library \in Seq(LibraryEdge), NEW i \in DOMAIN library, RemoveEdge(i)
  PROVE  /\ library' \in Seq(LibraryEdge)
         /\ UniqueEdges => UniqueEdges'
<1> DEFINE place(k) == IF k < i THEN k ELSE k + 1
<1>1. library' = SubSeq(library, 1, i - 1) \o SubSeq(library, i + 1, Len(library))
  BY DEF RemoveEdge, RemoveAt
<1>2. /\ i \in 1 .. Len(library) /\ Len(library) \in Nat /\ DOMAIN library = 1 .. Len(library)
  OBVIOUS
<1>3. /\ library' \in Seq(LibraryEdge) /\ DOMAIN library' = 1 .. Len(library) - 1
      /\ \A k \in 1 .. Len(library) - 1 : library'[k] = library[place(k)] /\ place(k) \in 1 .. Len(library)
  <2> DEFINE n == Len(library)
             before == SubSeq(library, 1, i - 1)
             after == SubSeq(library, i + 1, n)
  <2>1. n \in Nat /\ i \in 1 .. n /\ DOMAIN library = 1 .. n
    BY <1>2
  <2>2. /\ before \in Seq(LibraryEdge) /\ Len(before) = i - 1
        /\ \A k \in 1 .. i - 1 : before[k] = library[k]
    BY <2>1
  <2>3. /\ after \in Seq(LibraryEdge) /\ Len(after) = n - i
        /\ \A k \in 1 .. n - i : after[k] = library[k + i]
    BY <2>1
  <2> DEFINE rest == before \o after
  <2>4. library' = rest
    BY <1>1
  <2> HIDE DEF before, after
  <2>5. /\ rest \in Seq(LibraryEdge) /\ Len(rest) = Len(before) + Len(after)
        /\ \A k \in 1 .. Len(before) + Len(after) :
             rest[k] = IF k <= Len(before) THEN before[k] ELSE after[k - Len(before)]
    BY <2>2, <2>3, ConcatProperties
  <2> HIDE DEF rest
  <2>6. /\ rest \in Seq(LibraryEdge) /\ Len(rest) = n - 1 /\ DOMAIN rest = 1 .. n - 1
        /\ \A k \in 1 .. n - 1 : rest[k] = IF k <= i - 1 THEN before[k] ELSE after[k - (i - 1)]
    BY <2>1, <2>2, <2>3, <2>5
  <2>7. ASSUME NEW k \in 1 .. n - 1 PROVE rest[k] = library[place(k)] /\ place(k) \in 1 .. n
    <3>1. CASE k < i
      BY <2>1, <2>2, <2>6, <3>1
    <3>2. CASE ~(k < i)
      <4> DEFINE h == k - (i - 1)
      <4>1. h \in 1 .. n - i /\ h + i = k + 1 /\ place(k) = k + 1 /\ k + 1 \in 1 .. n
        BY <2>1, <3>2
      <4>2. rest[k] = after[h]
        BY <2>1, <2>6, <3>2
      <4> HIDE DEF h, place
      <4>3. after[h] = library[h + i]
        BY <2>3, <4>1
      <4> QED
        BY <4>1, <4>2, <4>3
    <3> QED
      BY <3>1, <3>2
  <2> QED
    BY <2>4, <2>6, <2>7
<1>4. \A j, k \in 1 .. Len(library) - 1 : place(j) = place(k) => j = k
  BY <1>2
<1>5. UniqueEdges' <=> \A j, k \in DOMAIN library' : Key(library'[j]) = Key(library'[k]) => j = k
  BY Zenon DEF UniqueEdges, Key
<1> HIDE DEF place
<1>6. ASSUME UniqueEdges, NEW j \in DOMAIN library', NEW k \in DOMAIN library', Key(library'[j]) = Key(library'[k])
      PROVE  j = k
  <2>1. place(j) = place(k)
    BY <1>2, <1>3, <1>6 DEF UniqueEdges
  <2> QED
    BY <1>3, <1>4, <2>1
<1> QED
  BY <1>3, <1>5, <1>6

\* The tables and the library's edges keep their types, and no row is of a day to come.
LEMMA GraphTypesKept ==
  ASSUME MemoryGraphAssumption, GraphTypeOK, [GraphNext]_graphVars
  PROVE  GraphTypeOK'
<1>1. /\ memories \in Seq(MemoryRow) /\ history \in Seq(SnapshotRow) /\ library \in Seq(LibraryEdge)
      /\ now \in 0 .. LastDay /\ LastDay \in Nat
      /\ \A i \in DOMAIN memories : memories[i].at <= now
      /\ \A i \in DOMAIN history : history[i].at <= now
  BY Zenon DEF GraphTypeOK, MemoryGraphAssumption
<1>2. ASSUME NEW id \in KeptId, NEW content \in Contents, Remember(id, content) PROVE GraphTypeOK'
  <2> DEFINE m == [id |-> id, content |-> content, at |-> now]
             s == [id |-> id, content |-> content, at |-> now, operation |-> "upsert"]
  <2>1. m \in MemoryRow /\ m.at <= now /\ s \in SnapshotRow /\ s.at <= now
    BY <1>1 DEF MemoryRow, SnapshotRow
  <2>2. memories' = <<m>> \o Without(id) /\ history' = <<s>> \o history /\ now' = now /\ library' = library
    BY <1>2 DEF Remember
  <2> HIDE DEF m, s
  <2> QED
    BY <1>1, <2>1, <2>2, RowBefore, SnapshotBefore DEF GraphTypeOK
<1>3. ASSUME NEW id \in KeptId, Forget(id) PROVE GraphTypeOK'
  <2>1. PICK i \in DOMAIN memories : history' = <<[id |-> id, content |-> memories[i].content, at |-> now,
                                                operation |-> "delete"]>> \o history
    BY <1>3 DEF Forget
  <2> DEFINE s == [id |-> id, content |-> memories[i].content, at |-> now, operation |-> "delete"]
  <2>2. memories[i].content \in Contents /\ memories[i] \in MemoryRow /\ memories[i].at <= now
    <3>1. memories[i] \in MemoryRow /\ memories[i].at <= now
      BY <1>1
    <3> QED
      BY <3>1 DEF MemoryRow
  <2>3. s \in SnapshotRow /\ s.at <= now
    BY <1>1, <2>2 DEF SnapshotRow
  <2>4. memories' = Without(id) /\ now' = now /\ library' = library
    BY <1>3 DEF Forget
  <2>5. history' = <<s>> \o history
    BY <2>1
  <2> HIDE DEF s
  <2>6. /\ Without(id) \in Seq(MemoryRow)
        /\ \A k \in DOMAIN Without(id) : Without(id)[k].at <= now
    BY <2>2, RowBefore
  <2> QED
    BY <1>1, <2>3, <2>4, <2>5, <2>6, SnapshotBefore DEF GraphTypeOK
<1>4. CASE NextGraphDay
  <2>1. memories' = memories /\ history' = history /\ library' = library /\ now' = now + 1 /\ now < LastDay
    BY <1>4 DEF NextGraphDay
  <2>2. \A i \in DOMAIN memories : memories[i].at \in Int
    <3>1. \A i \in DOMAIN memories : memories[i] \in MemoryRow
      BY <1>1
    <3> QED
      BY <3>1 DEF MemoryRow
  <2>3. \A i \in DOMAIN history : history[i].at \in Int
    <3>1. \A i \in DOMAIN history : history[i] \in SnapshotRow
      BY <1>1
    <3> QED
      BY <3>1 DEF SnapshotRow
  <2>4. /\ \A i \in DOMAIN memories : memories[i].at <= now + 1
        /\ \A i \in DOMAIN history : history[i].at <= now + 1
        /\ now + 1 \in 0 .. LastDay
    BY <1>1, <2>1, <2>2, <2>3
  <2> QED
    BY <1>1, <2>1, <2>4, Zenon DEF GraphTypeOK
<1>5. ASSUME NEW since, IndexMemoryGraph(since) PROVE GraphTypeOK'
  <2>1. memories' = memories /\ history' = history /\ now' = now /\ library' = library
    BY <1>5 DEF IndexMemoryGraph
  <2> QED
    BY <1>1, <2>1 DEF GraphTypeOK
<1>6. ASSUME NEW e \in LibraryEdge, AddEdge(e) PROVE GraphTypeOK'
  <2>1. library' \in Seq(LibraryEdge)
    BY <1>1, <1>6, EdgeAdded
  <2> QED
    BY <1>1, <1>6, <2>1, Zenon DEF GraphTypeOK, AddEdge
<1>7. ASSUME NEW v \in Vertex, RemoveNode(v) PROVE GraphTypeOK'
  <2>1. library' \in Seq(LibraryEdge)
    BY <1>1, <1>7, FilterKeeps, Zenon DEF RemoveNode
  <2> QED
    BY <1>1, <1>7, <2>1, Zenon DEF GraphTypeOK, RemoveNode
<1>8. ASSUME NEW o, ReachableFrom(o) PROVE GraphTypeOK'
  BY <1>1, <1>8, Zenon DEF GraphTypeOK, ReachableFrom
<1>9. CASE UNCHANGED graphVars
  BY <1>1, <1>9, Zenon DEF GraphTypeOK, graphVars
<1>10. ASSUME NEW i \in DOMAIN library, RemoveEdge(i) PROVE GraphTypeOK'
  <2>1. library' \in Seq(LibraryEdge)
    BY <1>1, <1>10, EdgeTaken
  <2> QED
    BY <1>1, <1>10, <2>1, Zenon DEF GraphTypeOK, RemoveEdge
<1> QED
  BY <1>2, <1>3, <1>4, <1>5, <1>6, <1>7, <1>8, <1>9, <1>10, Zenon DEF GraphNext, IndexerNext, LibraryNext

-----------------------------------------------------------------------------
\* The nodes one row is drawn as.
RowNodes(r) ==
  {MemoryNode(r.id), DayNode(r.at)}
    \cup (IF r.content.session = NoSession THEN {} ELSE {SessionNode(r.content.session)})

\* Each row scanned is drawn as its nodes.
LEMMA RowsDrawn ==
  ASSUME NEW list \in Seq(MemoryRow), NEW shots \in Seq(SnapshotRow)
  PROVE  /\ \A i \in DOMAIN list : RowNodes(list[i]) \subseteq NodesOf(list \o shots)
         /\ \A i \in DOMAIN shots : RowNodes(shots[i]) \subseteq NodesOf(list \o shots)
<1> DEFINE both == list \o shots
<1>1. NodesOf(both) = UNION {RowNodes(both[i]) : i \in DOMAIN both}
  BY Zenon DEF NodesOf, RowNodes
<1>2. \A i \in DOMAIN list : i \in DOMAIN both /\ both[i] = list[i]
  OBVIOUS
<1>3. ASSUME NEW i \in DOMAIN shots PROVE \E k \in DOMAIN both : both[k] = shots[i]
  <2>1. Len(list) + i \in DOMAIN both /\ both[Len(list) + i] = shots[i]
    OBVIOUS
  <2> QED
    BY <2>1
<1> HIDE DEF both
<1>4. \A k \in DOMAIN both : RowNodes(both[k]) \subseteq NodesOf(both)
  BY <1>1
<1> QED
  BY <1>2, <1>3, <1>4, Zenon DEF both

\* A chat turn's targets file by file, and in a file by their places in the list.
FileByFile(list, m) == {p \in Targets(list, m) \X Targets(list, m) : Sooner(p[1], p[2])}

TargetOrder(list, m) == InOrder(Targets(list, m), FileByFile(list, m))

\* The links are drawn for the first targets in this order.
LEMMA LinksInOrder ==
  ASSUME MemoryGraphAssumption, NEW list \in Seq(MemoryRow), NEW m
  PROVE  /\ Lists(TargetOrder(list, m), Targets(list, m), FileByFile(list, m))
         /\ IsFiniteSet(Targets(list, m))
         /\ ChatLinks(list, m) =
              {Edge(MemoryNode(m.id), MemoryNode(list[TargetOrder(list, m)[k][2]].id), "chat_to_code",
                    <<FileOrder[TargetOrder(list, m)[k][1]], k - 1>>) : k \in {j \in DOMAIN TargetOrder(list, m) : j <= MaxLinks}}
<1> DEFINE T == Targets(list, m)
           R == FileByFile(list, m)
<1>1. IsFiniteSet(DOMAIN FileOrder) /\ IsFiniteSet(DOMAIN list)
  <2>1. FileOrder \in Seq(UNION {c.files : c \in Contents})
    BY Zenon DEF MemoryGraphAssumption
  <2> QED
    BY <2>1, PlacesFinite
<1>2. IsFiniteSet((DOMAIN FileOrder) \X (DOMAIN list))
  BY <1>1, FS_Product
<1>3. T \in SUBSET ((DOMAIN FileOrder) \X (DOMAIN list))
  BY DEF Targets
<1>4. IsFiniteSet(T)
  BY <1>2, <1>3, FS_Subset
<1>5. \A t \in T : t[1] \in Int /\ t[2] \in Int /\ t = <<t[1], t[2]>>
  <2>1. DOMAIN FileOrder \subseteq Int /\ DOMAIN list \subseteq Int
    <3>1. FileOrder \in Seq(UNION {c.files : c \in Contents})
      BY Zenon DEF MemoryGraphAssumption
    <3> QED
      BY <3>1
  <2> QED
    BY <1>3, <2>1
<1>6. \A s, t \in T : <<s, t>> \in R <=> (s[1] < t[1] \/ (s[1] = t[1] /\ s[2] < t[2]))
  BY DEF FileByFile, Sooner
<1> HIDE DEF T, R
<1>7. \A t \in T : <<t, t>> \notin R
  BY <1>5, <1>6
<1>8. ASSUME NEW s \in T, NEW t \in T PROVE s = t \/ <<s, t>> \in R \/ <<t, s>> \in R
  <2>1. s[1] = t[1] /\ s[2] = t[2] => s = t
    BY <1>5, Zenon
  <2> DEFINE a == s[1]
             b == s[2]
             c == t[1]
             d == t[2]
  <2>2. a \in Int /\ b \in Int /\ c \in Int /\ d \in Int
    BY <1>5
  <2>3. /\ <<s, t>> \in R <=> (a < c \/ (a = c /\ b < d))
        /\ <<t, s>> \in R <=> (c < a \/ (c = a /\ d < b))
        /\ a = c /\ b = d => s = t
    BY <1>6, <2>1
  <2> HIDE DEF a, b, c, d
  <2> QED
    BY <2>2, <2>3
<1>9. ASSUME NEW s \in T, NEW t \in T, NEW u \in T, <<s, t>> \in R, <<t, u>> \in R PROVE <<s, u>> \in R
  <2> DEFINE a == s[1]
             b == s[2]
             c == t[1]
             d == t[2]
             e == u[1]
             f == u[2]
  <2>1. a \in Int /\ b \in Int /\ c \in Int /\ d \in Int /\ e \in Int /\ f \in Int
    BY <1>5
  <2>2. (a < c \/ (a = c /\ b < d)) /\ (c < e \/ (c = e /\ d < f))
    BY <1>6, <1>9
  <2>3. <<s, u>> \in R <=> (a < e \/ (a = e /\ b < f))
    BY <1>6
  <2> HIDE DEF a, b, c, d, e, f
  <2> QED
    BY <2>1, <2>2, <2>3
<1>10. Orders(R, T)
  BY <1>7, <1>8, <1>9 DEF Orders
<1>11. Lists(InOrder(T, R), T, R)
  BY <1>4, <1>10, PutInOrder
<1>12. ChatLinks(list, m) =
              {Edge(MemoryNode(m.id), MemoryNode(list[TargetOrder(list, m)[k][2]].id), "chat_to_code",
                    <<FileOrder[TargetOrder(list, m)[k][1]], k - 1>>) : k \in {j \in DOMAIN TargetOrder(list, m) : j <= MaxLinks}}
  BY Zenon DEF ChatLinks, TargetOrder, FileByFile
<1> QED
  BY <1>4, <1>11, <1>12, Zenon DEF TargetOrder, T, R

\* What a run draws of what it scanned.
DrawnEdges(list, shots) ==
  (UNION {MemoryEdges(list[i]) : i \in DOMAIN list})
    \cup (UNION {ChatLinks(list, list[i]) : i \in {h \in DOMAIN list : list[h].content.kind = "chat_turn"}})
    \cup (UNION {SnapshotEdges(shots[i]) : i \in DOMAIN shots})

\* A link leads from the turn's memory to that of a target.
LEMMA LinkEnds ==
  ASSUME MemoryGraphAssumption, NEW list \in Seq(MemoryRow), NEW m, NEW e \in ChatLinks(list, m)
  PROVE  e.from = MemoryNode(m.id) /\ \E i \in DOMAIN list : e.to = MemoryNode(list[i].id)
<1> DEFINE order == TargetOrder(list, m)
           link(k) == Edge(MemoryNode(m.id), MemoryNode(list[order[k][2]].id), "chat_to_code",
                           <<FileOrder[order[k][1]], k - 1>>)
<1>1. PICK k \in DOMAIN order : e = link(k)
  <2>1. ChatLinks(list, m) = {link(k) : k \in {j \in DOMAIN order : j <= MaxLinks}}
    BY LinksInOrder, Zenon
  <2> HIDE DEF link, order
  <2> QED
    BY <2>1
<1>2. order[k] \in Targets(list, m)
  <2>1. order \in Seq(Targets(list, m))
    BY LinksInOrder, Zenon DEF Lists
  <2> HIDE DEF order
  <2> QED
    BY <2>1
<1>3. order[k][2] \in DOMAIN list
  BY <1>2 DEF Targets
<1> HIDE DEF order
<1>4. e.from = MemoryNode(m.id) /\ e.to = MemoryNode(list[order[k][2]].id)
  BY <1>1 DEF Edge
<1> QED
  BY <1>3, <1>4

\* The edges drawn end at nodes drawn.
LEMMA DrawnEnds ==
  ASSUME MemoryGraphAssumption, NEW list \in Seq(MemoryRow), NEW shots \in Seq(SnapshotRow),
         NEW e \in DrawnEdges(list, shots)
  PROVE  e.from \in NodesOf(list \o shots) /\ e.to \in NodesOf(list \o shots)
<1>1. /\ \A i \in DOMAIN list : RowNodes(list[i]) \subseteq NodesOf(list \o shots)
      /\ \A i \in DOMAIN shots : RowNodes(shots[i]) \subseteq NodesOf(list \o shots)
  BY RowsDrawn
<1>2. ASSUME NEW i \in DOMAIN list, e \in MemoryEdges(list[i])
      PROVE  e.from \in RowNodes(list[i]) /\ e.to \in RowNodes(list[i])
  BY <1>2 DEF MemoryEdges, RowNodes, Edge
<1>3. ASSUME NEW i \in DOMAIN shots, e \in SnapshotEdges(shots[i])
      PROVE  e.from \in RowNodes(shots[i]) /\ e.to \in RowNodes(shots[i])
  BY <1>3 DEF SnapshotEdges, RowNodes, Edge
<1>4. ASSUME NEW i \in DOMAIN list, e \in ChatLinks(list, list[i])
      PROVE  e.from \in RowNodes(list[i]) /\ \E j \in DOMAIN list : e.to \in RowNodes(list[j])
  BY <1>4, LinkEnds DEF RowNodes
<1>5. \/ \E i \in DOMAIN list : e \in MemoryEdges(list[i])
      \/ \E i \in DOMAIN list : e \in ChatLinks(list, list[i])
      \/ \E i \in DOMAIN shots : e \in SnapshotEdges(shots[i])
  <2> DEFINE A == UNION {MemoryEdges(list[i]) : i \in DOMAIN list}
             B == UNION {ChatLinks(list, list[i]) : i \in {h \in DOMAIN list : list[h].content.kind = "chat_turn"}}
             C == UNION {SnapshotEdges(shots[i]) : i \in DOMAIN shots}
  <2>1. e \in A \/ e \in B \/ e \in C
    BY DEF DrawnEdges
  <2>2. e \in A => \E i \in DOMAIN list : e \in MemoryEdges(list[i])
    BY Zenon
  <2>3. e \in B => \E i \in DOMAIN list : e \in ChatLinks(list, list[i])
    BY Zenon
  <2>4. e \in C => \E i \in DOMAIN shots : e \in SnapshotEdges(shots[i])
    BY Zenon
  <2> QED
    BY <2>1, <2>2, <2>3, <2>4, Zenon
<1> QED
  BY <1>1, <1>2, <1>3, <1>4, <1>5, Zenon

\* A chat turn's first targets are linked, each by a link of its own number.
LEMMA LinksNumbered ==
  ASSUME MemoryGraphAssumption, NEW list \in Seq(MemoryRow), NEW m,
         NEW k \in 1 .. Len(TargetOrder(list, m)), k <= MaxLinks
  PROVE  \E e \in ChatLinks(list, m) :
           /\ e.from = MemoryNode(m.id) /\ e.to = MemoryNode(list[TargetOrder(list, m)[k][2]].id)
           /\ e.scope[1] = "chat_to_code" /\ e.scope[2][1] = FileOrder[TargetOrder(list, m)[k][1]]
           /\ e.scope[2][2] = k - 1
<1> DEFINE order == TargetOrder(list, m)
           link(j) == Edge(MemoryNode(m.id), MemoryNode(list[order[j][2]].id), "chat_to_code",
                           <<FileOrder[order[j][1]], j - 1>>)
<1>1. ChatLinks(list, m) = {link(j) : j \in {h \in DOMAIN order : h <= MaxLinks}}
  BY LinksInOrder, Zenon
<1>2. k \in DOMAIN order
  BY LinksInOrder, Zenon DEF Lists
<1>3. /\ link(k).from = MemoryNode(m.id) /\ link(k).to = MemoryNode(list[order[k][2]].id)
      /\ link(k).scope[1] = "chat_to_code" /\ link(k).scope[2][1] = FileOrder[order[k][1]]
      /\ link(k).scope[2][2] = k - 1
  BY DEF Edge
<1>4. link(k) \in ChatLinks(list, m)
  <2> HIDE DEF link, order
  <2> QED
    BY <1>1, <1>2
<1> QED
  BY <1>3, <1>4, Zenon

\* The targets before t that have their link among the edges E.
SoonerLinked(list, E, m, t) == {s \in Targets(list, m) : Sooner(s, t) /\ LinkedTo(list, E, m, s)}

\* Every target up to the limit has its link.
LEMMA FirstLinked ==
  ASSUME MemoryGraphAssumption, NEW list \in Seq(MemoryRow), NEW m, NEW E, ChatLinks(list, m) \subseteq E,
         NEW k \in 1 .. Len(TargetOrder(list, m)), k <= MaxLinks
  PROVE  LinkedTo(list, E, m, TargetOrder(list, m)[k])
<1>1. \E e \in ChatLinks(list, m) :
        /\ e.from = MemoryNode(m.id) /\ e.to = MemoryNode(list[TargetOrder(list, m)[k][2]].id)
        /\ e.scope[1] = "chat_to_code" /\ e.scope[2][1] = FileOrder[TargetOrder(list, m)[k][1]]
        /\ e.scope[2][2] = k - 1
  BY LinksNumbered
<1> QED
  BY <1>1, Zenon DEF LinkedTo

\* One past the limit has as many linked ones before it.
LEMMA LinksUsedUp ==
  ASSUME MemoryGraphAssumption, NEW list \in Seq(MemoryRow), NEW m, NEW E, ChatLinks(list, m) \subseteq E,
         NEW k \in 1 .. Len(TargetOrder(list, m)), k > MaxLinks
  PROVE  Cardinality(SoonerLinked(list, E, m, TargetOrder(list, m)[k])) >= MaxLinks
<1> DEFINE order == TargetOrder(list, m)
           C == SoonerLinked(list, E, m, order[k])
           g == [j \in 1 .. MaxLinks |-> order[j]]
<1>1. Lists(order, Targets(list, m), FileByFile(list, m)) /\ IsFiniteSet(Targets(list, m))
  BY LinksInOrder, Zenon
<1>2. MaxLinks \in Nat
  BY DEF MemoryGraphAssumption
<1> HIDE DEF order
<1>3. /\ \A j \in 1 .. Len(order) : order[j] \in Targets(list, m)
      /\ \A i, j \in 1 .. Len(order) : i < j => <<order[i], order[j]>> \in FileByFile(list, m)
      /\ \A i, j \in 1 .. Len(order) : order[i] = order[j] => i = j
      /\ Len(order) \in Nat
  <2>1. order \in Seq(Targets(list, m))
    BY <1>1, Zenon DEF Lists
  <2>2. (\A j \in 1 .. Len(order) : order[j] \in Targets(list, m)) /\ Len(order) \in Nat
    BY <2>1
  <2> QED
    BY <1>1, <2>2, Zenon DEF Lists
<1>4. k \in 1 .. Len(order)
  BY DEF order
<1>5. ASSUME NEW j \in 1 .. MaxLinks PROVE order[j] \in C
  <2>1. j \in 1 .. Len(order) /\ j <= MaxLinks /\ j < k
    BY <1>2, <1>3, <1>4
  <2>2. Sooner(order[j], order[k])
    BY <1>3, <1>4, <2>1 DEF FileByFile
  <2>3. LinkedTo(list, E, m, order[j])
    BY <2>1, FirstLinked DEF order
  <2> QED
    BY <1>3, <2>1, <2>2, <2>3, Zenon DEF SoonerLinked
<1>6. IsFiniteSet(C)
  <2>1. C \in SUBSET Targets(list, m)
    BY DEF SoonerLinked
  <2> QED
    BY <1>1, <2>1, FS_Subset
<1> HIDE DEF C
<1>7. g \in Injection(1 .. MaxLinks, C)
  <2>1. g \in [1 .. MaxLinks -> C]
    BY <1>5
  <2>2. ASSUME NEW i \in 1 .. MaxLinks, NEW j \in 1 .. MaxLinks, g[i] = g[j] PROVE i = j
    <3>1. i \in 1 .. Len(order) /\ j \in 1 .. Len(order) /\ order[i] = order[j]
      BY <1>2, <1>3, <1>4, <2>2
    <3> QED
      BY <1>3, <3>1
  <2> QED
    BY <2>1, <2>2 DEF Injection, IsInjective
<1> HIDE DEF g
<1>8. Cardinality(1 .. MaxLinks) = MaxLinks
  BY <1>2, Counting
<1>9. Cardinality(C) \in Nat /\ Cardinality(1 .. MaxLinks) <= Cardinality(C)
  BY <1>6, <1>7, FS_CardinalityType, FS_Injection
<1>10. Cardinality(C) >= MaxLinks
  BY <1>2, <1>8, <1>9
<1> QED
  BY <1>10 DEF C, order

\* What MemoriesAreLinked says of one row, of the edges E.
LinkedRow(list, E, m) ==
  /\ \E e \in E : e.from = MemoryNode(m.id) /\ e.to = DayNode(m.at)
  /\ m.content.session # NoSession =>
       \E e, f \in E : /\ e.from = MemoryNode(m.id) /\ e.to = SessionNode(m.content.session)
                       /\ f.from = e.to /\ f.to = DayNode(m.at)
  /\ m.content.kind = "chat_turn" =>
       \A t \in Targets(list, m) :
         \/ LinkedTo(list, E, m, t)
         \/ Cardinality(SoonerLinked(list, E, m, t)) >= MaxLinks

\* It holds of edges among which are those drawn.
LEMMA RowLinked ==
  ASSUME MemoryGraphAssumption, NEW list \in Seq(MemoryRow), NEW shots \in Seq(SnapshotRow),
         NEW E, DrawnEdges(list, shots) \subseteq E, NEW a \in DOMAIN list
  PROVE  LinkedRow(list, E, list[a])
<1> DEFINE m == list[a]
<1>1. MemoryEdges(m) \subseteq E
  BY DEF DrawnEdges
<1>2. \E e \in E : e.from = MemoryNode(m.id) /\ e.to = DayNode(m.at)
  <2> DEFINE e == Edge(MemoryNode(m.id), DayNode(m.at), "memory_time_bucket", m.at)
  <2>1. e \in E
    BY <1>1 DEF MemoryEdges
  <2>2. e.from = MemoryNode(m.id) /\ e.to = DayNode(m.at)
    BY DEF Edge
  <2> QED
    BY <2>1, <2>2, Zenon
<1>3. ASSUME m.content.session # NoSession
      PROVE  \E e, f \in E : /\ e.from = MemoryNode(m.id) /\ e.to = SessionNode(m.content.session)
                             /\ f.from = e.to /\ f.to = DayNode(m.at)
  <2> DEFINE e == Edge(MemoryNode(m.id), SessionNode(m.content.session), "memory_session", m.id)
             f == Edge(SessionNode(m.content.session), DayNode(m.at), "session_time_bucket", m.at)
  <2>1. e \in E /\ f \in E
    BY <1>1, <1>3 DEF MemoryEdges
  <2>2. /\ e.from = MemoryNode(m.id) /\ e.to = SessionNode(m.content.session)
        /\ f.from = e.to /\ f.to = DayNode(m.at)
    BY DEF Edge
  <2> QED
    BY <2>1, <2>2, Zenon
<1>4. ASSUME m.content.kind = "chat_turn", NEW t \in Targets(list, m)
      PROVE  \/ LinkedTo(list, E, m, t)
             \/ Cardinality(SoonerLinked(list, E, m, t)) >= MaxLinks
  <2>1. ChatLinks(list, m) \subseteq E
    BY <1>4 DEF DrawnEdges
  <2> HIDE DEF m
  <2>2. Lists(TargetOrder(list, m), Targets(list, m), FileByFile(list, m))
    BY LinksInOrder, Zenon
  <2>3. PICK k \in 1 .. Len(TargetOrder(list, m)) : TargetOrder(list, m)[k] = t
    BY <1>4, <2>2, Zenon DEF Lists
  <2>4. k \in Nat /\ MaxLinks \in Nat
    BY DEF MemoryGraphAssumption
  <2>5. CASE k <= MaxLinks
    BY <2>1, <2>3, <2>5, FirstLinked
  <2>6. CASE k > MaxLinks
    BY <2>1, <2>3, <2>6, LinksUsedUp
  <2> QED
    BY <2>4, <2>5, <2>6
<1> QED
  BY <1>2, <1>3, <1>4, Zenon DEF LinkedRow

\* What MemoriesAreLinked says of a run and the edges E.
LinkedBy(run, E) == run.done => \A i \in DOMAIN run.list : LinkedRow(run.list, E, run.list[i])

\* A run of the indexer keeps the tables a graph and links what it listed.
LEMMA IndexedGraph ==
  ASSUME MemoryGraphAssumption, GraphTypeOK, EdgesHaveEnds, NEW since, IndexMemoryGraph(since)
  PROVE  EdgesHaveEnds' /\ MemoriesAreLinked'
<1> DEFINE list == Listed(ListLimit, since)
           shots == Snapshots(SnapLimit, since)
<1>1. list \in Seq(MemoryRow) /\ shots \in Seq(SnapshotRow)
  BY ScansTyped
<1>2. /\ nodes' = LabelNodes(nodes, list \o shots)
      /\ indexed' = [done |-> TRUE, since |-> since, list |-> list]
  BY Zenon DEF IndexMemoryGraph
<1>3. edges' = edges \cup DrawnEdges(list, shots)
  BY DEF IndexMemoryGraph, DrawnEdges
<1> HIDE DEF list, shots
<1>4. DOMAIN nodes' = DOMAIN nodes \cup NodesOf(list \o shots)
  <2> DEFINE both == list \o shots
  <2>1. nodes' = LabelNodes(nodes, both)
    BY <1>2
  <2> HIDE DEF both
  <2>2. DOMAIN LabelNodes(nodes, both) = DOMAIN nodes \cup NodesOf(both)
    BY DEF LabelNodes
  <2> QED
    BY <2>1, <2>2, Zenon DEF both
<1>5. EdgesHaveEnds'
  <2>1. ASSUME NEW e \in edges' PROVE e.from \in DOMAIN nodes' /\ e.to \in DOMAIN nodes'
    <3>1. CASE e \in edges
      BY <1>4, <3>1 DEF EdgesHaveEnds
    <3>2. CASE e \in DrawnEdges(list, shots)
      BY <1>1, <1>4, <3>2, DrawnEnds
    <3> QED
      BY <1>3, <3>1, <3>2
  <2> QED
    BY <2>1 DEF EdgesHaveEnds
<1>6. LinkedBy(indexed', edges')
  <2> DEFINE E == edges'
             run == indexed'
  <2>1. DrawnEdges(list, shots) \subseteq E /\ run.list = list
    BY <1>2, <1>3
  <2> HIDE DEF E, run
  <2>2. \A i \in DOMAIN list : LinkedRow(list, E, list[i])
    BY <1>1, <2>1, RowLinked
  <2>3. LinkedBy(run, E)
    BY <2>1, <2>2, Zenon DEF LinkedBy
  <2> QED
    BY <2>3 DEF E, run
<1> QED
  BY <1>5, <1>6, Zenon DEF MemoriesAreLinked, LinkedBy, LinkedRow, SoonerLinked

-----------------------------------------------------------------------------
\* The ends of the edges of list heavy enough that leave one of the nodes.
Beyond(list, o, vs) ==
  {list[i].to : i \in {j \in DOMAIN list : list[j].from \in vs /\ list[j].weight >= o.minWeight}}

\* The three recursions of a traversal and of what it is compared with.
RecursionStep(c, n, x) ==
  IF c.kind = "near" THEN x \cup Beyond(c.list, c.options, x)
  ELSE IF c.kind = "cross" THEN Cross(x, c.list[n], c.depth, c.most)
  ELSE Expand(x, c.options)

IsRecursion(f, c, a, N) == f = [n \in 0 .. N |-> IF n = 0 THEN a ELSE RecursionStep(c, n, f[n - 1])]

\* Each has a solution.
LEMMA RecursionExists ==
  ASSUME NEW c, NEW a, NEW N \in Nat
  PROVE  \E f : IsRecursion(f, c, a, N)
<1> DEFINE IsFold(f, k) == f = [n \in 0 .. k |-> IF n = 0 THEN a ELSE RecursionStep(c, n, f[n - 1])]
           T == {k \in Nat : ~\E f : IsFold(f, k)}
<1>1. T = {}
  <2>1. SUFFICES ASSUME T # {} PROVE FALSE
    OBVIOUS
  <2>2. PICK k \in T : \A j \in T : k <= j
    BY <2>1, FirstOf
  <2>3. k # 0
    <3>1. IsFold([n \in 0 .. 0 |-> a], 0)
      OBVIOUS
    <3> QED
      BY <3>1
  <2>4. k - 1 \in Nat /\ k - 1 \notin T
    <3>1. k \in Nat
      BY <2>2
    <3> HIDE DEF T
    <3> QED
      BY <2>2, <2>3, <3>1
  <2>5. PICK g : IsFold(g, k - 1)
    BY <2>4
  <2> DEFINE f == [n \in 0 .. k |-> IF n = 0 THEN a ELSE RecursionStep(c, n, g[n - 1])]
  <2>6. \A n \in 0 .. k : n # 0 => g[n - 1] = f[n - 1]
    <3>1. ASSUME NEW n \in 0 .. k, n # 0 PROVE g[n - 1] = f[n - 1]
      <4>1. n - 1 \in 0 .. (k - 1) /\ n - 1 \in 0 .. k
        BY <2>2, <3>1
      <4>2. f[n - 1] = IF n - 1 = 0 THEN a ELSE RecursionStep(c, n - 1, g[n - 1 - 1])
        BY <4>1
      <4>3. g[n - 1] = IF n - 1 = 0 THEN a ELSE RecursionStep(c, n - 1, g[n - 1 - 1])
        BY <2>5, <4>1
      <4> QED
        BY <4>2, <4>3
    <3> QED
      BY <3>1
  <2>7. IsFold(f, k)
    BY <2>6
  <2> QED
    BY <2>2, <2>7
<1> QED
  BY <1>1 DEF IsRecursion

\* The nodes near the start, distance by distance.
LEMMA NearIs ==
  ASSUME NEW list, NEW o, o.deepest \in Nat
  PROVE  /\ Near(list, o)[0] = {o.start}
         /\ \A d \in 1 .. o.deepest : Near(list, o)[d] = Near(list, o)[d - 1] \cup Beyond(list, o, Near(list, o)[d - 1])
<1> DEFINE Form(f) == f = [d \in 0 .. o.deepest |->
                             IF d = 0 THEN {o.start} ELSE f[d - 1] \cup Beyond(list, o, f[d - 1])]
           c == [kind |-> "near", list |-> list, options |-> o]
<1>1. Near(list, o) = CHOOSE f : Form(f)
  BY Zenon DEF Near, Beyond
<1>2. \A n, x : RecursionStep(c, n, x) = x \cup Beyond(list, o, x)
  BY DEF RecursionStep
<1> HIDE DEF c
<1>3. PICK f : f = [n \in 0 .. o.deepest |-> IF n = 0 THEN {o.start} ELSE RecursionStep(c, n, f[n - 1])]
  <2>1. \E f : IsRecursion(f, c, {o.start}, o.deepest)
    BY RecursionExists
  <2> QED
    BY <2>1, Zenon DEF IsRecursion
<1>4. Form(f)
  <2>1. \A n \in 0 .. o.deepest : (IF n = 0 THEN {o.start} ELSE RecursionStep(c, n, f[n - 1]))
                               = (IF n = 0 THEN {o.start} ELSE f[n - 1] \cup Beyond(list, o, f[n - 1]))
    BY <1>2, Zenon
  <2>2. [n \in 0 .. o.deepest |-> IF n = 0 THEN {o.start} ELSE RecursionStep(c, n, f[n - 1])]
          = [d \in 0 .. o.deepest |-> IF d = 0 THEN {o.start} ELSE f[d - 1] \cup Beyond(list, o, f[d - 1])]
    BY <2>1, Zenon
  <2> QED
    BY <1>3, <2>2, Zenon
<1>5. Form(Near(list, o))
  <2> HIDE DEF Form
  <2> QED
    BY <1>1, <1>4, Zenon
<1>6. \A d \in 1 .. o.deepest : d \in 0 .. o.deepest /\ d # 0
  OBVIOUS
<1>7. 0 \in 0 .. o.deepest
  OBVIOUS
<1> HIDE DEF Form
<1>8. \A d \in 0 .. o.deepest : Near(list, o)[d] =
        IF d = 0 THEN {o.start} ELSE Near(list, o)[d - 1] \cup Beyond(list, o, Near(list, o)[d - 1])
  <2> DEFINE near == Near(list, o)
  <2>1. near = [d \in 0 .. o.deepest |-> IF d = 0 THEN {o.start} ELSE near[d - 1] \cup Beyond(list, o, near[d - 1])]
    BY <1>5, Zenon DEF Form
  <2> HIDE DEF near
  <2>2. \A d \in 0 .. o.deepest : near[d] = IF d = 0 THEN {o.start} ELSE near[d - 1] \cup Beyond(list, o, near[d - 1])
    BY <2>1
  <2> QED
    BY <2>2, Zenon DEF near
<1> QED
  BY <1>6, <1>7, <1>8, Zenon

\* The edges crossed one after the other.
Crossing(s, es, depth, most) ==
  CHOOSE crossed : crossed = [n \in 0 .. Len(es) |-> IF n = 0 THEN s ELSE Cross(crossed[n - 1], es[n], depth, most)]

\* CrossAll crosses the edges one after the other.
LEMMA CrossingIs ==
  ASSUME NEW s, NEW es, Len(es) \in Nat, NEW depth, NEW most
  PROVE  /\ CrossAll(s, es, depth, most) = Crossing(s, es, depth, most)[Len(es)]
         /\ Crossing(s, es, depth, most)[0] = s
         /\ \A n \in 1 .. Len(es) : Crossing(s, es, depth, most)[n] =
                                     Cross(Crossing(s, es, depth, most)[n - 1], es[n], depth, most)
<1> DEFINE Form(f) == f = [n \in 0 .. Len(es) |-> IF n = 0 THEN s ELSE Cross(f[n - 1], es[n], depth, most)]
           c == [kind |-> "cross", list |-> es, depth |-> depth, most |-> most]
<1>1. Crossing(s, es, depth, most) = CHOOSE f : Form(f)
  BY Zenon DEF Crossing
<1>2. \A n, x : RecursionStep(c, n, x) = Cross(x, es[n], depth, most)
  BY DEF RecursionStep
<1> HIDE DEF c
<1>3. PICK f : f = [n \in 0 .. Len(es) |-> IF n = 0 THEN s ELSE RecursionStep(c, n, f[n - 1])]
  <2>1. \E f : IsRecursion(f, c, s, Len(es))
    BY RecursionExists
  <2> QED
    BY <2>1, Zenon DEF IsRecursion
<1>4. Form(f)
  BY <1>2, <1>3, Zenon
<1>5. Form(Crossing(s, es, depth, most))
  <2> HIDE DEF Form
  <2> QED
    BY <1>1, <1>4, Zenon
<1>6. \A n \in 1 .. Len(es) : n \in 0 .. Len(es) /\ n # 0
  OBVIOUS
<1>7. 0 \in 0 .. Len(es)
  OBVIOUS
<1> DEFINE crossing == Crossing(s, es, depth, most)
<1>8. crossing = [n \in 0 .. Len(es) |-> IF n = 0 THEN s ELSE Cross(crossing[n - 1], es[n], depth, most)]
  BY <1>5, Zenon DEF Form
<1> HIDE DEF Form, crossing
<1>9. \A n \in 0 .. Len(es) : crossing[n] = IF n = 0 THEN s ELSE Cross(crossing[n - 1], es[n], depth, most)
  BY <1>8
<1>10. CrossAll(s, es, depth, most) = crossing[Len(es)]
  BY Zenon DEF CrossAll, Crossing, crossing
<1> QED
  BY <1>6, <1>7, <1>9, <1>10, Zenon DEF crossing

\* The turns of the loop.
Begun(o) == [queue |-> <<[node |-> o.start, depth |-> 0]>>, visited |-> {o.start}, out |-> <<>>]

Turns(o) ==
  CHOOSE turn : turn = [n \in 0 .. Len(library) + 1 |-> IF n = 0 THEN Begun(o) ELSE Expand(turn[n - 1], o)]

\* TraverseGraph expands the head of the queue turn by turn.
LEMMA TurnsAre ==
  ASSUME NEW o, Len(library) \in Nat
  PROVE  /\ TraverseGraph(o) = Turns(o)[Len(library) + 1]
         /\ Turns(o)[0] = Begun(o)
         /\ \A n \in 1 .. Len(library) + 1 : Turns(o)[n] = Expand(Turns(o)[n - 1], o)
<1> DEFINE N == Len(library) + 1
           Form(f) == f = [n \in 0 .. N |-> IF n = 0 THEN Begun(o) ELSE Expand(f[n - 1], o)]
           c == [kind |-> "turn", options |-> o]
<1>1. Turns(o) = CHOOSE f : Form(f)
  BY Zenon DEF Turns
<1>2. \A n, x : RecursionStep(c, n, x) = Expand(x, o)
  BY DEF RecursionStep
<1> HIDE DEF c
<1>3. N \in Nat
  OBVIOUS
<1>4. PICK f : f = [n \in 0 .. N |-> IF n = 0 THEN Begun(o) ELSE RecursionStep(c, n, f[n - 1])]
  <2> HIDE DEF N
  <2>1. \E f : IsRecursion(f, c, Begun(o), N)
    BY <1>3, RecursionExists
  <2> QED
    BY <2>1, Zenon DEF IsRecursion
<1>5. Form(f)
  BY <1>2, <1>4, Zenon
<1>6. Form(Turns(o))
  <2> HIDE DEF Form
  <2> QED
    BY <1>1, <1>5, Zenon
<1>7. TraverseGraph(o) = Turns(o)[N]
  BY Zenon DEF TraverseGraph, Turns, Begun
<1> HIDE DEF N
<1>8. \A n \in 1 .. N : n \in 0 .. N /\ n # 0
  BY <1>3
<1>9. 0 \in 0 .. N
  BY <1>3
<1> DEFINE turns == Turns(o)
<1>10. turns = [n \in 0 .. N |-> IF n = 0 THEN Begun(o) ELSE Expand(turns[n - 1], o)]
  BY <1>6, Zenon DEF Form
<1> HIDE DEF Form, turns
<1>11. \A n \in 0 .. N : turns[n] = IF n = 0 THEN Begun(o) ELSE Expand(turns[n - 1], o)
  BY <1>10
<1> QED
  BY <1>7, <1>8, <1>9, <1>11, Zenon DEF turns, N

\* The edges of list heavy enough.
Heavy(list, o) == {list[i] : i \in {j \in DOMAIN list : list[j].weight >= o.minWeight}}

\* The distances from the start, up to B, of the nodes R that are no farther.
Metric(H, start, B, R, dist) ==
  /\ B \in Nat \ {0} /\ dist \in [R -> 0 .. B] /\ start \in R /\ dist[start] = 0
  /\ \A e \in H : e.from \in R /\ dist[e.from] < B => e.to \in R /\ dist[e.to] <= dist[e.from] + 1
  /\ \A v \in R : v # start => dist[v] # 0 /\ \E e \in H : e.to = v /\ e.from \in R /\ dist[e.from] + 1 = dist[v]

\* Nodes near are near at every larger distance.
LEMMA NearGrows ==
  ASSUME NEW list, NEW o, o.deepest \in Nat, NEW d \in 0 .. o.deepest, NEW c \in 0 .. d
  PROVE  Near(list, o)[c] \subseteq Near(list, o)[d]
<1> DEFINE near == Near(list, o)
           T == {h \in 0 .. o.deepest : \E k \in 0 .. h : ~(near[k] \subseteq near[h])}
<1>1. \A h \in 1 .. o.deepest : near[h - 1] \subseteq near[h]
  <2>1. \A h \in 1 .. o.deepest : near[h] = near[h - 1] \cup Beyond(list, o, near[h - 1])
    BY NearIs
  <2> HIDE DEF near
  <2> QED
    BY <2>1, Zenon
<1> HIDE DEF near
<1>2. T = {}
  <2>1. SUFFICES ASSUME T # {} PROVE FALSE
    OBVIOUS
  <2>2. T \subseteq Nat
    OBVIOUS
  <2>3. PICK h \in T : \A j \in T : h <= j
    <3> HIDE DEF T
    <3> QED
      BY <2>1, <2>2, FirstOf
  <2>4. PICK k \in 0 .. h : ~(near[k] \subseteq near[h])
    OBVIOUS
  <2>5. h \in 0 .. o.deepest /\ k # h
    BY <2>4
  <2>6. h \in 1 .. o.deepest /\ k \in 0 .. (h - 1) /\ h - 1 \in 0 .. o.deepest /\ ~(h <= h - 1)
    BY <2>4, <2>5
  <2>7. near[k] \subseteq near[h - 1]
    BY <2>3, <2>6
  <2> QED
    BY <1>1, <2>4, <2>6, <2>7
<1> QED
  BY <1>2 DEF near

\* Near says how far each of them is.
LEMMA Distances ==
  ASSUME NEW list, NEW o, o.deepest \in Nat \ {0}
  PROVE  \E dist : /\ Metric(Heavy(list, o), o.start, o.deepest, Near(list, o)[o.deepest], dist)
                  /\ \A v \in Near(list, o)[o.deepest], c \in 0 .. o.deepest : v \in Near(list, o)[c] <=> dist[v] <= c
<1> DEFINE B == o.deepest
           near == Near(list, o)
           R == near[B]
           H == Heavy(list, o)
           Least(v, d) == v \in near[d] /\ \A c \in 0 .. B : v \in near[c] => d <= c
           dist == [v \in R |-> CHOOSE d \in 0 .. B : Least(v, d)]
<1>1. /\ near[0] = {o.start}
      /\ \A d \in 1 .. B : near[d] = near[d - 1] \cup Beyond(list, o, near[d - 1])
  BY NearIs
<1>2. \A d \in 0 .. B : \A c \in 0 .. d : near[c] \subseteq near[d]
  BY NearGrows
<1>3. \A vs : \A e \in H : e.from \in vs => e.to \in Beyond(list, o, vs)
  BY DEF Heavy, Beyond
<1>4. \A vs : \A v \in Beyond(list, o, vs) : \E e \in H : e.to = v /\ e.from \in vs
  BY DEF Heavy, Beyond
<1>5. B \in Nat /\ B # 0
  OBVIOUS
<1> HIDE DEF near, H, B
<1>6. ASSUME NEW v \in R PROVE \E d \in 0 .. B : Least(v, d)
  <2> DEFINE T == {d \in 0 .. B : v \in near[d]}
  <2>1. T \subseteq Nat /\ T # {}
    BY <1>5
  <2> HIDE DEF T
  <2>2. PICK d \in T : \A c \in T : d <= c
    BY <2>1, FirstOf
  <2> QED
    BY <2>2 DEF T
<1>7. ASSUME NEW v \in R PROVE dist[v] \in 0 .. B /\ Least(v, dist[v])
  <2> HIDE DEF Least
  <2>1. dist[v] = CHOOSE d \in 0 .. B : Least(v, d)
    OBVIOUS
  <2> HIDE DEF dist
  <2> QED
    BY <1>6, <2>1
<1>8. dist \in [R -> 0 .. B]
  BY <1>7
<1> HIDE DEF dist
<1>9. \A v \in R, c \in 0 .. B : v \in near[c] <=> dist[v] <= c
  <2>1. ASSUME NEW v \in R, NEW c \in 0 .. B PROVE v \in near[c] <=> dist[v] <= c
    <3>1. v \in near[c] => dist[v] <= c
      BY <1>7
    <3>2. dist[v] <= c => v \in near[c]
      <4>1. dist[v] \in 0 .. B /\ v \in near[dist[v]]
        BY <1>7
      <4>2. ASSUME dist[v] <= c PROVE dist[v] \in 0 .. c
        BY <1>5, <4>1, <4>2
      <4> QED
        BY <1>2, <4>1, <4>2
    <3> QED
      BY <3>1, <3>2
  <2> QED
    BY <2>1
<1>10. 0 \in 0 .. B /\ B \in 0 .. B /\ \A d \in 0 .. B : near[d] \subseteq R
  <2>1. 0 \in 0 .. B /\ B \in 0 .. B /\ \A d \in 0 .. B : d \in 0 .. B
    BY <1>5
  <2> QED
    BY <1>2, <2>1
<1>11. o.start \in R /\ dist[o.start] = 0
  <2>1. o.start \in R
    BY <1>1, <1>10
  <2>2. dist[o.start] <= 0 /\ dist[o.start] \in 0 .. B
    BY <1>1, <1>7, <1>9, <1>10, <2>1
  <2> QED
    BY <1>5, <2>1, <2>2
<1>12. ASSUME NEW e \in H, e.from \in R, dist[e.from] < B
       PROVE  e.to \in R /\ dist[e.to] <= dist[e.from] + 1
  <2> DEFINE d == dist[e.from]
  <2>1. d \in 0 .. B /\ e.from \in near[d] /\ d < B
    BY <1>7, <1>12
  <2> HIDE DEF d
  <2>2. d + 1 \in 1 .. B /\ d + 1 \in 0 .. B /\ d + 1 - 1 = d
    BY <1>5, <2>1
  <2>3. e.to \in near[d + 1]
    BY <1>1, <1>3, <2>1, <2>2
  <2>4. e.to \in R
    BY <1>10, <2>2, <2>3
  <2>5. dist[e.to] <= d + 1
    BY <1>9, <2>2, <2>3, <2>4
  <2> QED
    BY <2>4, <2>5 DEF d
<1>13. ASSUME NEW v \in R, v # o.start
       PROVE  dist[v] # 0 /\ \E e \in H : e.to = v /\ e.from \in R /\ dist[e.from] + 1 = dist[v]
  <2> DEFINE d == dist[v]
  <2>1. d \in 0 .. B /\ v \in near[d]
    BY <1>7
  <2>2. d # 0
    BY <1>1, <1>13, <2>1
  <2> HIDE DEF d
  <2>3. d \in 1 .. B /\ d - 1 \in 0 .. B /\ ~(d <= d - 1) /\ d - 1 < B
    BY <1>5, <2>1, <2>2
  <2>4. v \notin near[d - 1]
    BY <1>9, <2>3 DEF d
  <2>5. PICK e \in H : e.to = v /\ e.from \in near[d - 1]
    BY <1>1, <1>4, <2>1, <2>3, <2>4
  <2>6. e.from \in R
    BY <1>10, <2>3, <2>5
  <2>7. dist[e.from] <= d - 1 /\ dist[e.from] \in 0 .. B
    BY <1>7, <1>9, <2>3, <2>5, <2>6
  <2>8. d <= dist[e.from] + 1
    <3>1. dist[e.from] < B
      BY <1>5, <2>3, <2>7
    <3> QED
      BY <1>12, <2>5, <2>6, <3>1 DEF d
  <2>9. dist[e.from] + 1 = d
    BY <1>5, <2>3, <2>7, <2>8
  <2> QED
    BY <2>2, <2>5, <2>6, <2>9 DEF d
<1>14. Metric(H, o.start, B, R, dist)
  BY <1>5, <1>8, <1>11, <1>12, <1>13 DEF Metric
<1> QED
  BY <1>9, <1>14 DEF near, H, B

-----------------------------------------------------------------------------
Queued(q) == {q[i].node : i \in 1 .. Len(q)}

Ends(out) == {out[i].to : i \in 1 .. Len(out)}

Given(out) == {out[i] : i \in 1 .. Len(out)}

Routes(out) == {Route(out[i]) : i \in 1 .. Len(out)}

\* No edge of H of its route is heavier.
Heaviest(e, H) == \A h \in H : Route(h) = Route(e) => h.weight <= e.weight

\* The queue: nodes not yet expanded, at distance c or one more, the nearer first.
QueueOK(q, P, c, R, dist) ==
  /\ q \in Seq([node : R, depth : Nat])
  /\ \A i \in 1 .. Len(q) : q[i].depth = dist[q[i].node] /\ q[i].node \notin P /\ c <= q[i].depth /\ q[i].depth <= c + 1
  /\ \A i, j \in 1 .. Len(q) : q[i].node = q[j].node => i = j
  /\ \A i, j \in 1 .. Len(q) : i < j => q[i].depth <= q[j].depth

\* The edges put out: of each route one, the heaviest, of nodes expanded, the nearer
\* first.
OutOK(out, P, H, B, dist) ==
  /\ out \in Seq(H)
  /\ \A i, j \in 1 .. Len(out) : Route(out[i]) = Route(out[j]) => i = j
  /\ \A i \in 1 .. Len(out) : Heaviest(out[i], H)
  /\ \A i \in 1 .. Len(out) : out[i].from \in P /\ dist[out[i].from] < B
  /\ \A i, j \in 1 .. Len(out) : i < j => dist[out[i].from] <= dist[out[j].from]

\* A traversal that has expanded the nodes P, up to distance c.
Frontier(s, P, c, H, start, B, R, dist) ==
  /\ QueueOK(s.queue, P, c, R, dist) /\ OutOK(s.out, P, H, B, dist)
  /\ c \in 0 .. B /\ P \subseteq R /\ \A v \in P : dist[v] <= c
  /\ s.visited = P \cup Queued(s.queue) /\ s.visited = {start} \cup Ends(s.out)
  /\ DOMAIN s = {"queue", "visited", "out"}

Longer(r, list, x) == r = Append(list, x)

\* The nodes V are all up to distance c, and maybe more.
SeenUpTo(c, V, R, dist) == \A v \in R : dist[v] <= c => v \in V

\* A node seen for the first time, one farther than those being expanded.
MayQueue(entry, q, P, c, R, dist) ==
  /\ entry \in [node : R, depth : Nat] /\ entry.node \notin P /\ entry.node \notin Queued(q)
  /\ entry.depth = dist[entry.node] /\ entry.depth = c + 1

\* It is put at the end of the queue.
LEMMA NodeQueued ==
  ASSUME NEW P, NEW R, NEW c \in Nat, NEW dist, NEW q, QueueOK(q, P, c, R, dist),
         NEW entry, MayQueue(entry, q, P, c, R, dist), NEW r, Longer(r, q, entry)
  PROVE  QueueOK(r, P, c, R, dist) /\ Queued(r) = Queued(q) \cup {entry.node}
<1> DEFINE X == [node : R, depth : Nat]
           w == entry.node
<1>1. /\ entry \in X /\ entry.node = w /\ entry.depth = c + 1 /\ w \notin P /\ w \notin Queued(q)
      /\ dist[w] = c + 1 /\ entry.depth = dist[w] /\ w \in R
  BY DEF MayQueue
<1>2. q \in Seq(X)
  BY DEF QueueOK
<1>3. \A x \in X : x.node \in R /\ x.depth \in Nat
  OBVIOUS
<1> HIDE DEF X, w
<1>4. r = Append(q, entry)
  BY DEF Longer
<1>5. /\ r \in Seq(X) /\ Len(r) = Len(q) + 1 /\ Len(q) \in Nat
      /\ \A i \in 1 .. Len(q) : r[i] = q[i]
      /\ r[Len(q) + 1] = entry
  BY <1>1, <1>2, <1>4
<1>6. \A i \in 1 .. Len(q) : q[i] \in X /\ q[i].node \in R /\ q[i].depth \in Nat /\ q[i].node # w
  BY <1>1, <1>2, <1>3 DEF Queued
<1>7. \A i \in 1 .. Len(r) : i \in 1 .. Len(q) \/ i = Len(q) + 1
  BY <1>5
<1>8. /\ \A i \in 1 .. Len(q) : q[i].depth = dist[q[i].node] /\ q[i].node \notin P /\ c <= q[i].depth /\ q[i].depth <= c + 1
      /\ \A i, j \in 1 .. Len(q) : q[i].node = q[j].node => i = j
      /\ \A i, j \in 1 .. Len(q) : i < j => q[i].depth <= q[j].depth
  BY Zenon DEF QueueOK
<1>9. \A i \in 1 .. Len(r) : r[i].depth = dist[r[i].node] /\ r[i].node \notin P /\ c <= r[i].depth /\ r[i].depth <= c + 1
  BY <1>1, <1>5, <1>7, <1>8
<1>10. \A i, j \in 1 .. Len(r) : r[i].node = r[j].node => i = j
  BY <1>1, <1>5, <1>6, <1>7, <1>8
<1>11. \A i, j \in 1 .. Len(r) : i < j => r[i].depth <= r[j].depth
  <2>1. ASSUME NEW i \in 1 .. Len(r), NEW j \in 1 .. Len(r), i < j PROVE r[i].depth <= r[j].depth
    <3>1. i \in 1 .. Len(q) /\ (j \in 1 .. Len(q) \/ j = Len(q) + 1)
      BY <1>5, <1>7, <2>1
    <3> QED
      BY <1>1, <1>5, <1>8, <2>1, <3>1
  <2> QED
    BY <2>1
<1>12. Queued(r) = Queued(q) \cup {w}
  <2>1. \A i \in 1 .. Len(q) : i \in 1 .. Len(r)
    BY <1>5
  <2>2. Len(q) + 1 \in 1 .. Len(r)
    BY <1>5
  <2> QED
    BY <1>1, <1>5, <1>7, <2>1, <2>2 DEF Queued
<1> QED
  BY <1>5, <1>9, <1>10, <1>11, <1>12 DEF QueueOK, X, w

\* The head of the queue is taken.
LEMMA HeadTaken ==
  ASSUME NEW P, NEW R, NEW c \in Nat, NEW dist, NEW q, QueueOK(q, P, c, R, dist), q # <<>>
  PROVE  /\ QueueOK(Tail(q), P \cup {Head(q).node}, Head(q).depth, R, dist)
         /\ Queued(q) = {Head(q).node} \cup Queued(Tail(q))
         /\ Head(q).node \in R /\ Head(q).node \notin P /\ Head(q).depth = dist[Head(q).node]
         /\ Head(q).depth \in Nat /\ c <= Head(q).depth
<1> DEFINE X == [node : R, depth : Nat]
           h == Head(q)
           t == Tail(q)
<1>1. q \in Seq(X)
  BY DEF QueueOK
<1>2. \A x \in X : x.node \in R /\ x.depth \in Nat
  OBVIOUS
<1> HIDE DEF X
<1>3. /\ h = q[1] /\ Len(q) \in Nat /\ 1 \in 1 .. Len(q) /\ t \in Seq(X) /\ Len(t) = Len(q) - 1
      /\ \A i \in 1 .. Len(t) : t[i] = q[i + 1]
  BY <1>1
<1> HIDE DEF h, t
<1>4. \A i \in 1 .. Len(q) : q[i] \in X /\ q[i].node \in R /\ q[i].depth \in Nat
  BY <1>1, <1>2
<1>5. /\ \A i \in 1 .. Len(q) : q[i].depth = dist[q[i].node] /\ q[i].node \notin P /\ c <= q[i].depth /\ q[i].depth <= c + 1
      /\ \A i, j \in 1 .. Len(q) : q[i].node = q[j].node => i = j
      /\ \A i, j \in 1 .. Len(q) : i < j => q[i].depth <= q[j].depth
  BY Zenon DEF QueueOK
<1>6. \A i \in 1 .. Len(t) : i + 1 \in 1 .. Len(q) /\ i + 1 # 1 /\ 1 < i + 1
  BY <1>3
<1>7. \A i \in 1 .. Len(t) : /\ t[i].depth = dist[t[i].node] /\ t[i].node \notin P \cup {h.node}
                             /\ h.depth <= t[i].depth /\ t[i].depth <= h.depth + 1
  <2>1. ASSUME NEW i \in 1 .. Len(t)
        PROVE  /\ t[i].depth = dist[t[i].node] /\ t[i].node \notin P \cup {h.node}
               /\ h.depth <= t[i].depth /\ t[i].depth <= h.depth + 1
    <3>1. i + 1 \in 1 .. Len(q) /\ t[i] = q[i + 1] /\ i + 1 # 1 /\ 1 < i + 1
      BY <1>3, <1>6
    <3> DEFINE x == t[i]
    <3>2. /\ x.depth = dist[x.node] /\ x.node \notin P /\ x.node # h.node /\ h.depth <= x.depth
          /\ x.depth <= c + 1 /\ c <= h.depth
      BY <1>3, <1>5, <3>1
    <3>3. x.depth \in Nat /\ h.depth \in Nat
      BY <1>3, <1>4, <3>1
    <3> HIDE DEF x
    <3>4. x.depth <= h.depth + 1
      BY <3>2, <3>3
    <3> QED
      BY <3>2, <3>4 DEF x
  <2> QED
    BY <2>1
<1>8. \A i, j \in 1 .. Len(t) : t[i].node = t[j].node => i = j
  <2>1. ASSUME NEW i \in 1 .. Len(t), NEW j \in 1 .. Len(t), t[i].node = t[j].node PROVE i = j
    <3>1. i + 1 = j + 1
      <4>1. i + 1 \in 1 .. Len(q) /\ j + 1 \in 1 .. Len(q)
        BY <1>6
      <4>2. q[i + 1].node = q[j + 1].node
        BY <1>3, <2>1
      <4> QED
        BY <1>5, <4>1, <4>2
    <3> QED
      BY <1>3, <3>1
  <2> QED
    BY <2>1
<1>9. \A i, j \in 1 .. Len(t) : i < j => t[i].depth <= t[j].depth
  <2>1. ASSUME NEW i \in 1 .. Len(t), NEW j \in 1 .. Len(t), i < j PROVE t[i].depth <= t[j].depth
    <3>1. i + 1 < j + 1
      BY <1>3, <2>1
    <3> QED
      BY <1>3, <1>5, <1>6, <3>1
  <2> QED
    BY <2>1
<1>10. Queued(q) = {h.node} \cup Queued(t)
  <2>1. ASSUME NEW i \in 1 .. Len(q) PROVE q[i].node \in {h.node} \cup Queued(t)
    <3>1. CASE i = 1
      BY <1>3, <3>1
    <3>2. CASE i # 1
      <4>1. i - 1 \in 1 .. Len(t) /\ t[i - 1] = q[i]
        <5>1. i - 1 \in 1 .. Len(t) /\ i - 1 + 1 = i
          BY <1>3, <3>2
        <5> QED
          BY <1>3, <5>1
      <4> QED
        BY <4>1 DEF Queued
    <3> QED
      BY <3>1, <3>2
  <2>2. ASSUME NEW i \in 1 .. Len(t) PROVE t[i].node \in Queued(q)
    BY <1>3, <1>6 DEF Queued
  <2>3. h.node \in Queued(q)
    BY <1>3 DEF Queued
  <2> QED
    BY <2>1, <2>2, <2>3 DEF Queued
<1>11. QueueOK(t, P \cup {h.node}, h.depth, R, dist)
  BY <1>3, <1>7, <1>8, <1>9 DEF QueueOK, X
<1> QED
  BY <1>3, <1>4, <1>5, <1>10, <1>11 DEF h, t

\* An edge met for the first time, at a node of the last distance.
MayPutOut(e, out, P, H, B, dist) ==
  /\ e \in H /\ e.from \in P /\ dist[e.from] < B
  /\ Route(e) \notin Routes(out) /\ Heaviest(e, H)
  /\ \A v \in P : dist[v] <= dist[e.from]

\* It is put out after the others.
LEMMA EdgePutOut ==
  ASSUME NEW P, NEW H, NEW B, NEW dist, NEW out, OutOK(out, P, H, B, dist),
         NEW e, MayPutOut(e, out, P, H, B, dist), NEW r, Longer(r, out, e)
  PROVE  /\ OutOK(r, P, H, B, dist) /\ Ends(r) = Ends(out) \cup {e.to} /\ Routes(r) = Routes(out) \cup {Route(e)}
         /\ Len(r) = Len(out) + 1 /\ Len(out) \in Nat
<1>1. /\ out \in Seq(H) /\ e \in H /\ e.from \in P /\ dist[e.from] < B
      /\ Route(e) \notin Routes(out) /\ Heaviest(e, H)
      /\ \A v \in P : dist[v] <= dist[e.from]
  BY Zenon DEF OutOK, MayPutOut
<1>2. /\ r \in Seq(H) /\ Len(r) = Len(out) + 1 /\ Len(out) \in Nat
      /\ \A i \in 1 .. Len(out) : r[i] = out[i]
      /\ r[Len(out) + 1] = e
  BY <1>1 DEF Longer
<1>3. \A i \in 1 .. Len(r) : i \in 1 .. Len(out) \/ i = Len(out) + 1
  BY <1>2
<1>4. /\ \A i, j \in 1 .. Len(out) : Route(out[i]) = Route(out[j]) => i = j
      /\ \A i \in 1 .. Len(out) : Heaviest(out[i], H)
      /\ \A i \in 1 .. Len(out) : out[i].from \in P /\ dist[out[i].from] < B
      /\ \A i, j \in 1 .. Len(out) : i < j => dist[out[i].from] <= dist[out[j].from]
  BY Zenon DEF OutOK
<1>5. \A i \in 1 .. Len(out) : Route(out[i]) # Route(e)
  BY <1>1, Zenon DEF Routes
<1>6. \A i, j \in 1 .. Len(r) : Route(r[i]) = Route(r[j]) => i = j
  BY <1>2, <1>3, <1>4, <1>5
<1>12. \A i \in 1 .. Len(r) : Heaviest(r[i], H)
  BY <1>1, <1>2, <1>3, <1>4
<1>7. \A i \in 1 .. Len(r) : r[i].from \in P /\ dist[r[i].from] < B
  BY <1>1, <1>2, <1>3, <1>4
<1>8. ASSUME NEW i \in 1 .. Len(r), NEW j \in 1 .. Len(r), i < j
      PROVE  dist[r[i].from] <= dist[r[j].from]
  <2>1. i \in 1 .. Len(out) /\ (j \in 1 .. Len(out) \/ j = Len(out) + 1)
    BY <1>2, <1>3, <1>8
  <2> QED
    BY <1>1, <1>2, <1>4, <1>8, <2>1
<1>9. /\ \A i \in 1 .. Len(out) : i \in 1 .. Len(r)
      /\ Len(out) + 1 \in 1 .. Len(r)
  BY <1>2
<1>10. Ends(r) = Ends(out) \cup {e.to}
  BY <1>2, <1>3, <1>9 DEF Ends
<1>11. Routes(r) = Routes(out) \cup {Route(e)}
  <2>1. \A i \in 1 .. Len(r) : Route(r[i]) \in Routes(out) \cup {Route(e)}
    BY <1>2, <1>3 DEF Routes
  <2>2. \A i \in 1 .. Len(out) : Route(out[i]) \in Routes(r)
    BY <1>2, <1>9 DEF Routes
  <2>3. Route(e) \in Routes(r)
    BY <1>2, <1>9 DEF Routes
  <2> QED
    BY <2>1, <2>2, <2>3 DEF Routes
<1> QED
  BY <1>2, <1>6, <1>7, <1>8, <1>10, <1>11, <1>12 DEF OutOK

\* Where the edges of all nodes seen that are nearer than c have been followed,
\* every node up to distance c is seen.
LEMMA LayersSeen ==
  ASSUME NEW H, NEW start, NEW B, NEW R, NEW dist, Metric(H, start, B, R, dist), NEW c \in 0 .. B,
         NEW V, start \in V, \A e \in H : e.from \in V \cap R /\ dist[e.from] < c => e.to \in V
  PROVE  SeenUpTo(c, V, R, dist)
<1> DEFINE T == {d \in Nat : \E v \in R : dist[v] = d /\ d <= c /\ v \notin V}
<1>1. B \in Nat /\ \A v \in R : dist[v] \in Nat
  BY DEF Metric
<1>2. T = {}
  <2>1. SUFFICES ASSUME T # {} PROVE FALSE
    OBVIOUS
  <2>2. PICK d \in T : \A j \in T : d <= j
    <3>1. T \subseteq Nat
      OBVIOUS
    <3> HIDE DEF T
    <3> QED
      BY <2>1, <3>1, FirstOf
  <2>3. PICK v \in R : dist[v] = d /\ d <= c /\ v \notin V
    OBVIOUS
  <2>4. v # start
    BY <2>3
  <2>5. PICK e \in H : e.to = v /\ e.from \in R /\ dist[e.from] + 1 = dist[v]
    BY <2>4, Zenon DEF Metric
  <2>6. dist[e.from] \in Nat /\ dist[e.from] + 1 = d /\ d \in Nat
    BY <1>1, <2>3, <2>5
  <2>7. dist[e.from] \notin T
    <3>1. ~(d <= dist[e.from])
      BY <2>6
    <3> HIDE DEF T
    <3> QED
      BY <2>2, <3>1
  <2>8. dist[e.from] <= c /\ dist[e.from] < c
    BY <1>1, <2>3, <2>6
  <2>9. e.from \in V
    BY <2>5, <2>6, <2>7, <2>8
  <2> QED
    BY <2>3, <2>5, <2>8, <2>9
<1> QED
  BY <1>1, <1>2 DEF SeenUpTo

\* A traversal at an edge of the node just expanded.
MayCross(s, e, M, P, c, H, start, B, R, dist) ==
  /\ Metric(H, start, B, R, dist)
  /\ Frontier(s, P, c, H, start, B, R, dist) /\ c < B /\ SeenUpTo(c, s.visited, R, dist)
  /\ Len(s.out) < M /\ Route(e) \notin Routes(s.out) => Heaviest(e, H)
  /\ e \in H /\ e.from \in P /\ dist[e.from] = c
  /\ M \in Nat /\ Len(s.out) <= M

HasCrossed(t, s, e, M, P, c, H, start, B, R, dist) ==
  /\ Frontier(t, P, c, H, start, B, R, dist) /\ Len(t.out) <= M
  /\ s.visited \subseteq t.visited /\ Routes(s.out) \subseteq Routes(t.out)
  /\ Len(s.out) <= Len(t.out) /\ (Len(t.out) < M => Route(e) \in Routes(t.out))

\* One edge is crossed.
LEMMA EdgeCrossed ==
  ASSUME NEW H, NEW start, NEW B, NEW R, NEW dist, NEW s, NEW P, NEW c, NEW e, NEW M,
         MayCross(s, e, M, P, c, H, start, B, R, dist)
  PROVE  HasCrossed(Cross(s, e, c, M), s, e, M, P, c, H, start, B, R, dist)
<1> DEFINE t == Cross(s, e, c, M)
<1>0. /\ Metric(H, start, B, R, dist)
      /\ Frontier(s, P, c, H, start, B, R, dist) /\ c < B /\ SeenUpTo(c, s.visited, R, dist)
      /\ Len(s.out) < M /\ Route(e) \notin Routes(s.out) => Heaviest(e, H)
      /\ e \in H /\ e.from \in P /\ dist[e.from] = c /\ M \in Nat /\ Len(s.out) <= M
  BY Zenon DEF MayCross
<1> HIDE DEF t
<1>1. /\ QueueOK(s.queue, P, c, R, dist) /\ OutOK(s.out, P, H, B, dist) /\ P \subseteq R
      /\ c \in 0 .. B /\ \A v \in P : dist[v] <= c
      /\ s.visited = P \cup Queued(s.queue) /\ s.visited = {start} \cup Ends(s.out)
  BY <1>0, Zenon DEF Frontier
<1>2. s.out \in Seq(H) /\ Len(s.out) \in Nat
  <2>1. s.out \in Seq(H)
    BY <1>1, Zenon DEF OutOK
  <2> QED
    BY <2>1
<1>3. CASE Len(s.out) >= M \/ \E i \in DOMAIN s.out : Route(s.out[i]) = Route(e)
  <2>1. t = s
    BY <1>3, Zenon DEF Cross, t
  <2>2. Len(s.out) < M => Route(e) \in Routes(s.out)
    <3>1. ASSUME Len(s.out) < M PROVE Route(e) \in Routes(s.out)
      <4>1. PICK i \in DOMAIN s.out : Route(s.out[i]) = Route(e)
        BY <1>0, <1>2, <1>3, <3>1
      <4>2. i \in 1 .. Len(s.out)
        BY <1>2
      <4> QED
        BY <4>1, <4>2, Zenon DEF Routes
    <3> QED
      BY <3>1
  <2> QED
    BY <1>0, <1>2, <2>1, <2>2 DEF HasCrossed, t
<1>4. CASE ~(Len(s.out) >= M \/ \E i \in DOMAIN s.out : Route(s.out[i]) = Route(e))
  <2> DEFINE q == IF e.to \in s.visited THEN s.queue ELSE Append(s.queue, [node |-> e.to, depth |-> c + 1])
             V == s.visited \cup {e.to}
             r == Append(s.out, e)
  <2>1. t = [queue |-> q, visited |-> V, out |-> r]
    BY <1>4, Zenon DEF Cross, t
  <2> HIDE DEF q, V, r
  <2>2. t.queue = q /\ t.visited = V /\ t.out = r /\ DOMAIN t = {"queue", "visited", "out"}
    BY <2>1
  <2>3. Route(e) \notin Routes(s.out) /\ Heaviest(e, H)
    <3>1. DOMAIN s.out = 1 .. Len(s.out) /\ Len(s.out) < M
      BY <1>0, <1>2, <1>4
    <3>2. Route(e) \notin Routes(s.out)
      BY <1>4, <3>1, Zenon DEF Routes
    <3> QED
      BY <1>0, <3>1, <3>2
  <2>4. /\ OutOK(r, P, H, B, dist) /\ Ends(r) = Ends(s.out) \cup {e.to} /\ Routes(r) = Routes(s.out) \cup {Route(e)}
        /\ Len(r) = Len(s.out) + 1
    <3> DEFINE out == s.out
    <3>1. Longer(r, out, e)
      BY DEF r, Longer
    <3>2. OutOK(out, P, H, B, dist)
      BY <1>1
    <3>3. MayPutOut(e, out, P, H, B, dist)
      BY <1>0, <1>1, <2>3 DEF MayPutOut
    <3> HIDE DEF out
    <3>4. /\ OutOK(r, P, H, B, dist) /\ Ends(r) = Ends(out) \cup {e.to} /\ Routes(r) = Routes(out) \cup {Route(e)}
          /\ Len(r) = Len(out) + 1 /\ Len(out) \in Nat
      BY <3>1, <3>2, <3>3, EdgePutOut
    <3> QED
      BY <3>4 DEF out
  <2>5. e.to \in R /\ dist[e.to] <= c + 1 /\ dist[e.to] \in Nat /\ c \in Nat
    BY <1>0, <1>1 DEF Metric
  <2>6. QueueOK(q, P, c, R, dist) /\ V = P \cup Queued(q)
    <3>1. CASE e.to \in s.visited
      BY <1>1, <3>1 DEF q, V
    <3>2. CASE e.to \notin s.visited
      <4>1. dist[e.to] = c + 1
        BY <1>0, <2>5, <3>2 DEF SeenUpTo
      <4>2. e.to \notin P /\ e.to \notin Queued(s.queue)
        BY <1>1, <3>2
      <4>3. q = Append(s.queue, [node |-> e.to, depth |-> c + 1])
        BY <3>2 DEF q
      <4>4. QueueOK(q, P, c, R, dist) /\ Queued(q) = Queued(s.queue) \cup {e.to}
        <5> DEFINE p == s.queue
                   entry == [node |-> e.to, depth |-> c + 1]
        <5>1. MayQueue(entry, p, P, c, R, dist)
          BY <2>5, <4>1, <4>2 DEF MayQueue
        <5>2. QueueOK(p, P, c, R, dist) /\ Longer(q, p, entry) /\ c \in Nat /\ entry.node = e.to
          BY <1>1, <2>5, <4>3 DEF Longer
        <5> HIDE DEF p, entry
        <5>3. QueueOK(q, P, c, R, dist) /\ Queued(q) = Queued(p) \cup {entry.node}
          BY <5>1, <5>2, NodeQueued
        <5> QED
          BY <5>2, <5>3 DEF p
      <4> QED
        BY <1>1, <4>4 DEF V
    <3> QED
      BY <3>1, <3>2
  <2>7. V = {start} \cup Ends(r)
    BY <1>1, <2>4 DEF V
  <2>8. Frontier(t, P, c, H, start, B, R, dist)
    BY <1>1, <2>2, <2>4, <2>6, <2>7, Zenon DEF Frontier
  <2>9. Len(r) <= M /\ Len(s.out) <= Len(r)
    BY <1>0, <1>2, <1>4, <2>4
  <2>10. s.visited \subseteq t.visited /\ Routes(s.out) \subseteq Routes(t.out) /\ Route(e) \in Routes(t.out)
    BY <2>2, <2>4 DEF V
  <2>11. Len(t.out) <= M /\ Len(s.out) <= Len(t.out)
    BY <2>2, <2>9
  <2> QED
    BY <2>8, <2>10, <2>11, Zenon DEF HasCrossed, t
<1> QED
  BY <1>3, <1>4

\* What crossing the first n edges es of a node makes of a traversal s.
Crossed(x, s, es, n, M, P, c, H, start, B, R, dist) ==
  /\ Frontier(x, P, c, H, start, B, R, dist) /\ Len(x.out) \in 0 .. M
  /\ s.visited \subseteq x.visited /\ Routes(s.out) \subseteq Routes(x.out) /\ Len(s.out) <= Len(x.out)
  /\ Len(x.out) < M => \A i \in 1 .. n : Route(es[i]) \in Routes(x.out)

\* The edges put out are counted.
LEMMA OutCounted ==
  ASSUME NEW s, NEW P, NEW c, NEW H, NEW start, NEW B, NEW R, NEW dist, Frontier(s, P, c, H, start, B, R, dist)
  PROVE  Len(s.out) \in Nat
<1>1. s.out \in Seq(H)
  BY Zenon DEF Frontier, OutOK
<1> QED
  BY <1>1

\* The edges es are those of H from v, the heaviest first.
EdgesOf(v, es, H) ==
  /\ es \in Seq(H) /\ Falling(es) /\ \A i \in DOMAIN es : es[i].from = v
  /\ \A e \in H : e.from = v => \E i \in 1 .. Len(es) : es[i] = e

\* Among them the first of a route is its heaviest.
LEMMA FirstHeaviest ==
  ASSUME NEW H, \A e \in H : e.weight \in Int, NEW v, NEW es, EdgesOf(v, es, H), NEW n \in 1 .. Len(es),
         \A i \in 1 .. (n - 1) : Route(es[i]) # Route(es[n])
  PROVE  Heaviest(es[n], H)
<1>1. /\ es \in Seq(H) /\ Falling(es) /\ \A i \in DOMAIN es : es[i].from = v
      /\ \A e \in H : e.from = v => \E i \in 1 .. Len(es) : es[i] = e
  BY Zenon DEF EdgesOf
<1>2. DOMAIN es = 1 .. Len(es) /\ Len(es) \in Nat
  BY <1>1
<1>3. ASSUME NEW h \in H, Route(h) = Route(es[n]) PROVE h.weight <= es[n].weight
  <2>1. h.from = es[n].from
    BY <1>3 DEF Route
  <2>2. PICK i \in 1 .. Len(es) : es[i] = h
    BY <1>1, <1>2, <2>1
  <2>3. ~(i < n)
    BY <1>2, <1>3, <2>2
  <2>4. CASE i = n
    BY <1>3, <2>2, <2>4
  <2>5. CASE n < i
    BY <1>1, <2>2, <2>5 DEF Falling
  <2> QED
    BY <1>2, <2>3, <2>4, <2>5
<1> QED
  BY <1>3 DEF Heaviest

\* The edges of the node just expanded are crossed.
LEMMA AllCrossed ==
  ASSUME NEW H, \A e \in H : e.weight \in Int, NEW start, NEW B, NEW R, NEW dist, Metric(H, start, B, R, dist),
         NEW s, NEW P, NEW c \in 0 .. B, Frontier(s, P, c, H, start, B, R, dist), c < B,
         SeenUpTo(c, s.visited, R, dist),
         NEW v \in P, dist[v] = c, NEW es, EdgesOf(v, es, H),
         NEW M \in Nat, Len(s.out) <= M
  PROVE  Crossed(CrossAll(s, es, c, M), s, es, Len(es), M, P, c, H, start, B, R, dist)
<1> DEFINE x == Crossing(s, es, c, M)
           Good(n) == Crossed(x[n], s, es, n, M, P, c, H, start, B, R, dist)
           T == {n \in Nat : n <= Len(es) /\ ~Good(n)}
<1>1. es \in Seq(H) /\ Len(es) \in Nat /\ DOMAIN es = 1 .. Len(es) /\ \A i \in DOMAIN es : es[i].from = v
  <2>1. es \in Seq(H) /\ \A i \in DOMAIN es : es[i].from = v
    BY Zenon DEF EdgesOf
  <2> QED
    BY <2>1
<1>2. /\ CrossAll(s, es, c, M) = x[Len(es)] /\ x[0] = s
      /\ \A n \in 1 .. Len(es) : x[n] = Cross(x[n - 1], es[n], c, M)
  BY <1>1, CrossingIs
<1> HIDE DEF x
<1>3. Good(0)
  <2>1. Len(s.out) \in Nat
    BY OutCounted
  <2>2. Len(s.out) \in 0 .. M /\ Len(s.out) <= Len(s.out) /\ \A i \in 1 .. 0 : FALSE
    BY <2>1
  <2>3. Crossed(s, s, es, 0, M, P, c, H, start, B, R, dist)
    BY <2>2 DEF Crossed
  <2> QED
    BY <1>2, <2>3
<1>4. ASSUME NEW n \in 1 .. Len(es), Good(n - 1) PROVE Good(n)
  <2> DEFINE y == x[n - 1]
             t == x[n]
             e == es[n]
  <2>1. /\ Frontier(y, P, c, H, start, B, R, dist) /\ Len(y.out) \in 0 .. M
        /\ s.visited \subseteq y.visited /\ Routes(s.out) \subseteq Routes(y.out) /\ Len(s.out) <= Len(y.out)
        /\ Len(y.out) < M => \A i \in 1 .. (n - 1) : Route(es[i]) \in Routes(y.out)
    BY <1>4, Zenon DEF Crossed
  <2>2. t = Cross(y, e, c, M)
    BY <1>2
  <2>3. e \in H /\ e.from = v
    BY <1>1
  <2>4. \A i \in 1 .. n : i \in 1 .. (n - 1) \/ i = n
    BY <1>1
  <2> HIDE DEF y, t
  <2>12. Len(y.out) < M /\ Route(e) \notin Routes(y.out) => Heaviest(e, H)
    <3>1. ASSUME Len(y.out) < M, Route(e) \notin Routes(y.out) PROVE Heaviest(e, H)
      <4>1. \A i \in 1 .. (n - 1) : Route(es[i]) # Route(es[n])
        BY <2>1, <3>1
      <4> QED
        BY <4>1, FirstHeaviest
    <3> QED
      BY <3>1
  <2> HIDE DEF e
  <2>5. MayCross(y, e, M, P, c, H, start, B, R, dist)
    BY <2>1, <2>3, <2>12 DEF MayCross, SeenUpTo
  <2>6. /\ Frontier(t, P, c, H, start, B, R, dist) /\ Len(t.out) <= M
        /\ y.visited \subseteq t.visited /\ Routes(y.out) \subseteq Routes(t.out)
        /\ Len(y.out) <= Len(t.out) /\ (Len(t.out) < M => Route(e) \in Routes(t.out))
    BY <2>2, <2>5, EdgeCrossed, Zenon DEF HasCrossed
  <2>7. Len(t.out) \in Nat /\ Len(s.out) \in Nat
    BY <2>6, OutCounted
  <2>8. Len(t.out) \in 0 .. M /\ Len(s.out) <= Len(t.out) /\ (Len(t.out) < M => Len(y.out) < M)
    BY <2>1, <2>6, <2>7
  <2>9. Len(t.out) < M => \A i \in 1 .. n : Route(es[i]) \in Routes(t.out)
    BY <2>1, <2>4, <2>6, <2>8 DEF e
  <2>10. s.visited \subseteq t.visited /\ Routes(s.out) \subseteq Routes(t.out)
    BY <2>1, <2>6
  <2>11. Crossed(t, s, es, n, M, P, c, H, start, B, R, dist)
    BY <2>6, <2>8, <2>9, <2>10, Zenon DEF Crossed
  <2> QED
    BY <2>11 DEF t
<1> HIDE DEF Good
<1>5. T = {}
  <2>1. SUFFICES ASSUME T # {} PROVE FALSE
    OBVIOUS
  <2>2. PICK n \in T : \A j \in T : n <= j
    <3>1. T \subseteq Nat
      OBVIOUS
    <3> HIDE DEF T
    <3> QED
      BY <2>1, <3>1, FirstOf
  <2>3. n \in Nat /\ n <= Len(es) /\ ~Good(n)
    OBVIOUS
  <2>4. n # 0
    BY <1>3, <2>3
  <2>5. n \in 1 .. Len(es) /\ n - 1 \in Nat /\ n - 1 <= Len(es) /\ ~(n <= n - 1)
    BY <1>1, <2>3, <2>4
  <2>6. Good(n - 1)
    BY <2>2, <2>5
  <2> QED
    BY <1>4, <2>3, <2>5, <2>6
<1>6. Good(Len(es))
  BY <1>1, <1>5
<1> QED
  BY <1>2, <1>6 DEF Good

\* A traversal between two turns: unless it has put out enough, the routes of the
\* edges of the nodes expanded are all put out.
Between(s, P, M, H, start, B, R, dist) ==
  /\ \E c : Frontier(s, P, c, H, start, B, R, dist)
  /\ Len(s.out) \in 0 .. M
  /\ Len(s.out) < M => \A e \in H : e.from \in P /\ dist[e.from] < B => Route(e) \in Routes(s.out)

\* The far end of an edge whose route is put out has been seen.
LEMMA RouteEnds ==
  ASSUME NEW e, NEW out, Route(e) \in Routes(out)
  PROVE  e.to \in Ends(out)
<1>1. PICK i \in 1 .. Len(out) : Route(e) = Route(out[i])
  BY Zenon DEF Routes
<1>2. e.to = out[i].to
  BY <1>1 DEF Route
<1> QED
  BY <1>2 DEF Ends

TakesHead(rest, v, s) == rest = [s EXCEPT !.queue = Tail(@)] /\ v = Head(s.queue).node

HeadTakenOf(rest, v, s, P, H, start, B, R, dist) ==
  /\ Frontier(rest, P \cup {v}, dist[v], H, start, B, R, dist)
  /\ rest.out = s.out /\ rest.visited = s.visited /\ v \in R /\ v \notin P /\ v \in s.visited
  /\ Head(s.queue).depth = dist[v] /\ dist[v] \in 0 .. B
  /\ \A u \in Queued(s.queue) : dist[v] <= dist[u]

\* Taking the head of the queue makes its distance the current one.
LEMMA HeadExpanded ==
  ASSUME NEW H, NEW start, NEW B, NEW R, NEW dist, Metric(H, start, B, R, dist),
         NEW s, NEW P, NEW c, Frontier(s, P, c, H, start, B, R, dist), s.queue # <<>>,
         NEW rest, NEW v, TakesHead(rest, v, s)
  PROVE  HeadTakenOf(rest, v, s, P, H, start, B, R, dist)
<1> DEFINE q == s.queue
           h == Head(q)
           t == Tail(q)
<1>1. /\ QueueOK(q, P, c, R, dist) /\ OutOK(s.out, P, H, B, dist)
      /\ c \in 0 .. B /\ P \subseteq R /\ \A u \in P : dist[u] <= c
      /\ s.visited = P \cup Queued(q) /\ s.visited = {start} \cup Ends(s.out)
      /\ DOMAIN s = {"queue", "visited", "out"}
  BY Zenon DEF Frontier
<1>2. B \in Nat /\ \A u \in R : dist[u] \in 0 .. B
  BY DEF Metric
<1>3. rest.queue = t /\ rest.out = s.out /\ rest.visited = s.visited /\ DOMAIN rest = {"queue", "visited", "out"}
  BY <1>1 DEF TakesHead
<1>4. c \in Nat /\ q # <<>>
  BY <1>1, <1>2
<1> HIDE DEF q
<1>5. /\ QueueOK(t, P \cup {h.node}, h.depth, R, dist)
      /\ Queued(q) = {h.node} \cup Queued(t)
      /\ h.node \in R /\ h.node \notin P /\ h.depth = dist[h.node]
      /\ h.depth \in Nat /\ c <= h.depth
  BY <1>1, <1>4, HeadTaken
<1>6. v = h.node
  BY DEF q, TakesHead
<1> HIDE DEF h, t
<1>7. dist[v] \in 0 .. B /\ c <= dist[v] /\ dist[v] = h.depth
  BY <1>2, <1>5, <1>6
<1>8. \A u \in P \cup {v} : dist[u] <= dist[v]
  BY <1>1, <1>2, <1>7
<1>9. OutOK(s.out, P \cup {v}, H, B, dist)
  BY <1>1 DEF OutOK
<1>10. s.visited = (P \cup {v}) \cup Queued(t)
  BY <1>1, <1>5, <1>6
<1>11. QueueOK(t, P \cup {v}, dist[v], R, dist) /\ P \cup {v} \subseteq R
  BY <1>1, <1>5, <1>6, <1>7
<1>12. Frontier(rest, P \cup {v}, dist[v], H, start, B, R, dist)
  BY <1>1, <1>3, <1>7, <1>8, <1>9, <1>10, <1>11, Zenon DEF Frontier
<1>13. \A u \in Queued(q) : dist[v] <= dist[u]
  <2>1. \A i \in 1 .. Len(t) : t[i].depth = dist[t[i].node] /\ h.depth <= t[i].depth
    BY <1>5, Zenon DEF QueueOK
  <2>2. \A u \in Queued(t) : dist[v] <= dist[u]
    BY <1>7, <2>1 DEF Queued
  <2> QED
    BY <1>2, <1>5, <1>6, <1>7, <2>2
<1> QED
  BY <1>3, <1>5, <1>6, <1>7, <1>10, <1>12, <1>13 DEF q, h, HeadTakenOf

\* When a node is taken every node at its distance has been seen.
LEMMA LayerSeen ==
  ASSUME NEW H, NEW start, NEW B, NEW R, NEW dist, Metric(H, start, B, R, dist),
         NEW s, NEW P, NEW M \in Nat, Between(s, P, M, H, start, B, R, dist), Len(s.out) < M,
         NEW d \in 0 .. B, \A u \in Queued(s.queue) : d <= dist[u]
  PROVE  SeenUpTo(d, s.visited, R, dist)
<1>1. /\ s.visited = P \cup Queued(s.queue) /\ s.visited = {start} \cup Ends(s.out)
      /\ \A e \in H : e.from \in P /\ dist[e.from] < B => Route(e) \in Routes(s.out)
  BY Zenon DEF Between, Frontier
<1>2. B \in Nat /\ \A u \in R : dist[u] \in 0 .. B
  BY DEF Metric
<1>3. start \in s.visited
  BY <1>1
<1>4. ASSUME NEW e \in H, e.from \in s.visited \cap R, dist[e.from] < d PROVE e.to \in s.visited
  <2>1. dist[e.from] \in 0 .. B /\ dist[e.from] < B /\ ~(d <= dist[e.from])
    BY <1>2, <1>4
  <2>2. e.from \in P
    BY <1>1, <1>4, <2>1
  <2>3. Route(e) \in Routes(s.out)
    BY <1>1, <2>1, <2>2
  <2>4. e.to \in Ends(s.out)
    BY <2>3, RouteEnds
  <2> QED
    BY <1>1, <2>4
<1> DEFINE V == s.visited
<1>5. start \in V /\ \A e \in H : e.from \in V \cap R /\ dist[e.from] < d => e.to \in V
  BY <1>3, <1>4
<1> HIDE DEF V
<1>6. SeenUpTo(d, V, R, dist)
  BY <1>5, LayersSeen
<1> QED
  BY <1>6 DEF V

\* The edges a turn crosses are the heavy ones of its node.
LEMMA OutgoingIs ==
  ASSUME MemoryGraphAssumption, library \in Seq(LibraryEdge), NEW o, NEW v
  PROVE  EdgesOf(v, Outgoing(v, o.minWeight), Heavy(library, o)) /\ \A e \in Heavy(library, o) : e.weight \in Int
<1> DEFINE es == Outgoing(v, o.minWeight)
           places == {i \in DOMAIN library : library[i].from = v /\ library[i].weight >= o.minWeight}
           H == Heavy(library, o)
<1>0. /\ es \in Seq(LibraryEdge)
      /\ (\E at : Picks(es, library, places, at)) /\ Falling(es)
  <2> DEFINE w == o.minWeight
  <2> HIDE DEF w
  <2>1. /\ Outgoing(v, w) \in Seq(LibraryEdge)
        /\ \E at : Picks(Outgoing(v, w), library,
             {i \in DOMAIN library : library[i].from = v /\ library[i].weight >= w}, at)
        /\ Falling(Outgoing(v, w))
    BY OutgoingPicks
  <2> QED
    BY <2>1, Zenon DEF w
<1>1. PICK at : Picks(es, library, places, at)
  BY <1>0, Zenon
<1>2. \A i \in places : library[i] \in H /\ library[i].from = v
  BY DEF Heavy
<1>3. \A e \in H : e.from = v => \E i \in places : library[i] = e
  BY DEF Heavy
<1>9. \A e \in H : e.weight \in Int
  <2>1. \A e \in LibraryEdge : e.weight \in Nat
    BY Zenon DEF MemoryGraphAssumption
  <2>2. H \subseteq LibraryEdge
    BY DEF Heavy
  <2> QED
    BY <2>1, <2>2
<1> HIDE DEF es, places, H
<1>4. /\ DOMAIN es = 1 .. Len(es) /\ Len(es) \in Nat
      /\ at \in [1 .. Len(es) -> places]
      /\ \A k \in 1 .. Len(es) : es[k] = library[at[k]]
      /\ \A i \in places : \E k \in 1 .. Len(es) : at[k] = i
  BY <1>1, Zenon DEF Picks
<1>5. es \in Seq(LibraryEdge)
  BY <1>0
<1>6. \A k \in 1 .. Len(es) : es[k] \in H /\ es[k].from = v
  BY <1>2, <1>4
<1>7. es \in Seq(H)
  <2> DEFINE n == Len(es)
  <2>1. es \in [1 .. n -> H]
    BY <1>4, <1>5, <1>6
  <2>2. n \in Nat
    BY <1>4
  <2> HIDE DEF n
  <2> QED
    BY <2>1, <2>2
<1>8. \A e \in H : e.from = v => \E k \in 1 .. Len(es) : es[k] = e
  <2>1. ASSUME NEW e \in H, e.from = v PROVE \E k \in 1 .. Len(es) : es[k] = e
    <3>1. PICK i \in places : library[i] = e
      BY <1>3, <2>1
    <3>2. PICK k \in 1 .. Len(es) : at[k] = i
      BY <1>4
    <3> QED
      BY <1>4, <3>1, <3>2
  <2> QED
    BY <2>1
<1> QED
  BY <1>0, <1>4, <1>6, <1>7, <1>8, <1>9 DEF EdgesOf, es, H

\* One turn of the loop expands one node.
LEMMA TurnTaken ==
  ASSUME MemoryGraphAssumption, library \in Seq(LibraryEdge), NEW o, o.most \in Nat,
         NEW H, H = Heavy(library, o), NEW B, B = o.deepest,
         NEW start, NEW R, NEW dist, Metric(H, start, B, R, dist),
         NEW s, NEW P, Between(s, P, o.most, H, start, B, R, dist), s.queue # <<>>, Len(s.out) < o.most
  PROVE  \E v \in s.visited \ P : Between(Expand(s, o), P \cup {v}, o.most, H, start, B, R, dist)
<1> DEFINE M == o.most
           h == Head(s.queue)
           v == h.node
           rest == [s EXCEPT !.queue = Tail(@)]
           es == Outgoing(v, o.minWeight)
           d == dist[v]
           t == Expand(s, o)
<1>1. PICK c : Frontier(s, P, c, H, start, B, R, dist)
  BY Zenon DEF Between
<1>2. /\ Len(s.out) \in 0 .. M
      /\ \A e \in H : e.from \in P /\ dist[e.from] < B => Route(e) \in Routes(s.out)
  BY Zenon DEF Between
<1>3. /\ Frontier(rest, P \cup {v}, d, H, start, B, R, dist)
      /\ rest.out = s.out /\ rest.visited = s.visited /\ v \in R /\ v \notin P /\ v \in s.visited
      /\ h.depth = d /\ d \in 0 .. B
      /\ \A u \in Queued(s.queue) : d <= dist[u]
  <2>1. TakesHead(rest, v, s)
    BY DEF TakesHead
  <2> HIDE DEF rest, v
  <2>2. HeadTakenOf(rest, v, s, P, H, start, B, R, dist)
    BY <1>1, <2>1, HeadExpanded
  <2> QED
    BY <2>2, Zenon DEF HeadTakenOf
<1>4. M \in Nat /\ ~(s.queue = <<>> \/ Len(s.out) >= M)
  BY <1>2
<1>5. t = IF h.depth >= o.deepest THEN rest ELSE CrossAll(rest, es, h.depth, M)
  BY <1>4, Zenon DEF Expand
<1>6. B \in Nat
  BY DEF Metric
<1>7. ASSUME NEW x, Len(x.out) \in 0 .. M, Routes(s.out) \subseteq Routes(x.out), Len(s.out) <= Len(x.out),
             Frontier(x, P \cup {v}, d, H, start, B, R, dist),
             d < B => (Len(x.out) < M => \A e \in H : e.from = v => Route(e) \in Routes(x.out))
      PROVE  Between(x, P \cup {v}, M, H, start, B, R, dist)
  <2>1. ASSUME Len(x.out) < M, NEW e \in H, e.from \in P \cup {v}, dist[e.from] < B
        PROVE  Route(e) \in Routes(x.out)
    <3>1. CASE e.from = v
      BY <1>7, <2>1, <3>1
    <3>2. CASE e.from \in P
      BY <1>2, <1>7, <2>1, <3>2
    <3> QED
      BY <2>1, <3>1, <3>2
  <2> QED
    BY <1>7, <2>1, Zenon DEF Between
<1> HIDE DEF M, h, v, rest, es, d, t
<1>8. CASE h.depth >= o.deepest
  <2>1. t = rest /\ ~(d < B) /\ Len(s.out) <= Len(s.out)
    BY <1>2, <1>3, <1>4, <1>5, <1>6, <1>8
  <2>2. Between(rest, P \cup {v}, M, H, start, B, R, dist)
    BY <1>2, <1>3, <1>7, <2>1
  <2> QED
    BY <1>3, <2>1, <2>2 DEF M, t
<1>9. CASE ~(h.depth >= o.deepest)
  <2>1. t = CrossAll(rest, es, d, M) /\ d < B
    BY <1>3, <1>5, <1>6, <1>9
  <2>2. /\ EdgesOf(v, es, H) /\ \A e \in H : e.weight \in Int
        /\ \A e \in H : e.from = v => \E i \in 1 .. Len(es) : es[i] = e
    <3>1. EdgesOf(v, es, H) /\ \A e \in H : e.weight \in Int
      BY OutgoingIs DEF es
    <3> QED
      BY <3>1, Zenon DEF EdgesOf
  <2>3. SeenUpTo(d, s.visited, R, dist)
    <3>1. Between(s, P, M, H, start, B, R, dist) /\ Len(s.out) < M
      BY DEF M
    <3> QED
      BY <1>3, <1>4, <3>1, LayerSeen
  <2>4. SeenUpTo(d, rest.visited, R, dist) /\ Len(rest.out) <= M /\ v \in P \cup {v} /\ dist[v] = d
    BY <1>2, <1>3, <1>4, <2>3 DEF d
  <2>5. Crossed(t, rest, es, Len(es), M, P \cup {v}, d, H, start, B, R, dist)
    <3> DEFINE Q == P \cup {v}
    <3>1. Frontier(rest, Q, d, H, start, B, R, dist) /\ v \in Q /\ d \in 0 .. B
      BY <1>3
    <3> HIDE DEF Q
    <3>2. Crossed(CrossAll(rest, es, d, M), rest, es, Len(es), M, Q, d, H, start, B, R, dist)
      BY <1>4, <2>1, <2>2, <2>4, <3>1, AllCrossed
    <3> QED
      BY <2>1, <3>2 DEF Q
  <2>6. /\ Frontier(t, P \cup {v}, d, H, start, B, R, dist) /\ Len(t.out) \in 0 .. M
        /\ Routes(s.out) \subseteq Routes(t.out) /\ Len(s.out) <= Len(t.out)
        /\ Len(t.out) < M => \A i \in 1 .. Len(es) : Route(es[i]) \in Routes(t.out)
    <3>1. /\ Frontier(t, P \cup {v}, d, H, start, B, R, dist) /\ Len(t.out) \in 0 .. M
          /\ Routes(rest.out) \subseteq Routes(t.out) /\ Len(rest.out) <= Len(t.out)
          /\ Len(t.out) < M => \A i \in 1 .. Len(es) : Route(es[i]) \in Routes(t.out)
      BY <2>5, Zenon DEF Crossed
    <3>2. rest.out = s.out
      BY <1>3
    <3> QED
      BY <3>1, <3>2, Zenon
  <2>7. Between(t, P \cup {v}, M, H, start, B, R, dist)
    <3>1. Len(t.out) < M => \A e \in H : e.from = v => Route(e) \in Routes(t.out)
      BY <2>2, <2>6, Zenon
    <3> QED
      BY <1>7, <2>6, <3>1, Zenon
  <2> QED
    BY <1>3, <2>7 DEF M, t
<1> QED
  BY <1>8, <1>9

\* After n turns a traversal has expanded n nodes, unless it was over before.
AfterTurns(s, n, M, H, start, B, R, dist) ==
  \E P : /\ IsFiniteSet(P) /\ Between(s, P, M, H, start, B, R, dist)
        /\ (Len(s.out) >= M \/ s.queue = <<>> \/ Cardinality(P) = n)

\* No node expanded yet, the start is queued.
LEMMA TurnsBegin ==
  ASSUME NEW o, o.most \in Nat, NEW H, NEW B, NEW R, NEW dist, Metric(H, o.start, B, R, dist)
  PROVE  AfterTurns(Begun(o), 0, o.most, H, o.start, B, R, dist)
<1> DEFINE s == Begun(o)
           start == o.start
           entry == [node |-> start, depth |-> 0]
           X == [node : R, depth : Nat]
<1>1. B \in Nat /\ start \in R /\ dist[start] = 0
  BY DEF Metric
<1>2. entry \in X /\ entry.node = start /\ entry.depth = 0
  BY <1>1
<1>3. s.queue = <<entry>> /\ s.visited = {start} /\ s.out = <<>> /\ DOMAIN s = {"queue", "visited", "out"}
  BY DEF Begun
<1> HIDE DEF s, start, entry, X
<1>4. s.queue \in Seq(X) /\ Len(s.queue) = 1 /\ s.queue[1] = entry
  BY <1>2, <1>3
<1>5. QueueOK(s.queue, {}, 0, R, dist)
  BY <1>1, <1>2, <1>4 DEF QueueOK, X
<1>6. Queued(s.queue) = {start}
  BY <1>2, <1>4 DEF Queued
<1>7. Ends(s.out) = {} /\ OutOK(s.out, {}, H, B, dist) /\ Len(s.out) = 0
  BY <1>3 DEF Ends, OutOK
<1>8. Frontier(s, {}, 0, H, start, B, R, dist)
  BY <1>1, <1>3, <1>5, <1>6, <1>7 DEF Frontier
<1>9. Between(s, {}, o.most, H, start, B, R, dist)
  BY <1>7, <1>8 DEF Between
<1>10. IsFiniteSet({}) /\ Cardinality({}) = 0
  BY FS_EmptySet
<1> QED
  BY <1>9, <1>10 DEF AfterTurns, s, start

\* One turn more.
LEMMA TurnsGoOn ==
  ASSUME MemoryGraphAssumption, library \in Seq(LibraryEdge), NEW o, o.most \in Nat,
         NEW H, H = Heavy(library, o), NEW B, B = o.deepest,
         NEW start, NEW R, NEW dist, Metric(H, start, B, R, dist),
         NEW s, NEW n \in Nat, AfterTurns(s, n, o.most, H, start, B, R, dist)
  PROVE  AfterTurns(Expand(s, o), n + 1, o.most, H, start, B, R, dist)
<1>1. PICK P : /\ IsFiniteSet(P) /\ Between(s, P, o.most, H, start, B, R, dist)
               /\ (Len(s.out) >= o.most \/ s.queue = <<>> \/ Cardinality(P) = n)
  BY Zenon DEF AfterTurns
<1>2. Len(s.out) \in 0 .. o.most
  BY <1>1, Zenon DEF Between
<1>3. CASE s.queue = <<>> \/ Len(s.out) >= o.most
  <2>1. Expand(s, o) = s
    BY <1>3, Zenon DEF Expand
  <2> QED
    BY <1>1, <1>3, <2>1, Zenon DEF AfterTurns
<1>4. CASE ~(s.queue = <<>> \/ Len(s.out) >= o.most)
  <2>1. s.queue # <<>> /\ Len(s.out) < o.most /\ Cardinality(P) = n
    BY <1>1, <1>2, <1>4
  <2>2. PICK v \in s.visited \ P : Between(Expand(s, o), P \cup {v}, o.most, H, start, B, R, dist)
    BY <1>1, <2>1, TurnTaken
  <2>3. IsFiniteSet(P \cup {v}) /\ Cardinality(P \cup {v}) = n + 1
    BY <1>1, <2>1, <2>2, FS_AddElement
  <2> QED
    BY <2>2, <2>3, Zenon DEF AfterTurns
<1> QED
  BY <1>3, <1>4

\* The turns of a traversal are enough for all nodes it can see.
LEMMA TurnsEnough ==
  ASSUME MemoryGraphAssumption, library \in Seq(LibraryEdge), NEW o, o.most \in Nat,
         NEW H, H = Heavy(library, o), NEW B, B = o.deepest,
         NEW R, NEW dist, Metric(H, o.start, B, R, dist)
  PROVE  \E P : /\ Between(TraverseGraph(o), P, o.most, H, o.start, B, R, dist)
               /\ (Len(TraverseGraph(o).out) >= o.most \/ TraverseGraph(o).queue = <<>>)
<1> DEFINE N == Len(library) + 1
           x == Turns(o)
           Good(n) == AfterTurns(x[n], n, o.most, H, o.start, B, R, dist)
           T == {n \in Nat : n <= N /\ ~Good(n)}
<1>1. N \in Nat /\ Len(library) \in Nat
  OBVIOUS
<1>2. /\ TraverseGraph(o) = x[N] /\ x[0] = Begun(o)
      /\ \A n \in 1 .. N : x[n] = Expand(x[n - 1], o)
  BY <1>1, TurnsAre
<1> HIDE DEF x, N
<1>3. Good(0)
  BY <1>2, TurnsBegin
<1>4. ASSUME NEW n \in 1 .. N, Good(n - 1) PROVE Good(n)
  <2> DEFINE y == x[n - 1]
             m == n - 1
  <2>1. m \in Nat /\ m + 1 = n
    BY <1>1
  <2>2. AfterTurns(y, m, o.most, H, o.start, B, R, dist) /\ x[n] = Expand(y, o)
    BY <1>2, <1>4
  <2> HIDE DEF y, m
  <2>3. AfterTurns(Expand(y, o), m + 1, o.most, H, o.start, B, R, dist)
    BY <2>1, <2>2, TurnsGoOn
  <2> QED
    BY <2>1, <2>2, <2>3
<1> HIDE DEF Good
<1>5. T = {}
  <2>1. SUFFICES ASSUME T # {} PROVE FALSE
    OBVIOUS
  <2>2. PICK n \in T : \A j \in T : n <= j
    <3>1. T \subseteq Nat
      OBVIOUS
    <3> HIDE DEF T
    <3> QED
      BY <2>1, <3>1, FirstOf
  <2>3. n \in Nat /\ n <= N /\ ~Good(n)
    OBVIOUS
  <2>4. n # 0
    BY <1>3, <2>3
  <2>5. n \in 1 .. N /\ n - 1 \in Nat /\ n - 1 <= N /\ ~(n <= n - 1)
    BY <1>1, <2>3, <2>4
  <2>6. Good(n - 1)
    BY <2>2, <2>5
  <2> QED
    BY <1>4, <2>3, <2>5, <2>6
<1>6. Good(N)
  BY <1>1, <1>5
<1> DEFINE s == TraverseGraph(o)
<1>7. PICK P : /\ IsFiniteSet(P) /\ Between(s, P, o.most, H, o.start, B, R, dist)
               /\ (Len(s.out) >= o.most \/ s.queue = <<>> \/ Cardinality(P) = N)
  BY <1>2, <1>6, Zenon DEF Good, AfterTurns
<1> HIDE DEF s
<1>8. ASSUME s.queue # <<>>, Cardinality(P) = N PROVE FALSE
  <2>1. PICK c : Frontier(s, P, c, H, o.start, B, R, dist)
    BY <1>7, Zenon DEF Between
  <2>2. /\ QueueOK(s.queue, P, c, R, dist) /\ s.out \in Seq(H) /\ c \in 0 .. B
        /\ s.visited = P \cup Queued(s.queue) /\ s.visited = {o.start} \cup Ends(s.out)
    BY <2>1, Zenon DEF Frontier, OutOK
  <2>3. c \in Nat
    BY <2>2 DEF Metric
  <2> DEFINE v == Head(s.queue).node
             f == [i \in 0 .. Len(library) |-> IF i = 0 THEN o.start ELSE library[i].to]
             Reach == {f[i] : i \in 0 .. Len(library)}
  <2>4. v \in s.visited /\ v \notin P
    <3> DEFINE q == s.queue
    <3>1. QueueOK(q, P, c, R, dist) /\ q # <<>>
      BY <1>8, <2>2
    <3> HIDE DEF q
    <3>2. /\ QueueOK(Tail(q), P \cup {Head(q).node}, Head(q).depth, R, dist)
          /\ Queued(q) = {Head(q).node} \cup Queued(Tail(q))
          /\ Head(q).node \in R /\ Head(q).node \notin P /\ Head(q).depth = dist[Head(q).node]
          /\ Head(q).depth \in Nat /\ c <= Head(q).depth
      BY <2>3, <3>1, HeadTaken, Zenon
    <3> QED
      BY <2>2, <3>2 DEF q
  <2>5. s.visited \subseteq Reach
    <3>1. \A e \in H : \E i \in 1 .. Len(library) : library[i] = e
      BY DEF Heavy
    <3>2. o.start \in Reach
      <4>1. f[0] = o.start /\ 0 \in 0 .. Len(library)
        BY <1>1
      <4> QED
        BY <4>1
    <3>3. \A i \in 1 .. Len(library) : library[i].to \in Reach
      <4>1. \A i \in 1 .. Len(library) : f[i] = library[i].to /\ i \in 0 .. Len(library)
        BY <1>1
      <4> QED
        BY <4>1
    <3>4. \A i \in 1 .. Len(s.out) : s.out[i] \in H
      BY <2>2
    <3> HIDE DEF Reach
    <3>5. ASSUME NEW i \in 1 .. Len(s.out) PROVE s.out[i].to \in Reach
      <4>1. PICK j \in 1 .. Len(library) : library[j] = s.out[i]
        BY <3>1, <3>4
      <4> QED
        BY <3>3, <4>1
    <3> QED
      BY <2>2, <3>2, <3>5 DEF Ends
  <2>6. IsFiniteSet(Reach) /\ Cardinality(Reach) <= N
    <3>1. f \in Surjection(0 .. Len(library), Reach)
      BY DEF Surjection
    <3>2. IsFiniteSet(0 .. Len(library)) /\ Cardinality(0 .. Len(library)) = N
      BY <1>1, FS_Interval DEF N
    <3> HIDE DEF f, Reach
    <3> QED
      BY <3>1, <3>2, FS_Surjection
  <2> HIDE DEF v, Reach
  <2>7. IsFiniteSet(P \cup {v}) /\ Cardinality(P \cup {v}) = N + 1
    BY <1>7, <1>8, <2>4, FS_AddElement
  <2>8. Cardinality(P \cup {v}) <= Cardinality(Reach)
    <3>1. P \cup {v} \in SUBSET Reach
      BY <2>2, <2>4, <2>5
    <3> QED
      BY <2>6, <3>1, FS_Subset
  <2>9. Cardinality(Reach) \in Nat
    BY <2>6, FS_CardinalityType
  <2> QED
    BY <1>1, <2>6, <2>7, <2>8, <2>9
<1> QED
  BY <1>7, <1>8 DEF s
\* What TraversalExact says of one traversal.
ExactWalk(list, o, out, visited) ==
  LET H == Heavy(list, o)
      within == {e \in H : e.from \in Near(list, o)[o.deepest - 1]}
  IN  /\ \A i, j \in 1 .. Len(out) : Route(out[i]) = Route(out[j]) => i = j
      /\ Len(out) <= o.most
      /\ Given(out) \subseteq within
      /\ \A e \in Given(out), h \in within : Route(h) = Route(e) => h.weight <= e.weight
      /\ (Len(out) < o.most => \A h \in within : \E e \in Given(out) : Route(e) = Route(h))
      /\ \A i, j \in 1 .. Len(out), d \in 0 .. o.deepest :
           i < j /\ out[j].from \in Near(list, o)[d] => out[i].from \in Near(list, o)[d]
      /\ visited = {o.start} \cup {e.to : e \in Given(out)}
      /\ DOMAIN out = 1 .. Len(out)

\* A traversal puts out the heaviest edge of each route within its depth and no other.
LEMMA TraversalIs ==
  ASSUME MemoryGraphAssumption, library \in Seq(LibraryEdge), NEW o \in WalkOptions
  PROVE  ExactWalk(library, o, TraverseGraph(o).out, TraverseGraph(o).visited)
<1> DEFINE H == Heavy(library, o)
           B == o.deepest
           near == Near(library, o)
           R == near[B]
           M == o.most
           s == TraverseGraph(o)
<1>1. B \in Nat \ {0} /\ M \in Nat /\ B - 1 \in 0 .. B /\ B \in 0 .. B
  BY DEF MemoryGraphAssumption
<1>3. PICK dist : /\ Metric(H, o.start, B, R, dist)
                  /\ \A v \in R, c \in 0 .. B : v \in near[c] <=> dist[v] <= c
  BY <1>1, Distances
<1>4. R = near[B] /\ near[B - 1] \subseteq R
  BY <1>1, NearGrows
<1> HIDE DEF R
<1>5. PICK P : Between(s, P, M, H, o.start, B, R, dist) /\ (Len(s.out) >= M \/ s.queue = <<>>)
  <2>1. \E Q : /\ Between(TraverseGraph(o), Q, o.most, H, o.start, B, R, dist)
              /\ (Len(TraverseGraph(o).out) >= o.most \/ TraverseGraph(o).queue = <<>>)
    BY <1>1, <1>3, TurnsEnough
  <2> QED
    BY <2>1
<1> DEFINE out == s.out
           visited == s.visited
           q == s.queue
           given == Given(out)
           within == {e \in H : e.from \in near[B - 1]}
<1>6. PICK c : Frontier(s, P, c, H, o.start, B, R, dist)
  BY <1>5, Zenon DEF Between
<1>7. /\ OutOK(out, P, H, B, dist) /\ P \subseteq R
      /\ visited = P \cup Queued(q) /\ visited = {o.start} \cup Ends(out)
  BY <1>6, Zenon DEF Frontier
<1>8. /\ Len(out) \in 0 .. M
      /\ Len(out) < M => \A e \in H : e.from \in P /\ dist[e.from] < B => Route(e) \in Routes(out)
  BY <1>5, Zenon DEF Between
<1>9. Len(out) >= M \/ q = <<>>
  BY <1>5
<1> HIDE DEF s, H, near, M, B
<1> HIDE DEF out, visited, q
<1>10. /\ out \in Seq(H) /\ Len(out) \in Nat /\ DOMAIN out = 1 .. Len(out)
       /\ \A i \in 1 .. Len(out) : out[i] \in H
       /\ \A i, j \in 1 .. Len(out) : Route(out[i]) = Route(out[j]) => i = j
       /\ \A i \in 1 .. Len(out) : Heaviest(out[i], H)
       /\ \A i \in 1 .. Len(out) : out[i].from \in P /\ dist[out[i].from] < B
       /\ \A i, j \in 1 .. Len(out) : i < j => dist[out[i].from] <= dist[out[j].from]
  <2>1. /\ out \in Seq(H)
        /\ \A i, j \in 1 .. Len(out) : Route(out[i]) = Route(out[j]) => i = j
        /\ \A i \in 1 .. Len(out) : Heaviest(out[i], H)
        /\ \A i \in 1 .. Len(out) : out[i].from \in P /\ dist[out[i].from] < B
        /\ \A i, j \in 1 .. Len(out) : i < j => dist[out[i].from] <= dist[out[j].from]
    BY <1>7, Zenon DEF OutOK
  <2>2. Len(out) \in Nat /\ DOMAIN out = 1 .. Len(out) /\ \A i \in 1 .. Len(out) : out[i] \in H
    BY <2>1
  <2> QED
    BY <2>1, <2>2, Zenon
<1>11. \A v \in R : dist[v] \in 0 .. B /\ (dist[v] < B <=> v \in near[B - 1])
  <2>1. \A v \in R : dist[v] \in 0 .. B
    BY <1>3 DEF Metric
  <2> QED
    BY <1>1, <1>3, <2>1
<1>12. \A e \in given, h \in within : Route(h) = Route(e) => h.weight <= e.weight
  BY <1>10 DEF Given, Heaviest
<1>13. given \subseteq within
  BY <1>7, <1>10, <1>11 DEF Given
<1>14. ASSUME Len(out) < M PROVE \A h \in within : \E e \in given : Route(e) = Route(h)
  <2>1. q = <<>> /\ Queued(q) = {}
    <3>1. q = <<>>
      BY <1>1, <1>8, <1>9, <1>14
    <3> QED
      BY <3>1 DEF Queued
  <2>2. visited = P
    BY <1>7, <2>1
  <2>3. ASSUME NEW e \in H, e.from \in P \cap R, dist[e.from] < B PROVE e.to \in P
    <3>1. Route(e) \in Routes(out)
      BY <1>8, <1>14, <2>3
    <3>2. e.to \in Ends(out)
      BY <3>1, RouteEnds
    <3> QED
      BY <1>7, <2>2, <3>2
  <2>4. o.start \in P
    BY <1>7, <2>2
  <2>5. SeenUpTo(B, P, R, dist)
    BY <1>1, <1>3, <2>3, <2>4, LayersSeen
  <2>6. R \subseteq P
    BY <1>11, <2>5 DEF SeenUpTo
  <2>7. \A e \in within : e.from \in P /\ dist[e.from] < B
    BY <1>4, <1>11, <2>6
  <2>8. \A e \in within : Route(e) \in Routes(out)
    BY <1>8, <1>14, <2>7
  <2>9. \A r \in Routes(out) : \E e \in given : Route(e) = r
    BY Zenon DEF Routes, Given
  <2> QED
    BY <2>8, <2>9, Zenon
<1>15. ASSUME NEW i \in 1 .. Len(out), NEW j \in 1 .. Len(out), NEW d \in 0 .. B, i < j, out[j].from \in near[d]
       PROVE  out[i].from \in near[d]
  <2> DEFINE u == out[i].from
             v == out[j].from
  <2>1. u \in R /\ v \in R /\ dist[u] <= dist[v] /\ dist[v] <= d
    BY <1>3, <1>7, <1>10, <1>15
  <2>2. dist[u] \in 0 .. B /\ dist[v] \in 0 .. B
    BY <1>11, <2>1
  <2>3. dist[u] <= d
    BY <1>1, <2>1, <2>2
  <2> HIDE DEF u, v
  <2>4. u \in near[d]
    BY <1>3, <2>1, <2>3
  <2> QED
    BY <2>4 DEF u
<1>16. visited = {o.start} \cup {e.to : e \in given}
  BY <1>7 DEF Ends, Given
<1>17. Len(out) <= M
  BY <1>1, <1>8
<1>18. Len(out) < M => \A h \in within : \E e \in given : Route(e) = Route(h)
  BY <1>14
<1>19. ExactWalk(library, o, out, visited)
  BY <1>10, <1>12, <1>13, <1>15, <1>16, <1>17, <1>18, Zenon DEF ExactWalk, H, near, M, B
<1> QED
  BY <1>19 DEF out, visited, s

\* The same, of the traversal kept.
LEMMA WalkIs ==
  ASSUME walk'.done, ExactWalk(library', walk'.options, walk'.out, walk'.visited)
  PROVE  TraversalExact'
<1> DEFINE o == walk'.options
           out == walk'.out
           near == Near(library', o)[o.deepest - 1]
           within == {library'[i] : i \in {j \in DOMAIN library' :
                        library'[j].from \in near /\ library'[j].weight >= o.minWeight}}
<1>1. DOMAIN out = 1 .. Len(out)
  BY Zenon DEF ExactWalk
<1>2. Given(out) = {out[i] : i \in DOMAIN out}
  BY <1>1 DEF Given
<1>3. {e \in Heavy(library', o) : e.from \in near} = within
  <2> HIDE DEF near
  <2> QED
    BY Zenon DEF Heavy
<1>4. /\ \A i, j \in DOMAIN out : Route(out[i]) = Route(out[j]) => i = j
      /\ Len(out) <= o.most
      /\ Given(out) \subseteq within
      /\ \A e \in Given(out), h \in within : Route(h) = Route(e) => h.weight <= e.weight
      /\ (Len(out) < o.most => \A h \in within : \E e \in Given(out) : Route(e) = Route(h))
      /\ \A i, j \in DOMAIN out, d \in 0 .. o.deepest :
           i < j /\ out[j].from \in Near(library', o)[d] => out[i].from \in Near(library', o)[d]
      /\ walk'.visited = {o.start} \cup {e.to : e \in Given(out)}
  BY <1>1, <1>3, Zenon DEF ExactWalk
<1> QED
  BY <1>2, <1>4, Zenon DEF TraversalExact
-----------------------------------------------------------------------------
\* The inductive invariant: the properties and the types.
GraphInv ==
  /\ GraphTypeOK /\ EdgesHaveEnds
  /\ MemoriesAreLinked /\ UniqueEdges /\ TraversalExact

\* It holds of empty tables and an empty library.
LEMMA GraphInitially == ASSUME GraphInit PROVE GraphInv
<1>1. /\ memories = <<>> /\ history = <<>> /\ now = 0 /\ edges = {} /\ indexed = NoIndex
      /\ library = <<>> /\ walk = NoIndex
  BY DEF GraphInit
<1>2. GraphTypeOK
  BY <1>1, MemoryGraphAssumption DEF GraphTypeOK, MemoryGraphAssumption
<1>3. EdgesHaveEnds
  BY <1>1, FS_EmptySet DEF EdgesHaveEnds
<1>4. ~indexed.done /\ ~walk.done
  BY <1>1 DEF NoIndex
<1>5. MemoriesAreLinked /\ TraversalExact
  BY <1>4, Zenon DEF MemoriesAreLinked, TraversalExact
<1>6. UniqueEdges
  BY <1>1 DEF UniqueEdges
<1> QED
  BY <1>2, <1>3, <1>5, <1>6 DEF GraphInv

\* What TraversalExact says of a traversal w of a graph.
TraversalOf(w, list) ==
  w.done =>
    LET o     == w.options
        out   == w.out
        within == {list[i] : i \in {j \in DOMAIN list :
                     list[j].from \in Near(list, o)[o.deepest - 1] /\ list[j].weight >= o.minWeight}}
        given == {out[i] : i \in DOMAIN out}
    IN  /\ \A i, j \in DOMAIN out : Route(out[i]) = Route(out[j]) => i = j
        /\ Len(out) <= o.most
        /\ given \subseteq within
        /\ \A e \in given, h \in within : Route(h) = Route(e) => h.weight <= e.weight
        /\ Len(out) < o.most => \A h \in within : \E e \in given : Route(e) = Route(h)
        /\ \A i, j \in DOMAIN out, d \in 0 .. o.deepest :
             i < j /\ out[j].from \in Near(list, o)[d] => out[i].from \in Near(list, o)[d]
        /\ w.visited = {o.start} \cup {e.to : e \in given}

\* Steps of the indexer leave the library's graph alone.
LEMMA LibraryLeft ==
  ASSUME TraversalExact, UniqueEdges, library' = library, walk' = walk
  PROVE  TraversalExact' /\ UniqueEdges'
<1>1. TraversalExact'
  <2>1. TraversalOf(walk, library)
    BY Zenon DEF TraversalExact, TraversalOf
  <2>2. TraversalOf(walk', library')
    BY <2>1, Zenon
  <2> QED
    BY <2>2, Zenon DEF TraversalExact, TraversalOf
<1>2. UniqueEdges'
  BY Zenon DEF UniqueEdges
<1> QED
  BY <1>1, <1>2

\* Steps of the library leave the tables alone.
LEMMA TablesLeft ==
  ASSUME EdgesHaveEnds, MemoriesAreLinked,
         nodes' = nodes, edges' = edges, indexed' = indexed
  PROVE  EdgesHaveEnds' /\ MemoriesAreLinked'
<1>1. EdgesHaveEnds'
  BY Zenon DEF EdgesHaveEnds
<1>2. MemoriesAreLinked'
  <2>1. LinkedBy(indexed, edges)
    BY Zenon DEF MemoriesAreLinked, LinkedBy, LinkedRow, SoonerLinked
  <2>2. LinkedBy(indexed', edges')
    BY <2>1, Zenon
  <2> QED
    BY <2>2, Zenon DEF MemoriesAreLinked, LinkedBy, LinkedRow, SoonerLinked
<1> QED
  BY <1>1, <1>2

\* Every step keeps the invariant.
LEMMA GraphKept ==
  ASSUME MemoryGraphAssumption, GraphInv, [GraphNext]_graphVars
  PROVE  GraphInv'
<1>1. GraphTypeOK'
  BY GraphTypesKept, Zenon DEF GraphInv
<1>2. /\ GraphTypeOK /\ EdgesHaveEnds
      /\ MemoriesAreLinked /\ UniqueEdges /\ TraversalExact
      /\ library \in Seq(LibraryEdge)
  BY Zenon DEF GraphInv, GraphTypeOK
<1> DEFINE Rest == /\ EdgesHaveEnds' /\ MemoriesAreLinked'
                   /\ UniqueEdges' /\ TraversalExact'
<1>3. ASSUME library' = library, walk' = walk, nodes' = nodes, edges' = edges, indexed' = NoIndex PROVE Rest
  <2>1. ~indexed'.done
    BY <1>3 DEF NoIndex
  <2>2. MemoriesAreLinked'
    BY <2>1, Zenon DEF MemoriesAreLinked
  <2>3. EdgesHaveEnds'
    BY <1>2, <1>3, Zenon DEF EdgesHaveEnds
  <2> QED
    BY <1>2, <1>3, <2>2, <2>3, LibraryLeft
<1>4. ASSUME nodes' = nodes, edges' = edges, indexed' = indexed, walk' = NoIndex, UniqueEdges' PROVE Rest
  <2>1. ~walk'.done
    BY <1>4 DEF NoIndex
  <2>2. TraversalExact'
    BY <2>1, Zenon DEF TraversalExact
  <2> QED
    BY <1>2, <1>4, <2>2, TablesLeft
<1>5. ASSUME NEW id \in KeptId, NEW content \in Contents, Remember(id, content) PROVE Rest
  BY <1>3, <1>5, Zenon DEF Remember
<1>6. ASSUME NEW id \in KeptId, Forget(id) PROVE Rest
  BY <1>3, <1>6, Zenon DEF Forget
<1>7. ASSUME NextGraphDay PROVE Rest
  <2>1. /\ library' = library /\ walk' = walk /\ nodes' = nodes /\ edges' = edges /\ indexed' = NoIndex
    BY <1>7 DEF NextGraphDay
  <2> QED
    BY <1>3, <2>1
<1>8. ASSUME NEW since, IndexMemoryGraph(since) PROVE Rest
  <2>1. library' = library /\ walk' = walk
    BY <1>8, Zenon DEF IndexMemoryGraph
  <2>2. EdgesHaveEnds' /\ MemoriesAreLinked'
    BY <1>2, <1>8, IndexedGraph
  <2> QED
    BY <1>2, <2>1, <2>2, LibraryLeft
<1>9. ASSUME NEW e \in LibraryEdge, AddEdge(e) PROVE Rest
  <2>1. UniqueEdges'
    BY <1>2, <1>9, EdgeAdded
  <2> QED
    BY <1>4, <1>9, <2>1, Zenon DEF AddEdge
<1>10. ASSUME NEW v \in Vertex, RemoveNode(v) PROVE Rest
  <2>1. UniqueEdges'
    BY <1>2, <1>10, EdgesRemoved
  <2> QED
    BY <1>4, <1>10, <2>1, Zenon DEF RemoveNode
<1>14. ASSUME NEW i \in DOMAIN library, RemoveEdge(i) PROVE Rest
  <2>1. UniqueEdges'
    BY <1>2, <1>14, EdgeTaken
  <2> QED
    BY <1>4, <1>14, <2>1, Zenon DEF RemoveEdge
<1>11. ASSUME NEW o \in WalkOptions, ReachableFrom(o) PROVE Rest
  <2> DEFINE t == TraverseGraph(o)
  <2>1. ExactWalk(library, o, t.out, t.visited)
    BY <1>2, <1>11, TraversalIs
  <2>2. /\ walk' = [done |-> TRUE, options |-> o, out |-> t.out, visited |-> t.visited]
        /\ library' = library /\ nodes' = nodes /\ edges' = edges /\ indexed' = indexed
    BY <1>11, Zenon DEF ReachableFrom
  <2> HIDE DEF t
  <2>3. walk'.done /\ walk'.options = o /\ walk'.out = t.out /\ walk'.visited = t.visited
    BY <2>2
  <2>4. ExactWalk(library', walk'.options, walk'.out, walk'.visited)
    BY <2>1, <2>2, <2>3, Zenon
  <2>5. TraversalExact'
    BY <2>3, <2>4, WalkIs
  <2>6. UniqueEdges'
    BY <1>2, <2>2, Zenon DEF UniqueEdges
  <2> QED
    BY <1>2, <2>2, <2>5, <2>6, TablesLeft
<1>12. ASSUME UNCHANGED graphVars PROVE Rest
  <2>1. /\ library' = library /\ walk' = walk /\ nodes' = nodes /\ edges' = edges /\ indexed' = indexed
    BY <1>12, Zenon DEF graphVars
  <2>2. TraversalExact' /\ UniqueEdges'
    BY <1>2, <2>1, LibraryLeft
  <2>3. EdgesHaveEnds' /\ MemoriesAreLinked'
    BY <1>2, <2>1, TablesLeft
  <2> QED
    BY <2>2, <2>3
<1>13. Rest
  <2> HIDE DEF Rest
  <2> QED
    <3>1. CASE IndexerNext
      BY <1>5, <1>6, <1>7, <1>8, <3>1, Zenon DEF IndexerNext
    <3>2. CASE LibraryNext
      BY <1>9, <1>10, <1>11, <1>14, <3>2, Zenon DEF LibraryNext
    <3> QED
      BY <1>12, <3>1, <3>2, Zenon DEF GraphNext
<1> QED
  BY <1>1, <1>13, Zenon DEF GraphInv

\* Whatever memories come and go and however little a run of the indexer scans, the
\* tables are a graph and every memory of the last run is linked to its day, its
\* session and its code up to the limit; and of whatever edges the library's graph is
\* made, of however many projects, each is there once and a traversal gives of each
\* route within its depth the heaviest edge, the nearer first.
THEOREM GraphStaysSound == GraphSpec => []GraphSound
<1>1. GraphInit => GraphInv
  BY GraphInitially
<1>2. GraphInv /\ [GraphNext]_graphVars => GraphInv'
  BY MemoryGraphAssumption, GraphKept
<1>3. GraphInv => GraphSound
  BY DEF GraphInv, GraphSound
<1> QED
  BY <1>1, <1>2, <1>3, PTL DEF GraphSpec

\* The rows of the tables and the library's edges are of their types, and no row is
\* of a day to come.
THEOREM GraphTyped == GraphSpec => []GraphTypeOK
<1>1. GraphInit => GraphInv
  BY GraphInitially
<1>2. GraphInv /\ [GraphNext]_graphVars => GraphInv'
  BY MemoryGraphAssumption, GraphKept
<1>3. GraphInv => GraphTypeOK
  BY DEF GraphInv
<1> QED
  BY <1>1, <1>2, <1>3, PTL DEF GraphSpec
=============================================================================
