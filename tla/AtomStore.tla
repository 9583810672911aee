----------------------------- MODULE AtomStore -----------------------------
(***************************************************************************)
(* The memory store in memory (src/packages/core/src/memory/store.ts), the *)
(* store of the library: atoms by id, an index of projects and one of      *)
(* words, archived atoms, and the consolidation that merges atoms alike    *)
(* and archives what was merged.                                           *)
(*                                                                         *)
(* A text is the set of its words; size orders texts by length.  Scores    *)
(* are left open: any atoms may be the best, in any order.                 *)
(***************************************************************************)
EXTENDS Integers, FiniteSets, Sequences, SequencesExt

CONSTANTS AtomId, AtomProject, Word,
          Atoms,        \* the atoms a caller may hand in
          SearchSize    \* topK

\* An atom: MemoryAtom, as far as the store reads it.
Atom == [project : AtomProject, kind : {a.kind : a \in Atoms}, title : Word, summary : SUBSET Word,
         size : Nat, tags : SUBSET Word]

ASSUME AtomStoreAssumption == SearchSize \in Nat \ {0} /\ Atoms \subseteq Atom

VARIABLES store,        \* byId, archived, projectIndex and tokenIndex
          lookup        \* history: the last call that reads, and the store it saw

Ids(s) == DOMAIN s.byId

EmptyStore == [byId |-> <<>>, archived |-> {}, projects |-> [p \in AtomProject |-> {}], tokens |-> [w \in Word |-> {}]]

NoLookup == [call |-> "none"]

-----------------------------------------------------------------------------
\* What the index of words holds of an atom.
Indexable(a) == {a.title} \cup a.summary \cup a.tags

AddToIndexes(s, id, a) ==
  [s EXCEPT !.projects[a.project] = @ \cup {id},
            !.tokens = [w \in Word |-> IF w \in Indexable(a) THEN @[w] \cup {id} ELSE @[w]]]

RemoveFromIndexes(s, id, a) ==
  [s EXCEPT !.projects[a.project] = @ \ {id},
            !.tokens = [w \in Word |-> IF w \in Indexable(a) THEN @[w] \ {id} ELSE @[w]]]

\* The words of the atom that is replaced stay in the index.
UpsertSyncMutant(s, id, a) ==
  AddToIndexes([s EXCEPT !.byId = [i \in Ids(s) \cup {id} |-> IF i = id THEN a ELSE s.byId[i]]], id, a)

\* An archived atom stays archived.
UpsertSync(s, id, a) ==
  LET cleared == IF id \in Ids(s) THEN RemoveFromIndexes(s, id, s.byId[id]) ELSE s
  IN  AddToIndexes([cleared EXCEPT !.byId = [i \in Ids(s) \cup {id} |-> IF i = id THEN a ELSE s.byId[i]]], id, a)

DeleteSync(s, id) ==
  IF id \notin Ids(s) THEN s
  ELSE [RemoveFromIndexes(s, id, s.byId[id]) EXCEPT
          !.byId = [i \in Ids(s) \ {id} |-> s.byId[i]], !.archived = @ \ {id}]

ArchiveSync(s, id) == IF id \in Ids(s) THEN [s EXCEPT !.archived = @ \cup {id}] ELSE s

\* idsByProject: all of them without a project, the set {}.
IdsByProject(s, project) == IF project = {} THEN Ids(s) ELSE UNION {s.projects[p] : p \in project}

\* What a search ranks: the candidates a word of the query leads to, archived ones
\* included, or all when there is none; then without the archived.
Candidates(s, words, project, includeArchived) ==
  LET ids     == IdsByProject(s, project)
      matched == ids \cap UNION {s.tokens[w] : w \in words}
  IN  {id \in (IF matched = {} THEN ids ELSE matched) \cap Ids(s) : includeArchived \/ id \notin s.archived}

\* The subsets a ranking with an open score may put first.
TopOf(set, n) == {top \in SUBSET set : Cardinality(top) = IF Cardinality(set) < n THEN Cardinality(set) ELSE n}

-----------------------------------------------------------------------------
(***************************************************************************)
(* Consolidation (consolidate.ts).                                         *)
(***************************************************************************)

\* Jaccard similarity of at least 0.72.
Similar(u, v) == u # {} /\ v # {} /\ 100 * Cardinality(u \cap v) >= 72 * Cardinality(u \cup v)

Shingles(a) == {a.title} \cup a.summary

Alike(a, b) ==
  /\ a.project = b.project /\ a.kind = b.kind
  /\ a.title = b.title \/ Similar(Shingles(a), Shingles(b))

\* The longer summary brings its title along; tags are united.
MergeAtoms(base, incoming) ==
  LET longer == IF incoming.size > base.size THEN incoming ELSE base
  IN  [base EXCEPT !.title = longer.title, !.summary = longer.summary, !.size = longer.size,
                   !.tags = base.tags \cup incoming.tags]

\* Entries are <<id, atom>>; the first alike takes the incoming one in.
Absorb(out, entry) ==
  LET alike == {i \in DOMAIN out : Alike(out[i][2], entry[2])}
      first == CHOOSE i \in alike : \A j \in alike : i <= j
  IN  IF alike = {} THEN Append(out, entry)
      ELSE [out EXCEPT ![first] = <<out[first][1], MergeAtoms(out[first][2], entry[2])>>]

ConsolidateMemories(entries) ==
  LET out[n \in 0 .. Len(entries)] == IF n = 0 THEN <<>> ELSE Absorb(out[n - 1], entries[n])
  IN  out[Len(entries)]

\* Each of the entries is upserted in turn: upsertManySync, and the end of consolidate.
UpsertMany(s, entries) ==
  LET after[n \in 0 .. Len(entries)] ==
        IF n = 0 THEN s ELSE UpsertSync(after[n - 1], entries[n][1], entries[n][2])
  IN  after[Len(entries)]

\* MemoryStore.consolidate, for one order of the atoms.
Consolidated(s, base) ==
  LET out    == ConsolidateMemories([i \in DOMAIN base |-> <<base[i], s.byId[base[i]]>>])
      stable == {out[i][1] : i \in DOMAIN out}
      merged == {base[i] : i \in DOMAIN base} \ stable
  IN  UpsertMany([s EXCEPT !.archived = @ \cup merged], out)

-----------------------------------------------------------------------------
AtomInit == store = EmptyStore /\ lookup = NoLookup

UpsertAtom(id, a) == store' = UpsertSync(store, id, a) /\ lookup' = NoLookup

DeleteAtom(id) == id \in Ids(store) /\ store' = DeleteSync(store, id) /\ lookup' = NoLookup

ArchiveAtom(id) == id \in Ids(store) /\ store' = ArchiveSync(store, id) /\ lookup' = NoLookup

RestoreAtom(id) == store' = [store EXCEPT !.archived = @ \ {id}] /\ lookup' = NoLookup

\* search and searchSimilar; the access times it sets are left out.
SearchAtoms(words, project, includeArchived) ==
  /\ \E top \in TopOf(Candidates(store, words, project, includeArchived), SearchSize) :
       lookup' = [call |-> "search", words |-> words, project |-> project, archived |-> includeArchived,
                  saw |-> store, found |-> top]
  /\ UNCHANGED store

ConsolidateAtoms(project) ==
  \E order \in SetToSeqs(IdsByProject(store, project) \ store.archived) :
    /\ store' = Consolidated(store, order)
    /\ lookup' = [call |-> "consolidate", project |-> project, saw |-> store]

AtomNext ==
  \/ \E id \in AtomId :
       \/ \E a \in Atoms : UpsertAtom(id, a)
       \/ DeleteAtom(id) \/ ArchiveAtom(id) \/ RestoreAtom(id)
  \/ \E words \in SUBSET Word, project \in {{}} \cup {{p} : p \in AtomProject}, includeArchived \in BOOLEAN :
       words # {} /\ SearchAtoms(words, project, includeArchived)
  \/ \E project \in {{}} \cup {{p} : p \in AtomProject} : ConsolidateAtoms(project)

AtomSpec == AtomInit /\ [][AtomNext]_<<store, lookup>>

-----------------------------------------------------------------------------
(***************************************************************************)
(* Properties.                                                             *)
(***************************************************************************)

\* The two indexes hold what the atoms say, whatever was replaced, merged or
\* deleted, and what is archived exists (addToIndexes, removeFromIndexes).
IndexExact ==
  /\ \A p \in AtomProject : store.projects[p] = {id \in Ids(store) : store.byId[id].project = p}
  /\ \A w \in Word : store.tokens[w] = {id \in Ids(store) : w \in Indexable(store.byId[id])}
  /\ store.archived \subseteq Ids(store)

\* A search finds no archived atom unasked and none of another project, and finds
\* nothing only where every atom its words lead to, or every atom there is, is
\* archived (search).
LookupSound ==
  lookup.call = "search" =>
    LET saw    == lookup.saw
        inside == {id \in Ids(saw) : lookup.project = {} \/ saw.byId[id].project \in lookup.project}
        named  == {id \in inside : Indexable(saw.byId[id]) \cap lookup.words # {}}
    IN  /\ lookup.found \subseteq inside
        /\ ~lookup.archived => lookup.found \cap saw.archived = {}
        /\ lookup.found = {} =>
             (IF named = {} THEN inside ELSE named) \subseteq (IF lookup.archived THEN {} ELSE saw.archived)

\* Consolidation loses no tag and no kind of atom, and touches no other project:
\* what it archives is covered by an atom still in use (consolidate,
\* consolidateMemories).
ConsolidationCovers ==
  lookup.call = "consolidate" =>
    LET saw == lookup.saw IN
    /\ Ids(store) = Ids(saw) /\ saw.archived \subseteq store.archived
    /\ \A id \in Ids(saw) \ saw.archived :
         \E kept \in Ids(store) \ store.archived :
           /\ store.byId[kept].project = saw.byId[id].project /\ store.byId[kept].kind = saw.byId[id].kind
           /\ saw.byId[id].tags \subseteq store.byId[kept].tags
    /\ \A id \in Ids(saw) :
         (lookup.project # {} /\ saw.byId[id].project \notin lookup.project) =>
           store.byId[id] = saw.byId[id] /\ (id \in store.archived <=> id \in saw.archived)
=============================================================================
