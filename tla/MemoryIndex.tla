---------------------------- MODULE MemoryIndex ----------------------------
(***************************************************************************)
(* The vector index beside the memory tables: what upsertMemory and the    *)
(* deletions do to it after the tables, how searchMemories merges its hits *)
(* with what the tables held, and the cooldown after a failure             *)
(* (src/core/mempalace/memory.service.ts, src/core/embeddings, the clients *)
(* of Qdrant and Chroma).                                                  *)
(*                                                                         *)
(* A memory is its text, of which only matters whether a query is in it;   *)
(* scores are left open, so that any hits may be the best ones and any may *)
(* be below the least score that is asked for.                             *)
(***************************************************************************)
EXTENDS Integers, FiniteSets

CONSTANTS MainId,       \* ids in memories
          BranchId,     \* ids in memory_branch_memories
          ProjectOf,    \* id -> project
          AllProjects,  \* no project filter
          Match, Other, \* a text with the query in it, one without
          Absent,
          Task,         \* operations that may overlap
          TopK,
          MaxCalls      \* bound on the operations

ASSUME MemoryIndexAssumption ==
  /\ MainId \cap BranchId = {} /\ IsFiniteSet(MainId \cup BranchId)
  /\ DOMAIN ProjectOf = MainId \cup BranchId /\ Absent \notin {Match, Other}
  /\ TopK \in Nat \ {0} /\ MaxCalls \in Nat

VARIABLES provider,     \* CORTEXA_VECTOR_PROVIDER
          rows,         \* the two tables: id -> text or Absent
          vectors,      \* the index: id -> the text embedded, or Absent
          ready,        \* vectorReady
          collections,  \* initializedCollections holds the collection
          cooldown,     \* Date.now() < vectorRetryAfterMs
          task,         \* Task -> what it awaits
          calls,        \* operations begun so far
          shaken        \* history: ids whose vector may not follow the row

indexVars == <<provider, rows, vectors, ready, collections, cooldown, task, calls, shaken>>

Id == MainId \cup BranchId
Text == {Match, Other}

NoTask == [at |-> "idle"]

-----------------------------------------------------------------------------
\* An earlier process may have left vectors that do not follow their rows.
IndexInit ==
  /\ provider \in {"qdrant", "chroma", "memory"}
  /\ rows \in [Id -> Text \cup {Absent}] /\ vectors \in [Id -> Text \cup {Absent}]
  /\ ready = FALSE /\ collections = FALSE /\ cooldown = FALSE
  /\ task = [t \in Task |-> NoTask] /\ calls = 0 /\ shaken = {id \in Id : vectors[id] # rows[id]}

Now(table) == {<<id, table[id]>> : id \in {i \in Id : table[i] # Absent}}

\* The searches under way have seen what the tables now hold.
Noted(tasks, table) ==
  [t \in Task |-> IF "seen" \in DOMAIN tasks[t] /\ tasks[t].at # "found"
                  THEN [tasks[t] EXCEPT !.seen = @ \cup Now(table)] ELSE tasks[t]]

\* Ids that an operation under way is about to write in the index.
Pending(tasks) == UNION {tasks[t].ids : t \in {u \in Task : tasks[u].at \in {"put", "remove"}}}

Called == calls < MaxCalls /\ calls' = calls + 1

\* A call of the index begins: the collection is ensured before it, by a request
\* only where it has not been before.
Begin(t, call) ==
  LET known == ready \/ collections \/ provider = "memory" IN
  /\ task' = Noted([task EXCEPT ![t] = [call EXCEPT !.ensured = known]], rows')
  /\ ready' = (ready \/ known)
  /\ collections' = (collections \/ known)

\* upsertMemory after the embedding: the row, then its vector unless the index is
\* left alone.
Upsert(t, id, text) ==
  /\ task[t] = NoTask /\ Called
  /\ rows' = [rows EXCEPT ![id] = text]
  /\ IF cooldown
     THEN /\ task' = Noted(task, rows') /\ shaken' = shaken \cup {id}
          /\ UNCHANGED <<ready, collections>>
     ELSE /\ Begin(t, [at |-> "put", ids |-> {id}, text |-> text, ensured |-> FALSE])
          /\ shaken' = (shaken \ {id}) \cup ({id} \cap Pending(task))
  /\ UNCHANGED <<provider, vectors, cooldown>>

\* deleteMemoriesByIds: the rows at once, then their vectors, cooldown or not and
\* whether or not there were rows.
DeleteMany(t, ids) ==
  /\ task[t] = NoTask /\ Called
  /\ rows' = [id \in Id |-> IF id \in ids THEN Absent ELSE rows[id]]
  /\ task' = Noted([task EXCEPT ![t] = [at |-> "remove", ids |-> ids, ensured |-> TRUE]], rows')
  /\ shaken' = (shaken \ ids) \cup (ids \cap Pending(task))
  /\ UNCHANGED <<provider, vectors, ready, collections, cooldown>>

\* deleteMemory in a project and branch: the vector only where there was a row.
DeleteOne(t, id) == rows[id] # Absent /\ DeleteMany(t, {id})

\* What the tables give a search of main, ranked and cut by the caller.
Lexical(filter) ==
  {<<id, Match>> : id \in {i \in MainId : rows[i] = Match /\ (filter = AllProjects \/ ProjectOf[i] = filter)}}

Best(set, n) == {s \in SUBSET set : Cardinality(s) = IF Cardinality(set) < n THEN Cardinality(set) ELSE n}

\* searchMemories on main, floor when it asks for a least score: the tables first,
\* then the embedding is awaited.
Search(t, filter, floor) ==
  /\ task[t] = NoTask /\ Called
  /\ \E lexical \in Best(Lexical(filter), 3 * TopK) :
       task' = [task EXCEPT ![t] = [at |-> "embed", filter |-> filter, floor |-> floor, lexical |-> lexical,
                                    ids |-> {}, ensured |-> FALSE, seen |-> Now(rows)]]
  /\ UNCHANGED <<provider, rows, vectors, ready, collections, cooldown, shaken>>

\* What a search returns: the best of the merged that reach the least score.
Results(t, merged) ==
  \E high \in IF task[t].floor THEN SUBSET merged ELSE {merged} :
    \E best \in Best(high, TopK) :
      task' = [task EXCEPT ![t] = [at |-> "found", filter |-> @.filter, floor |-> @.floor, found |-> best,
                                   seen |-> @.seen, lexical |-> @.lexical]]

Embedded(t) ==
  /\ task[t].at = "embed"
  /\ IF cooldown
     THEN Results(t, task[t].lexical) /\ UNCHANGED <<ready, collections, rows>>
     ELSE UNCHANGED rows /\ Begin(t, [task[t] EXCEPT !.at = "query"])
  /\ UNCHANGED <<provider, vectors, cooldown, shaken, calls>>

\* ensureVectorCollection has had its answer.
Ensured(t) ==
  /\ task[t].at \in {"put", "query"} /\ ~task[t].ensured
  /\ task' = [task EXCEPT ![t].ensured = TRUE]
  /\ ready' = TRUE /\ collections' = TRUE
  /\ UNCHANGED <<provider, rows, vectors, cooldown, shaken, calls>>

\* What the backend does with a call that writes; Chroma is never asked to delete.
Effect(k) ==
  [id \in Id |-> IF id \notin k.ids \/ (k.at = "remove" /\ provider = "chroma") THEN vectors[id]
                 ELSE IF k.at = "put" THEN k.text ELSE Absent]

\* A put or a remove succeeds; only the put ends the cooldown.
Wrote(t) ==
  /\ task[t].at \in {"put", "remove"} /\ task[t].ensured
  /\ vectors' = Effect(task[t])
  /\ cooldown' = (cooldown /\ task[t].at = "remove")
  /\ task' = [task EXCEPT ![t] = NoTask]
  /\ UNCHANGED <<provider, rows, ready, collections, shaken, calls>>

\* Hits of branches are merged with those of main.
MergedMutant(k, hits) ==
  k.lexical \cup {<<id, rows[id]>> : id \in {i \in hits : rows[i] # Absent /\ <<i, Match>> \notin k.lexical
                                             /\ (k.filter = AllProjects \/ ProjectOf[i] = k.filter)}}

\* The hits of main whose row is there now, or was when the search began.
Merged(k, hits) ==
  LET old  == {id \in hits : <<id, Match>> \in k.lexical}
      new  == {id \in hits \ old : id \in MainId /\ rows[id] # Absent
                                   /\ (k.filter = AllProjects \/ ProjectOf[id] = k.filter)}
  IN  k.lexical \cup {<<id, rows[id]>> : id \in new}

Queried(t) ==
  /\ task[t].at = "query" /\ task[t].ensured
  /\ \E hits \in Best({id \in Id : vectors[id] # Absent}, 3 * TopK) : Results(t, Merged(task[t], hits))
  /\ cooldown' = FALSE
  /\ UNCHANGED <<provider, rows, vectors, ready, collections, shaken, calls>>

\* A request fails, before or after it took effect: the index is left alone for a
\* while, and a search goes on with what it has.
CallFails(t, applied) ==
  /\ task[t].at \in {"put", "remove", "query"} /\ provider # "memory"
  /\ ~(task[t].at = "remove" /\ provider = "chroma")
  /\ applied => task[t].ensured /\ task[t].at # "query"
  /\ vectors' = IF applied THEN Effect(task[t]) ELSE vectors
  /\ ready' = FALSE /\ cooldown' = TRUE
  /\ IF task[t].at = "query"
     THEN Results(t, task[t].lexical) /\ UNCHANGED shaken
     ELSE task' = [task EXCEPT ![t] = NoTask] /\ shaken' = shaken \cup task[t].ids
  /\ UNCHANGED <<provider, rows, collections, calls>>

Returned(t) ==
  /\ task[t].at = "found"
  /\ task' = [task EXCEPT ![t] = NoTask]
  /\ UNCHANGED <<provider, rows, vectors, ready, collections, cooldown, shaken, calls>>

\* VECTOR_RETRY_COOLDOWN_MS have passed.
Cooled == cooldown /\ cooldown' = FALSE
          /\ UNCHANGED <<provider, rows, vectors, ready, collections, task, shaken, calls>>

IndexNext ==
  \/ \E t \in Task :
       \/ \E id \in Id, text \in Text : Upsert(t, id, text)
       \/ \E ids \in SUBSET Id \ {{}} : DeleteMany(t, ids)
       \/ \E id \in Id : DeleteOne(t, id)
       \/ \E f \in {AllProjects} \cup {ProjectOf[id] : id \in Id}, floor \in BOOLEAN : Search(t, f, floor)
       \/ Embedded(t) \/ Ensured(t) \/ Wrote(t) \/ Queried(t) \/ Returned(t)
       \/ \E applied \in BOOLEAN : CallFails(t, applied)
  \/ Cooled

IndexSpec == IndexInit /\ [][IndexNext]_indexVars

-----------------------------------------------------------------------------
(***************************************************************************)
(* Properties.                                                             *)
(***************************************************************************)
IndexTypeOK ==
  /\ rows \in [Id -> Text \cup {Absent}] /\ vectors \in [Id -> Text \cup {Absent}]
  /\ shaken \subseteq Id /\ (ready => collections)
  /\ \A t \in Task : task[t].at \in {"idle", "put", "remove", "embed", "query", "found"}

\* A vector follows its row unless the last write of it was skipped in the
\* cooldown, failed, or raced another one; under Chroma it outlives its row (upsertMemory,
\* deleteMemoriesByIds, deleteVectorItems).
IndexFollowsTables ==
  \A id \in Id \ (shaken \cup Pending(task)) :
    vectors[id] = rows[id] \/ (provider = "chroma" /\ rows[id] = Absent)

\* A search returns nothing that was deleted or overwritten before it began, no
\* text no row ever had, nothing of a branch or another project, and, when it was
\* not full and asked for no least score, everything the tables matched, whatever the index does
\* (searchMemories).
SearchesSound ==
  \A t \in Task : task[t].at = "found" =>
    /\ task[t].found \subseteq task[t].seen
    /\ \A m \in task[t].found :
         m[1] \in MainId /\ (task[t].filter = AllProjects \/ ProjectOf[m[1]] = task[t].filter)
    /\ ~task[t].floor /\ Cardinality(task[t].found) < TopK => task[t].lexical \subseteq task[t].found

\* The vector index follows the tables as far as nothing failed or raced, and a
\* search gives only what the tables held while it ran (memory.service.ts).
IndexSound == IndexFollowsTables /\ SearchesSound
=============================================================================
