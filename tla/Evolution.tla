----------------------------- MODULE Evolution -----------------------------
(***************************************************************************)
(* The evolution of a text into an atom: the writer's candidates, the      *)
(* critic's reviews, the choice, the merge with neighbours, the archivist  *)
(* and the write (src/packages/core/src/memory/evolution), as the route    *)
(* /cxlink/evolve and the agents' loop start it.  The store is AtomStore's *)
(* or the daemon's behind the same interface, which writes nothing in a    *)
(* dry run; every call of the model or the store is an await, between      *)
(* which the store changes.                                                *)
(*                                                                         *)
(* Scores are percentages.  What the model answers is arbitrary, within    *)
(* what the agents make of it.                                             *)
(***************************************************************************)
EXTENDS AtomStore

CONSTANTS Evolver,      \* evolutions that may overlap
          Percents,     \* scores a review may give
          Agents,       \* AGENT_CATALOG: agent -> whether it may write
          NoAgent,      \* the route, no agent
          MaxCandidates,
          DraftId,      \* the ids and the atoms that are written here
          Drafts

VARIABLES requireReal,  \* CORTEXA_LLM_REQUIRE_REAL
          evo,          \* Evolver -> its evolution
          writes        \* history: Evolver -> the atoms its evolution wrote

evolutionVars == <<store, lookup, requireReal, evo, writes>>

ASSUME EvolutionAssumption == Drafts \subseteq Atoms /\ DraftId \subseteq AtomId /\ Percents \subseteq 0 .. 100 /\ MaxCandidates \in 1 .. 5

-----------------------------------------------------------------------------
(***************************************************************************)
(* The agents.                                                             *)
(***************************************************************************)
Actions == {"store", "merge", "reject", "compress"}

\* computeFallbackReview, and the critic of the mini LLM.
FallbackReview(score) ==
  LET action == IF score >= 80 THEN "merge"
                ELSE IF score >= 60 THEN "store"
                ELSE IF score >= 42 THEN "compress"
                ELSE "reject"
  IN  [accepted |-> action # "reject", action |-> action, score |-> score]

\* Clarity, which the confidence comes from, is left open until it is used.
\* normalizeReview: any of the four actions, and accepted as the model says.
Reviews == [accepted : BOOLEAN, action : Actions, score : Percents]

\* What CriticAgent.review may return: what the model said, or the fallback where
\* it failed and need not be real.
MayReview == Reviews \cup {FallbackReview(s) : s \in Percents}

Weight(action) == CASE action = "merge" -> 4 [] action = "store" -> 3 [] action = "compress" -> 2 [] OTHER -> 1

\* The order of selectBestCandidateReview; novelty, which decides last, is open.
Before(r, q) ==
  IF r.accepted # q.accepted THEN r.accepted
  ELSE IF r.action # q.action THEN Weight(r.action) > Weight(q.action)
  ELSE r.score > q.score

BestReviews(reviews) == {i \in DOMAIN reviews : \A j \in DOMAIN reviews : ~Before(reviews[j], reviews[i])}

Wanted(review) == review.accepted /\ review.action # "reject"

\* ArchivistAgent.evaluateProgression, days after the atom was created.
Archivist(importance, confidence, days, kind, protected) ==
  LET decay    == IF 2 * days > 650 THEN 350 ELSE 1000 - 2 * days
      fade     == IF 8 * days > 2500 THEN 7500 ELSE 10000 - 8 * days
      boost    == (CASE kind = "code_entity" -> 300 [] kind = "procedural" -> 200 [] OTHER -> 0)
                  + (IF confidence >= 85 THEN 200 ELSE 0) + (IF protected THEN 800 ELSE 0)
      rated    == (importance * decay + 5) \div 10 + boost
      after    == IF rated > 10000 THEN 10000 ELSE rated
      trust    == (confidence * fade + 50) \div 100
  IN  [importance |-> after, confidence |-> trust,
       promote |-> after >= 8200 /\ trust >= 8200,
       archive |-> after < 2200 /\ trust < 4500 /\ ~protected]

-----------------------------------------------------------------------------
(***************************************************************************)
(* The engine.                                                             *)
(***************************************************************************)
NoEvolution == [at |-> "idle"]

EvolutionInit ==
  /\ AtomInit /\ requireReal \in BOOLEAN
  /\ evo = [t \in Evolver |-> NoEvolution] /\ writes = [t \in Evolver |-> {}]

\* dryRun as the two entrances read it: unset means no for the route, yes for an
\* agent.
DryRun(agent, flag) == IF agent = NoAgent THEN flag = "true" ELSE flag # "false"

\* evolveMemoryWithProgression, from /evolve (agent NoAgent) or as the last stage of
\* multi_agent_loop; the other agents only read.
BeginEvolution(t, agent, flag) ==
  /\ evo[t].at = "idle"
  /\ LET call == [agent |-> agent, flag |-> flag] IN
     evo' = [evo EXCEPT ![t] =
       IF agent = NoAgent \/ Agents[agent]
       THEN [at |-> "propose", call |-> call, dry |-> DryRun(agent, flag)]
       ELSE [at |-> "done", call |-> call, dry |-> TRUE, outcome |-> "read", reviews |-> <<>>]]
  /\ writes' = [writes EXCEPT ![t] = {}]
  /\ UNCHANGED <<store, lookup, requireReal>>

\* An evolution at a later stage, with what it keeps.
Stage(k, at, kept) ==
  [x \in {"at", "call", "dry"} \cup DOMAIN kept |->
     CASE x = "at" -> at [] x \in {"call", "dry"} -> k[x] [] OTHER -> kept[x]]

Ended(k, outcome) ==
  Stage(k, "done", [outcome |-> outcome, reviews |-> IF outcome = "reject" THEN k.reviews ELSE <<>>])

Step(t, next) == evo' = [evo EXCEPT ![t] = next] /\ UNCHANGED <<store, lookup, requireReal, writes>>

\* The model fails where it must be real, or what the consolidator got from it is
\* no atom: the evolution ends with an error.
ModelFails(t) ==
  /\ \/ requireReal /\ evo[t].at \in {"propose", "review", "merge"}
     \/ evo[t].at = "merge"
  /\ Step(t, Ended(evo[t], "error"))

\* WriterAgent.propose: at least one candidate, the fallback's if need be.
Propose(t) ==
  /\ evo[t].at = "propose"
  /\ \E n \in 1 .. MaxCandidates :
       Step(t, Stage(evo[t], "review", [left |-> n, reviews |-> <<>>]))

\* One turn of reviewCandidates.
Review(t) ==
  /\ evo[t].at = "review" /\ evo[t].left > 0
  /\ \E review \in MayReview :
       Step(t, [evo[t] EXCEPT !.left = @ - 1, !.reviews = Append(@, review)])

\* selectBestCandidateReview, and the search for neighbours it leads to.
Select(t) ==
  /\ evo[t].at = "review" /\ evo[t].left = 0
  /\ \E i \in BestReviews(evo[t].reviews) :
       Step(t, IF Wanted(evo[t].reviews[i])
               THEN Stage(evo[t], "neighbours", [chosen |-> evo[t].reviews[i]])
               ELSE Ended(evo[t], "reject"))

\* The atom after the archivist, protected and trusted as the merge may have left it.
Judged(k, kind, confidence, protected) ==
  IF Archivist(k.chosen.score, confidence, 0, kind, protected).archive
  THEN Ended(k, "archive")
  ELSE Stage(k, "persist", [action |-> k.chosen.action])

\* The neighbours decide whether a merge asks the model; all else goes on at once.
Neighbours(t, kind, clarity) ==
  /\ evo[t].at = "neighbours"
  /\ LET k == evo[t] IN
     \/ /\ k.chosen.action = "merge" /\ \E w \in Word : Candidates(store, {w}, {}, FALSE) # {}
        /\ Step(t, Stage(k, "merge", [chosen |-> k.chosen, kind |-> kind]))
     \/ /\ k.chosen.action # "merge" \/ \E w \in Word : Candidates(store, {w}, {}, FALSE) = {}
        /\ \E protected \in BOOLEAN : Step(t, Judged(k, kind, clarity, protected))

Merge(t, confidence, protected) ==
  /\ evo[t].at = "merge"
  /\ Step(t, Judged(evo[t], evo[t].kind, confidence, protected))

\* The store's upsert of a new id, unless this is a dry run.
Persist(t, id, a) ==
  /\ evo[t].at = "persist" /\ id \notin Ids(store)
  /\ IF evo[t].dry THEN UNCHANGED <<store, lookup, writes>>
     ELSE UpsertAtom(id, a) /\ writes' = [writes EXCEPT ![t] = @ \cup {id}]
  /\ evo' = [evo EXCEPT ![t] = Ended(@, evo[t].action)]
  /\ UNCHANGED requireReal

\* A call of the store fails: a search for what is like a candidate or the atom, or
\* the upsert.
StoreFails(t) ==
  /\ \/ evo[t].at = "review" /\ evo[t].left > 0
     \/ evo[t].at = "neighbours"
     \/ evo[t].at = "persist" /\ ~evo[t].dry
  /\ Step(t, Ended(evo[t], "error"))

Reported(t) == evo[t].at = "done" /\ Step(t, NoEvolution)

\* What others do to the store meanwhile.
Others ==
  /\ \E id \in DraftId : (\E a \in Drafts : UpsertAtom(id, a)) \/ DeleteAtom(id) \/ ArchiveAtom(id)
  /\ UNCHANGED <<requireReal, evo, writes>>

EvolutionNext ==
  \/ \E t \in Evolver :
       \/ \E agent \in DOMAIN Agents \cup {NoAgent}, flag \in {"unset", "true", "false"} :
            BeginEvolution(t, agent, flag)
       \/ ModelFails(t) \/ Propose(t) \/ Review(t) \/ Select(t)
       \/ \E kind \in {"semantic", "code_entity"}, clarity \in Percents : Neighbours(t, kind, clarity)
       \/ \E confidence \in Percents, protected \in BOOLEAN : Merge(t, confidence, protected)
       \/ \E id \in DraftId, a \in Drafts : Persist(t, id, a)
       \/ StoreFails(t) \/ Reported(t)
  \/ Others

EvolutionSpec == EvolutionInit /\ [][EvolutionNext]_evolutionVars

\* The library's store with all of its callers, evolutions among them.
AtomsNext == EvolutionNext \/ (AtomNext /\ UNCHANGED <<requireReal, evo, writes>>)

AtomsSpec == EvolutionInit /\ [][AtomsNext]_evolutionVars

-----------------------------------------------------------------------------
(***************************************************************************)
(* Properties.                                                             *)
(***************************************************************************)

EvolutionTypeOK ==
  /\ Ids(store) \subseteq AtomId /\ \A id \in Ids(store) : store.byId[id].project \in AtomProject
  /\ \A t \in Evolver : /\ evo[t].at \in {"idle", "propose", "review", "neighbours", "merge", "persist", "done"}
                         /\ writes[t] \subseteq AtomId

\* Days only take from an atom: none is promoted later that was not before, what is
\* archived stays so, nothing is both, and a protected tag keeps it
\* (ArchivistAgent.evaluateProgression).
ArchivistSteady ==
  \A i, c \in {0, 15, 20, 21, 22, 44, 45, 46, 79, 80, 82, 85, 100}, kind \in {"semantic", "procedural", "code_entity"},
     protected \in BOOLEAN, d \in {0, 1, 30, 312, 325, 400} :
    LET then  == Archivist(i, c, d, kind, protected)
        later == Archivist(i, c, d + 30, kind, protected)
    IN  /\ later.promote => then.promote
        /\ then.archive => later.archive
        /\ ~(then.promote /\ then.archive) /\ (protected => ~then.archive)

\* An evolution writes one atom, and only when it reports one stored: never in a
\* dry run, through an agent that may not write or was not told to, nor when it
\* fails, rejects or archives; and it rejects only when no candidate was wanted
\* (evolveWithProgression, evolveMemoryWithProgression, runCortexaAgent).
WritesAsked(t) ==
  /\ Cardinality(writes[t]) <= 1
  /\ (writes[t] # {} /\ evo[t].at # "idle") =>
       /\ evo[t].at = "done" /\ evo[t].outcome \in {"store", "merge", "compress"}
       /\ evo[t].call.flag # "true"
       /\ evo[t].call.agent # NoAgent => Agents[evo[t].call.agent] /\ evo[t].call.flag = "false"
  /\ evo[t].at = "done" =>
       /\ evo[t].outcome \in {"store", "merge", "compress"} => (writes[t] = {}) = evo[t].dry
       /\ evo[t].outcome = "reject" => \A i \in DOMAIN evo[t].reviews : ~Wanted(evo[t].reviews[i])

EvolutionSound == ArchivistSteady /\ \A t \in Evolver : WritesAsked(t)

\* The library's store keeps its indexes exact, its searches and consolidations
\* lose nothing, and an evolution writes only what it was asked to (store.ts,
\* consolidate.ts, engine.ts).
AtomsSound == IndexExact /\ LookupSound /\ ConsolidationCovers /\ EvolutionSound
=============================================================================
