---------------------------- MODULE MCKnowledge -----------------------------
(***************************************************************************)
(* Small instances of what memories are made from, and of what is kept of  *)
(* them elsewhere, which share no state: a behaviour drives one of them,   *)
(* part, and leaves the others as they start.                              *)
(***************************************************************************)
EXTENDS MCIngestion, Evolution, MemoryGraph

VARIABLE part           \* what this behaviour drives

MCAgents == ("writer" :> FALSE) @@ ("multi_agent_loop" :> TRUE)

MCDrafts == {[project |-> "p", kind |-> "semantic", title |-> "w", summary |-> {"w"}, size |-> 1, tags |-> {}]}

MCAtoms ==
  MCDrafts
  \cup {[project |-> "p", kind |-> "semantic", title |-> "v", summary |-> {"w"}, size |-> 2, tags |-> {"v"}],
        [project |-> "q", kind |-> "semantic", title |-> "w", summary |-> {"v"}, size |-> 1, tags |-> {}]}

MCContents ==
  {[kind |-> "chat_turn", session |-> "s", files |-> {"f", "g", "h"}],
   [kind |-> "code_entity", session |-> "none", files |-> {"f", "g", "h"}],
   [kind |-> "code_entity", session |-> "none", files |-> {"h"}]}

MCFileOrder == <<"f", "g", "h">>

\* Two projects share the link from x to y, one has it by two types.
GraphLink(project, from, to, type, weights) ==
  {[project |-> project, from |-> from, to |-> to, type |-> type, weight |-> w] : w \in weights}

MCLibraryEdge ==
  GraphLink("p", "x", "y", "calls", {1, 2}) \cup GraphLink("q", "x", "y", "calls", {1, 2})
  \cup GraphLink("p", "x", "y", "imports", {1}) \cup GraphLink("p", "x", "x", "calls", {2})
  \cup GraphLink("p", "x", "z", "calls", {1, 2}) \cup GraphLink("q", "y", "z", "calls", {1, 2})
  \cup GraphLink("p", "z", "x", "calls", {1})

MCWalkOptions ==
  {[start |-> "x", deepest |-> 2, most |-> 3, minWeight |-> 1], [start |-> "x", deepest |-> 2, most |-> 1, minWeight |-> 1],
   [start |-> "x", deepest |-> 1, most |-> 3, minWeight |-> 2]}

-----------------------------------------------------------------------------
Parts == {"ingestion", "atoms", "evolution", "graph", "library"}

knowledgeVars == <<part, vars, evolutionVars, graphVars>>

KnowledgeInit ==
  /\ part \in Parts
  /\ requireReal \in (IF part = "evolution" THEN BOOLEAN ELSE {FALSE})
  /\ Init
  /\ part # "ingestion" => job = NoJob /\ ~onBranch /\ \A s \in Source : file[s] = <<"a", "b">>
  /\ EvolutionInit
  /\ GraphInit

KnowledgeNext ==
  \/ part = "ingestion" /\ Next /\ UNCHANGED <<part, evolutionVars, graphVars>>
  \/ part = "atoms" /\ AtomNext /\ UNCHANGED <<part, vars, requireReal, evo, writes, graphVars>>
  \/ part = "evolution" /\ EvolutionNext /\ UNCHANGED <<part, vars, graphVars>>
  \/ part = "graph" /\ IndexerNext /\ UNCHANGED <<part, vars, evolutionVars>>
  \/ part = "library" /\ LibraryNext /\ UNCHANGED <<part, vars, evolutionVars>>

KnowledgeSpec == KnowledgeInit /\ [][KnowledgeNext]_knowledgeVars

-----------------------------------------------------------------------------
KnowledgeTypeOK == IngestTypeOK /\ EvolutionTypeOK /\ GraphTypeOK
=============================================================================
