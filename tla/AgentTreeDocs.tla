--------------------------- MODULE AgentTreeDocs ---------------------------
(***************************************************************************)
(* What comments of the code say of the agent tree and the code does not   *)
(* do.  Each statement is refuted by a run of its own; the README tells    *)
(* the story of each counterexample.                                       *)
(***************************************************************************)
EXTENDS AgentTree

\* "Two sibling sub-agents cannot crawl overlapping URLs" (url_claim.rs): said
\* of every running sibling that is not being aborted, tracked or not.
SiblingsDisjoint ==
  \A c, d \in Child :
    c # d /\ Parent[c] = Parent[d] /\ task[c] = "running" /\ task[d] = "running" =>
      \A k \in KeysOf(scope[c]), l \in KeysOf(scope[d]) : ~Clash(k, l)

=============================================================================
