----------------------------- MODULE MCReflexGate -----------------------------
(* Two metrics of one skill and one pillar. *)
EXTENDS ReflexGate, TLC

CONSTANTS lint, docs, kLint, kDocs

Routine(k) ==
  [key |-> k, blast |-> "repo", reversible |-> TRUE, routine |-> TRUE,
   pushable |-> FALSE]

MCProposal == lint :> Routine(kLint) @@ docs :> Routine(kDocs)
=============================================================================
