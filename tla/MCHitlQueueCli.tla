--------------------------- MODULE MCHitlQueueCli ---------------------------
(* Small instances of HitlQueueCli for TLC. *)
EXTENDS HitlQueueCli, TLC


CONSTANTS tidy, spend, k1, d1, d2, r1, r2

\* Two proposals of one approval class: a routine repo edit the manual-run
\* route accepts, and one the owner has to decide on.
MCProposal ==
  tidy :> [key |-> k1, blast |-> "repo", reversible |-> TRUE,
           routine |-> TRUE, pushable |-> TRUE]
  @@
  spend :> [key |-> k1, blast |-> "repo", reversible |-> TRUE,
            routine |-> FALSE, pushable |-> TRUE]

MCWork == {tidy, spend}

MCOneProposal ==
  tidy :> [key |-> k1, blast |-> "repo", reversible |-> TRUE,
           routine |-> TRUE, pushable |-> TRUE]
=============================================================================
