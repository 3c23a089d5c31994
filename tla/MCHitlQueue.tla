---------------------------- MODULE MCHitlQueue ----------------------------
(* Small instances of HitlQueue for TLC. *)
EXTENDS HitlQueue, TLC

CONSTANTS tidy, spend, k1, d1, d2, r1, r2

\* Two proposals of one approval class: a routine repo edit the manual-run
\* route accepts, and one the owner has to decide on.
MCProposal ==
  [w \in {tidy, spend} |->
    [key |-> k1, blast |-> "repo", reversible |-> TRUE,
     routine |-> w = tidy, pushable |-> TRUE]]

MCWork == {tidy, spend}

MCOneProposal ==
  [w \in {tidy} |->
    [key |-> k1, blast |-> "repo", reversible |-> TRUE,
     routine |-> TRUE, pushable |-> TRUE]]
=============================================================================
