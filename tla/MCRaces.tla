------------------------------- MODULE MCRaces -------------------------------
(* What several processes race over: a row of the approval queue (HitlQueue),   *)
(* the lock, the tree and the backlog of the overnight run (Meditation), and    *)
(* the license file (License).  They share no state: a behaviour is one of a    *)
(* single part, which `live` names, while the variables of the others keep a    *)
(* state in which they are at rest.                                             *)
EXTENDS MCHitlQueue, Meditation, License

CONSTANTS
  n1, n2, c1,
  lk1, lk2, g1, g2, m1, m2

VARIABLE live

MCOn == [g \in Gates |-> m1]

-----------------------------------------------------------------------------
(* A part that is at rest                                                    *)

QueueRest == queue = [i \in Rows |-> BlankRow] /\ Init

NightsRest == MeditationInit /\ site.isolated

-----------------------------------------------------------------------------

MCInit ==
  /\ live \in {"queue", "nights", "license"}
  /\ IF live = "queue" THEN Init ELSE QueueRest
  /\ IF live = "nights" THEN MeditationInit ELSE NightsRest
  /\ LicenseInit

MCNext ==
  \/ live = "queue" /\ Next /\ UNCHANGED <<live, meditationVars, licenseVars>>
  \/ live = "nights" /\ MeditationNext /\ UNCHANGED <<live, vars, licenseVars>>
  \/ live = "license" /\ LicenseNext /\ UNCHANGED <<live, vars, meditationVars>>

MCSpec ==
  /\ MCInit
  /\ [][MCNext]_<<live, vars, meditationVars, licenseVars>>
  /\ WF_vars(live = "queue" /\ \E d \in Deciders, w \in Work : Begin(d, w))
  /\ \A d \in Deciders : WF_vars(DeciderStep(d))
  /\ \A r \in Reviewers : WF_vars(ReviewerStep(r))
  /\ \A i \in Rows : WF_vars(LeaseElapses(i))
=============================================================================
