---------------------------- MODULE BushidoTier ----------------------------
(***************************************************************************)
(* The authority arithmetic of agentica_core/bushido_engine.py: which      *)
(* decision tier a work item falls into, and how a role binding narrows    *)
(* what a package may touch.  Pure operators, no state.                    *)
(*                                                                         *)
(* A work item is seen here through the three fields the arithmetic reads: *)
(*   blast       "confined" | "repo" | "system" | "irreversible"           *)
(*   reversible  BOOLEAN                                                   *)
(*   routine     BOOLEAN, decision_category = "routine"                    *)
(* and the skill table's approval_tier, "none" when the table gives no     *)
(* parseable one.                                                          *)
(***************************************************************************)
EXTENDS Naturals

Tiers == {"auto", "queue", "hitl", "hard_stop"}

\* BlastRadius, in the order _BLAST_RANK gives it.
BlastRank ==
  [confined |-> 0, repo |-> 1, system |-> 2, irreversible |-> 3]

Blasts == DOMAIN BlastRank

\* approval_tier as _parse_tier reads it.
Overrides == Tiers \union {"none"}

\* The part of compute_tier and of _is_hard_limit no override can soften.
MatrixHardStop(w) ==
  \/ w.blast = "irreversible"
  \/ ~w.reversible /\ w.blast \in {"repo", "system"}

\* The tier before ronin mode is considered.
OwnerTier(w, override) ==
  IF MatrixHardStop(w) \/ override = "hard_stop" THEN "hard_stop"
  ELSE IF ~w.routine \/ ~w.reversible THEN "hitl"
  ELSE IF override /= "none" THEN override
  ELSE IF w.blast = "confined" THEN "auto" ELSE "queue"

\* Mutant: what the module's docstring says of ronin mode.
ComputeTierRoninAll(w, override, ronin) ==
  IF ronin /\ OwnerTier(w, override) \in {"queue", "hitl"}
  THEN "auto" ELSE OwnerTier(w, override)

ComputeTier(w, override, ronin) ==
  IF ronin /\ OwnerTier(w, override) = "queue"
  THEN "auto" ELSE OwnerTier(w, override)

\* decide()'s step 1: the runtime limits on top of the matrix.
IsHardLimit(w, override, overBudget) ==
  \/ MatrixHardStop(w)
  \/ overBudget
  \/ ComputeTier(w, override, FALSE) = "hard_stop"

ResolveCeiling(requested, ceiling) ==
  IF BlastRank[requested] <= BlastRank[ceiling] THEN requested ELSE ceiling

\* ROLE_REQUESTED_CEILING, with the default for a role it does not list.
RoleRequested(role) ==
  CASE role = "read-only-reviewer"   -> "confined"
    [] role = "writable-implementer" -> "repo"
    [] OTHER                         -> "repo"

ResolveRoleBinding(role, ceiling) ==
  ResolveCeiling(RoleRequested(role), ceiling)
=============================================================================
