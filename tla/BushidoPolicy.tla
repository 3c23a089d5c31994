--------------------------- MODULE BushidoPolicy ---------------------------
(***************************************************************************)
(* Who decides a skill's work: the way from the skill table and ronin mode *)
(* to a tier, skill_to_work_item and resolve_ronin_mode of                 *)
(* agentica_core/bushido_engine.py, while people edit the files they read. *)
(*                                                                         *)
(* One skill, one pillar.  The queue and its approvals are HitlQueue's:    *)
(* here Tier is the answer to a proposal nobody approved beforehand.       *)
(***************************************************************************)
EXTENDS BushidoTier

VARIABLES
  entry,      \* the skill's entry in skill_tiers.json, NoEntry if it has none
  requested,  \* the decision_category the caller passes, "none" if it does not
  mode,       \* ronin mode as the environment, the whole state and the pillar say
  overBudget  \* the day's budget is spent, or its ledger proves nothing

vars == <<entry, requested, mode, overBudget>>

Categories == {"routine", "owner", "none"}

NoEntry == [tabled |-> FALSE, blast |-> "repo", reversible |-> TRUE,
            category |-> "none", override |-> "none"]

\* A blast radius that is missing or unknown reads as repo.
Entries ==
  [tabled : {TRUE}, blast : Blasts, reversible : BOOLEAN,
   category : Categories, override : Overrides] \union {NoEntry}

Modes ==
  [env : {"unset", "on", "off"}, global : BOOLEAN, pillar : BOOLEAN]

\* decision_category, or what its absence stands for.
TableCategory ==
  IF entry.category /= "none" THEN entry.category
  ELSE IF entry.tabled /\ entry.blast /= "system" THEN "routine" ELSE "unknown"

\* Mutant: what the caller says goes.
CategoryAsRequested == IF requested = "none" THEN TableCategory ELSE requested

Category ==
  IF TableCategory = "routine" /\ requested /= "none" THEN requested ELSE TableCategory

SkillToWorkItem ==
  [blast |-> entry.blast, reversible |-> entry.reversible,
   routine |-> Category = "routine"]

ResolveRoninMode ==
  IF mode.env /= "unset" THEN mode.env = "on" ELSE mode.global \/ mode.pillar

Tier ==
  IF IsHardLimit(SkillToWorkItem, entry.override, overBudget) THEN "hard_stop"
  ELSE ComputeTier(SkillToWorkItem, entry.override, ResolveRoninMode)

Init ==
  /\ entry = NoEntry /\ requested \in Categories
  /\ mode = [env |-> "unset", global |-> FALSE, pillar |-> FALSE]
  /\ overBudget \in BOOLEAN

\* Somebody edits skill_tiers.json.
EditEntry ==
  /\ entry' \in Entries
  /\ UNCHANGED <<requested, mode, overBudget>>

\* Ronin mode is armed or disarmed, globally, for the pillar or by the
\* environment.
SetMode ==
  /\ mode' \in Modes
  /\ UNCHANGED <<entry, requested, overBudget>>

Spend ==
  /\ overBudget' = ~overBudget
  /\ UNCHANGED <<entry, requested, mode>>

Next == EditEntry \/ SetMode \/ Spend

Spec == Init /\ [][Next]_vars

-----------------------------------------------------------------------------
(* Properties                                                              *)

Owned ==
  \/ ~entry.tabled
  \/ entry.category = "owner"
  \/ entry.category = "none" /\ entry.blast = "system"

\* "Unknown skills and unclassified system actions need owner review" and no
\* caller, no approval_tier and no mode takes the owner's decision away.
OwnerIsAsked == Owned => Tier \in {"hitl", "hard_stop"}

\* Arming or disarming ronin mode only ever trades a review for a free run.
ModeTradesQueueOnly ==
  [][mode' /= mode => Tier' = Tier \/ {Tier, Tier'} = {"queue", "auto"}]_vars
=============================================================================
