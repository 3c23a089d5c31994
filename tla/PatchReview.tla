----------------------------- MODULE PatchReview -----------------------------
(***************************************************************************)
(* The way of a remediation patch into the operator's tree.  Two kinds of  *)
(* lanes propose patches: the staging lane of the reflex engine            *)
(* (api/src/reflex-engine.ts, _execute and _afterRun, with the checker     *)
(* execution/audit_remediation_patch.py) and                               *)
(* execution/worktree_patch_runner.py.  The operator applies or rejects    *)
(* them with bin/review_pending_patch.py.                                  *)
(*                                                                         *)
(* Abstractions.                                                           *)
(*  - A patch is the run it came from and whether check_path_scope or      *)
(*    run_static_checks bars it.                                           *)
(*  - The queue row of a patch is left out: nothing enqueues one.          *)
(***************************************************************************)
EXTENDS Naturals

CONSTANTS
  Engine,      \* reflexes whose runs are staged by the engine
  Runner,      \* metrics given to worktree_patch_runner.py
  Rounds       \* bound: Rounds[l], runs of a lane

Lanes == Engine \union Runner

ASSUME PatchAssumption ==
  Lanes # {} /\ Engine \intersect Runner = {} /\ Rounds \in [Lanes -> Nat]

RoundsOfAll == UNION {0 .. Rounds[l] : l \in Lanes}

Patches ==
  [lane : Lanes, round : RoundsOfAll,
   body : {"nothing", "code", "barred"},  \* barred: by a path or a static check
   strays : BOOLEAN]                      \* creates the operator's untracked files

Names == Lanes \X RoundsOfAll
NoPatch == [lane |-> "none"]

VARIABLES
  stray,      \* the operator's tree holds untracked files
  lane,       \* lane[l]: what its run is at, how many there were, its patch
  pending,    \* pending[n]: state/pending_remediation_*.patch
  archived,   \* <<directory, patch>>: state/patch_archive
  replaced,   \* patches overwritten by a later one of their reflex
  refused,    \* patches some check had an objection to
  review,     \* the review in progress: [at, name]
  adopted        \* patches in the operator's tree

patchVars ==
  <<stray, lane, pending, archived, replaced, refused, review, adopted>>

NoReview == [at |-> "none", name |-> CHOOSE n \in Names : TRUE]
Working == {"work", "checks", "tests", "stage", "sweep"}

PatchTypeOK ==
  /\ stray \in BOOLEAN
  /\ lane \in [Lanes -> [at : Working \union {"idle"}, round : RoundsOfAll,
                         patch : Patches \union {NoPatch}]]
  /\ pending \in [Names -> Patches \union {NoPatch}]
  /\ archived \subseteq ({"applied", "rejected"} \X Patches)
  /\ replaced \subseteq Patches /\ refused \subseteq Patches /\ adopted \subseteq Patches
  /\ review \in [at : {"none", "apply", "applied", "reject"}, name : Names]

PatchInit ==
  /\ stray \in BOOLEAN
  /\ lane = [l \in Lanes |-> [at |-> "idle", round |-> 0, patch |-> NoPatch]]
  /\ pending = [n \in Names |-> NoPatch]
  /\ archived = {} /\ replaced = {} /\ refused = {} /\ adopted = {}
  /\ review = NoReview

-----------------------------------------------------------------------------
(* The lanes                                                               *)

Moves(l, at) == lane' = [lane EXCEPT ![l].at = at]
LanesOnly == UNCHANGED <<stray, archived, review, adopted>>

\* The engine's patch of a reflex has one name for all runs; the runner's
\* names carry the second it is staged in.
NameOf(p) == <<p.lane, IF p.lane \in Engine THEN 0 ELSE p.round>>

\* `git worktree add`; a failure ends the run.
LaneBegins(l) ==
  /\ lane[l].at = "idle" /\ lane[l].round < Rounds[l]
  /\ lane' = [lane EXCEPT ![l] = [at |-> "work", round |-> lane[l].round + 1,
                                  patch |-> NoPatch]]
  /\ UNCHANGED <<pending, replaced, refused>> /\ LanesOnly

\* The diff after the remediation.  The engine copies untracked files into the
\* worktree, if it can, and then marks them with `git add -N`: what was copied is
\* part of its patch.
Diff(l, body, strays) ==
  [lane |-> l, round |-> lane[l].round, body |-> body, strays |-> strays]

IsEmpty(p) == p.body = "nothing" /\ ~p.strays

\* The run failed or timed out; the runner also ends if there is no change.
\* The exit status of the runner's command is not looked at.
Fruitless(l) ==
  /\ lane[l].at = "work"
  /\ Moves(l, "sweep")
  /\ UNCHANGED <<pending, replaced, refused>> /\ LanesOnly

Remediates(l) ==
  /\ lane[l].at = "work"
  /\ \E body \in {"nothing", "code", "barred"}, strays \in BOOLEAN :
       LET p == Diff(l, body, strays)
       IN /\ strays => stray /\ l \in Engine
          /\ l \in Runner => ~IsEmpty(p)
          /\ lane' = [lane EXCEPT ![l].at = IF l \in Engine THEN "checks" ELSE "tests",
                                  ![l].patch = p]
  /\ UNCHANGED <<pending, replaced, refused>> /\ LanesOnly

\* What the checker's model may answer: approved is true, is false, is some
\* other JSON value; or there is no answer, or none that can be read.
Verdicts == {"true", "false", "other", "none"}

\* Mutant: whatever Python takes for true approves.
Truthy(p, verdict) ==
  \/ IsEmpty(p)
  \/ p.body # "barred" /\ verdict \in {"true", "other"}

\* The path gate, the static checks, the model: only `true` of the last.
Passes(p, verdict) ==
  \/ IsEmpty(p)
  \/ p.body # "barred" /\ verdict = "true"

\* Whether anyone objects to p, the model included.
Objection(p, verdict) ==
  /\ ~IsEmpty(p)
  /\ p.body = "barred" \/ verdict # "true"

Checks(l) ==
  /\ lane[l].at = "checks"
  /\ \E verdict \in Verdicts :
       LET p == lane[l].patch
       IN /\ Moves(l, IF Passes(p, verdict) THEN "tests" ELSE "sweep")
          /\ refused' = IF Objection(p, verdict) THEN refused \union {p} ELSE refused
  /\ UNCHANGED <<pending, replaced>> /\ LanesOnly

\* pytest in the worktree; the runner's validation command, if it has one.
Tests(l) ==
  /\ lane[l].at = "tests"
  /\ \/ Moves(l, "stage") /\ UNCHANGED refused
     \/ Moves(l, "sweep") /\ refused' = refused \union {lane[l].patch}
  /\ UNCHANGED <<pending, replaced>> /\ LanesOnly

\* The patch is written for review; the write may fail.
Stage(l) ==
  /\ lane[l].at = "stage"
  /\ LET p == lane[l].patch
         n == NameOf(p)
     IN \/ /\ pending' = [pending EXCEPT ![n] = p]
           /\ replaced' = IF pending[n] = NoPatch THEN replaced
                          ELSE replaced \union {pending[n]}
        \/ UNCHANGED <<pending, replaced>>
  /\ Moves(l, "sweep")
  /\ UNCHANGED refused /\ LanesOnly

\* cleanup_worktree; the engine's `git worktree remove --force`.  Whether it
\* succeeds is not looked at: a worktree that stays is in nobody's way, since
\* every run makes one of a name of its own.
Sweep(l) ==
  /\ lane[l].at = "sweep"
  /\ lane' = [lane EXCEPT ![l].at = "idle", ![l].patch = NoPatch]
  /\ UNCHANGED <<pending, replaced, refused>> /\ LanesOnly

\* The lane's process is killed.
LaneDies(l) ==
  /\ lane[l].at \in Working
  /\ lane' = [lane EXCEPT ![l].at = "idle", ![l].patch = NoPatch]
  /\ UNCHANGED <<pending, replaced, refused>> /\ LanesOnly

-----------------------------------------------------------------------------
(* The review                                                              *)

ReviewOnly == UNCHANGED <<stray, lane, replaced, refused>>

\* _resolve: the operator names a pending patch.
Picks(n) ==
  /\ review.at = "none" /\ pending[n] # NoPatch
  /\ \E at \in {"apply", "reject"} : review' = [at |-> at, name |-> n]
  /\ UNCHANGED <<pending, archived, adopted>> /\ ReviewOnly

\* What is in the tree already, what would create a file that is there, and an
\* empty patch are errors to `git apply`; other patches may conflict.
Applies(p) == p \notin adopted /\ ~IsEmpty(p) /\ ~(p.strays /\ stray)

GitApply ==
  /\ review.at = "apply"
  /\ LET p == pending[review.name]
     IN \/ /\ Applies(p)
           /\ adopted' = adopted \union {p}
           /\ review' = [review EXCEPT !.at = "applied"]
        \/ review' = NoReview /\ UNCHANGED adopted
  /\ UNCHANGED <<pending, archived>> /\ ReviewOnly

\* A name that is taken gets the time appended: both are kept.
Keeps(dir, p) == archived \union {<<dir, p>>}

\* What has the name now goes to the archive.
Archive ==
  /\ review.at \in {"applied", "reject"}
  /\ archived' = Keeps(IF review.at = "reject" THEN "rejected" ELSE "applied",
                       pending[review.name])
  /\ pending' = [pending EXCEPT ![review.name] = NoPatch]
  /\ review' = NoReview
  /\ UNCHANGED adopted /\ ReviewOnly

ReviewCrashes ==
  /\ review.at # "none"
  /\ review' = NoReview
  /\ UNCHANGED <<pending, archived, adopted>> /\ ReviewOnly

PatchNext ==
  \/ \E l \in Lanes :
       \/ LaneBegins(l) \/ Fruitless(l) \/ Remediates(l) \/ Checks(l) \/ Tests(l)
       \/ Stage(l) \/ Sweep(l) \/ LaneDies(l)
  \/ \E n \in Names : Picks(n)
  \/ GitApply \/ Archive \/ ReviewCrashes

PatchSpec == PatchInit /\ [][PatchNext]_patchVars

-----------------------------------------------------------------------------
(* Properties                                                              *)

\* A patch the path gate, a static check, the model or the tests object to
\* does not reach the operator's tree, however proposals and reviews interleave
\* (execution/audit_remediation_patch.py:452-460, api/src/reflex-engine.ts:1212).
RefusedIsNeverApplied == adopted \intersect refused = {}

\* A patch that is no longer pending is in the archive or was replaced by a
\* later one of its reflex: neither a review of a second patch of that name nor
\* a review that is cut short loses it (bin/review_pending_patch.py:94-101).
NoPatchVanishes ==
  \A p \in adopted :
    \/ pending[NameOf(p)] = p
    \/ \E dir \in {"applied", "rejected"} : <<dir, p>> \in archived
    \/ p \in replaced

\* However lanes, their deaths and reviews interleave: a refused patch stays
\* out of the tree, an adopted one is kept on record
\* (execution/worktree_patch_runner.py, bin/review_pending_patch.py).
PatchInv ==
  /\ PatchTypeOK
  /\ RefusedIsNeverApplied
  /\ NoPatchVanishes
=============================================================================
