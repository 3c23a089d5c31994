----------------------------- MODULE HitlQueue -----------------------------
(***************************************************************************)
(* The life of an approval: agentica_core/bushido_engine.py as the engine  *)
(* that wants to run something (a decider: bin/bushido_check.py --skill,   *)
(* then the run, then --complete) and the human who rules on it (a         *)
(* reviewer: bushido_check.py --approve ... --retire) interleave over      *)
(* hitl_queue.json, the standing approvals and the chained review ledger.  *)
(*                                                                         *)
(* Each queue operation is atomic: it holds the file's flock from load to  *)
(* write, and the kernel drops that lock when the holder dies.  Between    *)
(* two operations of one call anything may happen.  A process may die      *)
(* before any of its steps; review_hitl may also die, still inside the     *)
(* lock, between its ledger row and its write of the queue.                *)
(*                                                                         *)
(* skill_tiers.json, budget_ledger.json and MEDITATION_STATE.json belong   *)
(* to other programs, which edit them at any time: a step that reads one   *)
(* gets some value (approval_tier, overBudget, ronin), and no variable     *)
(* here holds it.                                                          *)
(***************************************************************************)
EXTENDS HitlOps, Sequences

CONSTANTS
  Deciders,      \* processes that call decide() and run what it grants
  Reviewers,     \* processes that call review_hitl()
  PolicyTiers,   \* approval_tier values the skill table may take
  Legacy,        \* proposals that may be found approved without a hash
  MaxCrashes     \* bound: processes that die, in a behaviour

ASSUME PolicyAssumption == PolicyTiers \subseteq Overrides
ASSUME LegacyAssumption == Legacy \subseteq Work
ASSUME CrashAssumption == MaxCrashes \in Nat

VARIABLES
  queue,       \* hitl_queue.json
  ledger,      \* review_ledger.jsonl, the new_status of each row, per queue row
  standing,    \* hitl_standing_approvals.json, its keys
  decider,     \* where each decider is
  reviewer,    \* where each reviewer is
  runs,        \* history: runs started on the authority of each queue row
  crashes      \* processes that died so far

files  == <<queue, ledger, standing>>
vars   == <<files, decider, reviewer, runs, crashes>>

NoRow == 0

DeciderState ==
  [pc : {"idle", "lease", "ttl", "limits", "consume", "route", "enqueue",
         "granted", "running"},
   work : Work \union {NoWork}, override : Overrides,
   tier : {"queue", "hitl"}, row : Rows \union {NoRow}]

ReviewerState ==
  [pc : {"idle", "grant", "post", "settle", "release"},
   row : Rows \union {NoRow}, claim : BOOLEAN]

IdleDecider ==
  [pc |-> "idle", work |-> NoWork, override |-> "none", tier |-> "queue",
   row |-> NoRow]

IdleReviewer == [pc |-> "idle", row |-> NoRow, claim |-> FALSE]

TypeOK ==
  /\ queue \in [Rows -> Row]
  /\ ledger \in [Rows -> Seq(Statuses)]
  /\ standing \subseteq Keys
  /\ decider \in [Deciders -> DeciderState]
  /\ reviewer \in [Reviewers -> ReviewerState]
  /\ runs \in [Rows -> Nat]
  /\ crashes \in Nat

\* A row approved by `ronin approve-hitl`, or before hashes were stamped.
LegacyRow(w) ==
  [BlankRow EXCEPT !.work = w, !.status = "approved",
                   !.tier = IF Proposal[w].routine THEN "queue" ELSE "hitl"]

Init ==
  /\ \/ queue = [i \in Rows |-> BlankRow]
     \/ \E w \in Legacy :
          queue = [i \in Rows |-> IF i = 1 THEN LegacyRow(w) ELSE BlankRow]
  /\ ledger = [i \in Rows |-> << >>]
  /\ standing = {}
  /\ decider = [d \in Deciders |-> IdleDecider]
  /\ reviewer = [r \in Reviewers |-> IdleReviewer]
  /\ runs = [i \in Rows |-> 0]
  /\ crashes = 0

-----------------------------------------------------------------------------
(* decide(), one step per lock acquisition or file it reads                *)

Move(d, from, to) ==
  /\ decider[d].pc = from
  /\ decider' = [decider EXCEPT ![d].pc = to]

Return(d, from) ==
  /\ decider[d].pc = from
  /\ decider' = [decider EXCEPT ![d] = IdleDecider]

KeyOf(w) == Proposal[w].key

\* skill_to_work_item: the work item carries the override it read here.
Begin(d, w) ==
  /\ decider[d].pc = "idle"
  /\ \E t \in PolicyTiers :
       decider' = [decider EXCEPT ![d] = [IdleDecider EXCEPT
                     !.pc = "lease", !.work = w, !.override = t]]
  /\ UNCHANGED <<files, reviewer, runs, crashes>>

ReconcileStaleExecuting(d) ==
  /\ Move(d, "lease", "ttl")
  /\ queue' = [i \in Rows |-> ExpireLease(queue[i])]
  /\ UNCHANGED <<ledger, standing, reviewer, runs, crashes>>

ReconcileStaleApproved(d) ==
  /\ Move(d, "ttl", "limits")
  /\ queue' = [i \in Rows |-> Resurface(queue[i])]
  /\ UNCHANGED <<ledger, standing, reviewer, runs, crashes>>

CheckLimits(d) ==
  /\ decider[d].pc = "limits"
  /\ \E overBudget \in BOOLEAN :
       IF IsHardLimit(Proposal[decider[d].work], decider[d].override, overBudget)
       THEN Return(d, "limits")
       ELSE Move(d, "limits", "consume")
  /\ UNCHANGED <<files, reviewer, runs, crashes>>

ConsumeApproval(d) ==
  LET fits == Consumable(queue, decider[d].work, decider[d].override)
  IN  /\ decider[d].pc = "consume"
      /\ \/ /\ fits = {}
            /\ Move(d, "consume", "route")
            /\ UNCHANGED queue
         \/ \E i \in Rows :
              /\ IsFirst(i, fits)
              /\ queue' = [queue EXCEPT ![i] = Leased(@)]
              /\ decider' = [decider EXCEPT ![d].pc = "granted", ![d].row = i]
      /\ UNCHANGED <<ledger, standing, reviewer, runs, crashes>>

\* Step 3: ronin, tier, and a standing approval for queue-tier work only.
\* A hard stop was returned in step 1 from this same work item, so the code's
\* second test for one never fires and has no disjunct here.
Route(d) ==
  /\ decider[d].pc = "route"
  /\ \E ronin \in BOOLEAN :
       LET w    == decider[d].work
           tier == ComputeTier(Proposal[w], decider[d].override, ronin)
           free == tier = "queue" /\ KeyOf(w) \in standing
       IN  \/ /\ tier = "auto" \/ free
              /\ Move(d, "route", "granted")
           \/ /\ tier \in {"queue", "hitl"} /\ ~free
              /\ decider' = [decider EXCEPT ![d].pc = "enqueue", ![d].tier = tier]
  /\ UNCHANGED <<files, reviewer, runs, crashes>>

EnqueueHitl(d) ==
  /\ Return(d, "enqueue")
  /\ Enqueue(queue, decider[d].work, decider[d].override, decider[d].tier, queue')
  /\ UNCHANGED <<ledger, standing, reviewer, runs, crashes>>

-----------------------------------------------------------------------------
(* The caller that was told AUTO                                           *)

CountRun(i) ==
  runs' = IF i = NoRow THEN runs ELSE [runs EXCEPT ![i] = @ + 1]

StartRun(d) ==
  /\ Move(d, "granted", "running")
  /\ CountRun(decider[d].row)
  /\ UNCHANGED <<files, reviewer, crashes>>

\* The run ends and, when a queue row paid for it, mark_complete records how.
MarkComplete(d) ==
  /\ Return(d, "running")
  /\ \E failed \in BOOLEAN :
       queue' = IF decider[d].row = NoRow THEN queue
                ELSE [queue EXCEPT ![decider[d].row] = Completed(@, failed)]
  /\ UNCHANGED <<ledger, standing, reviewer, runs, crashes>>

\* The process dies, a lock it waits for times out, or it drops the grant.
DeciderDies(d) ==
  /\ decider[d].pc /= "idle"
  /\ crashes < MaxCrashes
  /\ crashes' = crashes + 1
  /\ decider' = [decider EXCEPT ![d] = IdleDecider]
  /\ UNCHANGED <<files, reviewer, runs>>

\* raise_hitl, by callers that build their own work item: no skill table.
RaiseHitl(w) ==
  /\ Enqueue(queue, w, "none", "hitl", queue')
  /\ UNCHANGED <<ledger, standing, decider, reviewer, runs, crashes>>

-----------------------------------------------------------------------------
(* review_hitl(), then its grant, its POST and what the answer says        *)

Reviewable(i, action) == queue[i].status \in ReviewableFrom(action)

\* Mutant: the ledger is told the status the row is leaving.
ChainOldStatus(i, action, push) ==
  ledger' = [ledger EXCEPT ![i] = Append(@, queue[i].status)]

Chain(i, action, push) ==
  ledger' = [ledger EXCEPT
               ![i] = Append(@, Reviewed(queue[i], action, push).status)]

\* What is left to do after the locked half, in order: grant, then POST.
AfterReview(i, action, push) ==
  LET claim == Claims(queue[i], action, push)
      keep  == action = "approve_always" /\ Proposal[queue[i].work].routine
  IN  IF keep THEN [pc |-> "grant", row |-> i, claim |-> claim]
      ELSE IF claim THEN [pc |-> "post", row |-> i, claim |-> TRUE]
      ELSE IdleReviewer

Review(r, i, action, push) ==
  /\ reviewer[r].pc = "idle"
  /\ Reviewable(i, action)
  /\ Chain(i, action, push)
  /\ queue' = [queue EXCEPT ![i] = Reviewed(@, action, push)]
  /\ reviewer' = [reviewer EXCEPT ![r] = AfterReview(i, action, push)]
  /\ UNCHANGED <<standing, decider, runs, crashes>>

\* Death between _chain_review and the write of the queue.
ReviewDies(r, i, action, push) ==
  /\ reviewer[r].pc = "idle"
  /\ Reviewable(i, action)
  /\ crashes < MaxCrashes
  /\ crashes' = crashes + 1
  /\ Chain(i, action, push)
  /\ UNCHANGED <<queue, standing, decider, reviewer, runs>>

ReviewerMoves(r, to) ==
  reviewer' = [reviewer EXCEPT ![r] =
                 IF to = "idle" THEN IdleReviewer ELSE [@ EXCEPT !.pc = to]]

\* Mutant: the class of a hitl-tier row is granted too.
GrantStandingAnyTier(r) ==
  /\ reviewer[r].pc = "grant"
  /\ standing' = standing \union {KeyOf(queue[reviewer[r].row].work)}
  /\ ReviewerMoves(r, IF reviewer[r].claim THEN "post" ELSE "idle")
  /\ UNCHANGED <<queue, ledger, decider, runs, crashes>>

GrantStanding(r) ==
  /\ reviewer[r].pc = "grant"
  /\ standing' = IF queue[reviewer[r].row].tier = "queue"
                 THEN standing \union {KeyOf(queue[reviewer[r].row].work)}
                 ELSE standing
  /\ ReviewerMoves(r, IF reviewer[r].claim THEN "post" ELSE "idle")
  /\ UNCHANGED <<queue, ledger, decider, runs, crashes>>

\* _post_manual_run: only an indeterminate answer leaves open whether it ran.
PostManualRun(r) ==
  /\ reviewer[r].pc = "post"
  /\ \/ ReviewerMoves(r, "settle") /\ CountRun(reviewer[r].row)
     \/ ReviewerMoves(r, "release") /\ UNCHANGED runs
     \/ ReviewerMoves(r, "idle") /\ (UNCHANGED runs \/ CountRun(reviewer[r].row))
  /\ UNCHANGED <<files, decider, crashes>>

SettlePushClaim(r) ==
  LET i == reviewer[r].row
  IN  /\ reviewer[r].pc = "settle"
      /\ queue' = IF OwnsClaim(queue[i])
                  THEN [queue EXCEPT ![i] = SettledClaim(@)] ELSE queue
      /\ ReviewerMoves(r, "idle")
      /\ UNCHANGED <<ledger, standing, decider, runs, crashes>>

ReleasePushClaim(r) ==
  LET i == reviewer[r].row
  IN  /\ reviewer[r].pc = "release"
      /\ queue' = IF OwnsClaim(queue[i])
                  THEN [queue EXCEPT ![i] = ReleasedClaim(@)] ELSE queue
      /\ ReviewerMoves(r, "idle")
      /\ UNCHANGED <<ledger, standing, decider, runs, crashes>>

ReviewerDies(r) ==
  /\ reviewer[r].pc /= "idle"
  /\ crashes < MaxCrashes
  /\ crashes' = crashes + 1
  /\ reviewer' = [reviewer EXCEPT ![r] = IdleReviewer]
  /\ UNCHANGED <<files, decider, runs>>

RevokeStanding(k) ==
  /\ k \in standing
  /\ standing' = standing \ {k}
  /\ UNCHANGED <<queue, ledger, decider, reviewer, runs, crashes>>

-----------------------------------------------------------------------------
(* The clock                                                               *)

LeaseElapses(i) ==
  /\ queue[i].status = "executing" /\ ~queue[i].leaseOver
  /\ queue' = [queue EXCEPT ![i].leaseOver = TRUE]
  /\ UNCHANGED <<ledger, standing, decider, reviewer, runs, crashes>>

TtlElapses(i) ==
  /\ queue[i].status = "approved" /\ ~queue[i].stale
  /\ queue' = [queue EXCEPT ![i].stale = TRUE]
  /\ UNCHANGED <<ledger, standing, decider, reviewer, runs, crashes>>

DeciderStep(d) ==
  \/ ReconcileStaleExecuting(d)
  \/ ReconcileStaleApproved(d)
  \/ CheckLimits(d)
  \/ ConsumeApproval(d)
  \/ Route(d)
  \/ EnqueueHitl(d)
  \/ StartRun(d)
  \/ MarkComplete(d)

ReviewerStep(r) ==
  \/ GrantStanding(r)
  \/ PostManualRun(r)
  \/ SettlePushClaim(r)
  \/ ReleasePushClaim(r)

Next ==
  \/ \E d \in Deciders, w \in Work : Begin(d, w)
  \/ \E d \in Deciders : DeciderStep(d) \/ DeciderDies(d)
  \/ \E w \in Work : RaiseHitl(w)
  \/ \E r \in Reviewers, i \in Rows, action \in Actions, push \in BOOLEAN :
       Review(r, i, action, push) \/ ReviewDies(r, i, action, push)
  \/ \E r \in Reviewers : ReviewerStep(r) \/ ReviewerDies(r)
  \/ \E k \in Keys : RevokeStanding(k)
  \/ \E i \in Rows : LeaseElapses(i) \/ TtlElapses(i)

Spec == Init /\ [][Next]_vars

\* decide() is called again and again (the reflex engine checks its metrics
\* after every refresh), a call that began takes its next step unless its
\* process dies, the run it started is killed by the engine's timers if it
\* does not end, and time passes.  Nobody owes a review, a dial or a crash.
Fairness ==
  /\ WF_vars(\E d \in Deciders, w \in Work : Begin(d, w))
  /\ \A d \in Deciders : WF_vars(DeciderStep(d))
  /\ \A r \in Reviewers : WF_vars(ReviewerStep(r))
  /\ \A i \in Rows : WF_vars(LeaseElapses(i))

FairSpec == Spec /\ Fairness

-----------------------------------------------------------------------------
(* Safety                                                                  *)

\* One approval pays for at most one run, whichever of the pull path (a
\* decider), the push path (a reviewer's POST), a lease that runs out under a
\* live run and a late answer gets to it, and in whatever order.
AtMostOnce == \A i \in Rows : runs[i] <= 1

Approvals == {"approved", "executing"}
Denials   == {"rejected", "expired", "retired"}

Chained(i, outcomes) ==
  \E n \in DOMAIN ledger[i] : ledger[i][n] \in outcomes

\* What runs on a queue row's authority is backed by an approval in the
\* tamper-evident ledger; only routine work may ride a row approved without
\* a hash, outside review_hitl.
HumanBehindEveryRun ==
  \A i \in Rows : runs[i] > 0 =>
    \/ Chained(i, Approvals)
    \/ Proposal[queue[i].work].routine /\ ~queue[i].hashed

\* A row a human turned down has never run and no decider holds it.
DenialIsRespected ==
  \A i \in Rows : queue[i].status \in Denials =>
    runs[i] = 0 /\ \A d \in Deciders : decider[d].row /= i

\* "A resolution we cannot chain is a resolution that does not happen": a row
\* review_hitl settled has a ledger row that says so, even if the reviewer
\* died in the middle.
ResolutionIsChained ==
  \A i \in Rows :
    /\ queue[i].hashed => Chained(i, Approvals)
    /\ queue[i].status \in Denials => Chained(i, {queue[i].status})

\* The human is never shown one proposal twice in the same tier, although
\* _consume_approval and enqueue_hitl are two separate lock acquisitions.
NoDuplicatePending ==
  \A i, j \in Rows :
    /\ i /= j
    /\ queue[i].status = "pending" /\ queue[j].status = "pending"
    /\ queue[i].work = queue[j].work
    => queue[i].tier /= queue[j].tier

\* A standing approval exists only for a class of which a human approved a
\* routine, queue-tier member on the record.
StandingIsAttested ==
  \A k \in standing : \E i \in Rows :
    /\ queue[i].status /= "absent" /\ KeyOf(queue[i].work) = k
    /\ queue[i].tier = "queue" /\ Proposal[queue[i].work].routine
    /\ Chained(i, Approvals)

\* Work that needs the owner's eyes runs on a queue row or not at all: no
\* standing approval, ronin mode or policy edit frees it.
OwnerWorkNeedsARow ==
  \A d \in Deciders :
    decider[d].pc \in {"granted", "running"} /\ decider[d].row = NoRow
      => /\ Proposal[decider[d].work].routine
         /\ Proposal[decider[d].work].reversible

\* A skill table, a mode and a standing approval that change at any moment
\* free no owner-decided work and show no proposal twice
\* (agentica_core/bushido_engine.py:1498-1574).
PolicyInv ==
  /\ StandingIsAttested
  /\ OwnerWorkNeedsARow
  /\ NoDuplicatePending
  /\ HumanBehindEveryRun

\* Settled rows stay as they were settled; of the settled ones only an
\* expired row may still be retired.
SettledIsFinal ==
  [][\A i \in Rows :
       /\ queue[i].status \in {"rejected", "retired", "dispatched"}
            => queue'[i].status = queue[i].status
       /\ queue[i].status = "expired"
            => queue'[i].status \in {"expired", "retired"}
       /\ queue[i].status \in {"done", "failed"}
            => queue'[i].status \in {"done", "failed"}]_vars

-----------------------------------------------------------------------------
(* Liveness, under FairSpec                                                *)

\* "Fail expired execution leases so crashes cannot strand approvals
\* forever": whoever dies between claim and completion, the row leaves
\* "executing".
NoStrandedExecution ==
  \A i \in Rows : queue[i].status = "executing" ~> queue[i].status /= "executing"

\* An approval that rots past its TTL is re-surfaced or leaves "approved".
StaleApprovalsResurface ==
  \A i \in Rows :
    queue[i].status = "approved" /\ queue[i].stale
      ~> ~(queue[i].status = "approved" /\ queue[i].stale)

\* Neither a claimed row nor a stale approval stays as it is.
RowsMoveOn == NoStrandedExecution /\ StaleApprovalsResurface

-----------------------------------------------------------------------------
(* The queue implements Approval                                           *)

StageOf(i) ==
  IF runs[i] > 0 THEN "spent"
  ELSE CASE queue[i].status = "absent"    -> "unasked"
         [] queue[i].status = "pending"   -> "asked"
         [] queue[i].status \in Denials  -> "denied"
         [] OTHER                         -> "granted"

A == INSTANCE Approval
       WITH Requests <- Rows, stage <- [i \in Rows |-> StageOf(i)]

\* Asked once, decided once, spent at most once, through every interleaving.
ImplementsApproval == A!Spec
=============================================================================
