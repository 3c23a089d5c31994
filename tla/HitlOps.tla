------------------------------ MODULE HitlOps ------------------------------
(***************************************************************************)
(* The rows of state/hitl_queue.json and what each queue operation of      *)
(* agentica_core/bushido_engine.py does to them.  Every operation runs     *)
(* inside _under_queue_lock, so it is one load-mutate-write; the modules   *)
(* that use these operators say who calls which, and when.                 *)
(*                                                                         *)
(* Abstractions.                                                           *)
(*  - A proposal (the fields _matches_proposal and the approval key        *)
(*    compare) is a member of Work; Proposal[w] gives the fields the code  *)
(*    branches on.  Equal proposals have equal hashes and distinct ones do *)
(*    not (SHA-256), and no code rewrites a row's proposal, so the hash    *)
(*    check is on whether a hash was stamped at all.                       *)
(*  - Time is two flags: leaseOver, the execution lease has run out;       *)
(*    stale, the approval is past its TTL and has not been re-surfaced     *)
(*    within the current TTL window.                                       *)
(*  - Rows are never deleted.  The file holds the rows of Rows whose       *)
(*    status is not "absent", in index order.                              *)
(***************************************************************************)
EXTENDS BushidoTier

CONSTANTS
  Work,       \* the proposals the processes may route
  Keys,       \* approval keys (source, skill, pillar, metric_id, backlog_id)
  Proposal,   \* Proposal[w]: the fields of w the code branches on
  MaxRows,    \* bound: rows the queue file may grow to
  NoWork      \* stands where a row holds no proposal yet

ProposalFields ==
  [key : Keys, blast : Blasts, reversible : BOOLEAN, routine : BOOLEAN,
   pushable : BOOLEAN]

ASSUME ProposalAssumption == Proposal \in [Work -> ProposalFields]
ASSUME RowsAssumption == MaxRows \in Nat
ASSUME NoWorkAssumption == NoWork \notin Work

Rows == 1 .. MaxRows

Statuses ==
  {"absent", "pending", "approved", "executing", "dispatched", "done",
   "failed", "rejected", "expired", "retired"}

Row ==
  [work : Work \union {NoWork}, tier : {"queue", "hitl"}, status : Statuses,
   hashed : BOOLEAN, claimed : BOOLEAN, leaseOver : BOOLEAN, stale : BOOLEAN]

BlankRow ==
  [work |-> NoWork, tier |-> "queue", status |-> "absent", hashed |-> FALSE,
   claimed |-> FALSE, leaseOver |-> FALSE, stale |-> FALSE]

\* The code scans the items in file order and takes the first that fits.
IsFirst(i, fits) == i \in fits /\ \A j \in fits : i <= j

\* _matches_proposal together with the key comparison its callers make.
Matches(row, w, override) ==
  /\ row.work = w
  /\ ComputeTier(Proposal[w], override, FALSE) = "hitl" => row.tier = "hitl"

-----------------------------------------------------------------------------
(* enqueue_hitl                                                            *)

PendingMatches(queue, w, override) ==
  {i \in Rows : queue[i].status = "pending" /\ Matches(queue[i], w, override)}

FreeRows(queue) == {i \in Rows : queue[i].status = "absent"}

NewRow(w, tier) ==
  [BlankRow EXCEPT !.work = w, !.status = "pending",
                   !.tier = IF Proposal[w].routine THEN tier ELSE "hitl"]

\* The queue after enqueue_hitl; an equal pending proposal is left to stand
\* for the new one.  A full queue (bound MaxRows) takes no new row.
Enqueue(queue, w, override, tier, queueAfter) ==
  \/ /\ PendingMatches(queue, w, override) /= {}
     /\ queueAfter = queue
  \/ /\ PendingMatches(queue, w, override) = {}
     /\ \E i \in FreeRows(queue) :
          /\ IsFirst(i, FreeRows(queue))
          /\ queueAfter = [queue EXCEPT ![i] = NewRow(w, tier)]
  \/ /\ FreeRows(queue) = {}
     /\ PendingMatches(queue, w, override) = {}
     /\ queueAfter = queue

-----------------------------------------------------------------------------
(* _consume_approval, mark_complete and the two reconciliations            *)

Consumable(queue, w, override) ==
  {i \in Rows : /\ queue[i].status = "approved"
                /\ Matches(queue[i], w, override)
                /\ Proposal[w].routine \/ queue[i].hashed}

Leased(row) == [row EXCEPT !.status = "executing", !.leaseOver = FALSE]

\* Mutant: a word no reader of the file knows.
CompletedUnknown(row, failed) ==
  [row EXCEPT !.status = IF failed THEN "failed" ELSE "completed"]

\* mark_complete looks the row up by id and never at its status.
Completed(row, failed) ==
  [row EXCEPT !.status = IF failed THEN "failed" ELSE "done"]

\* Mutant: an expired lease puts the approval back for another try.
ExpireLeaseRetries(row) ==
  IF row.status = "executing" /\ row.leaseOver
  THEN [row EXCEPT !.status = "approved", !.claimed = FALSE] ELSE row

ExpireLease(row) ==
  IF row.status = "executing" /\ row.leaseOver
  THEN [row EXCEPT !.status = "failed"] ELSE row

\* Mutant: only what review_hitl approved is re-surfaced.
ResurfaceHashed(row) ==
  IF row.status = "approved" /\ row.hashed
  THEN [row EXCEPT !.stale = FALSE] ELSE row

Resurface(row) ==
  IF row.status = "approved" THEN [row EXCEPT !.stale = FALSE] ELSE row

-----------------------------------------------------------------------------
(* review_hitl                                                             *)

Actions == {"approve", "approve_always", "reject", "expire", "retire"}

\* Mutant: a human may change their mind while the row is executing.
ReviewableWhileRunning(action) == {"pending", "approved", "executing"}

ReviewableFrom(action) ==
  IF action = "retire" THEN {"pending", "expired"} ELSE {"pending"}

Grants(action) == action \in {"approve", "approve_always"}

\* The decision takes a push claim only for what the manual-run route accepts.
Claims(row, action, push) ==
  /\ Grants(action) /\ push
  /\ Proposal[row.work].routine /\ Proposal[row.work].pushable

Verdict == [reject |-> "rejected", expire |-> "expired", retire |-> "retired"]

\* The row once the human's action has been applied to it.
Reviewed(row, action, push) ==
  IF ~Grants(action)
  THEN [row EXCEPT !.status = Verdict[action]]
  ELSE IF Claims(row, action, push)
  THEN [row EXCEPT !.status = "executing", !.hashed = TRUE, !.claimed = TRUE,
                   !.leaseOver = FALSE]
  ELSE [row EXCEPT !.status = "approved", !.hashed = TRUE]

\* Mutant: the stamp of a claim outlives its lease.
StillStamped(row) == row.claimed

\* _settle_push_claim and _release_push_claim act only on a claim still owned.
OwnsClaim(row) == row.status = "executing" /\ row.claimed

SettledClaim(row) == [row EXCEPT !.status = "dispatched"]

\* Mutant: a refused push asks the human again.
ReleasedToPending(row) ==
  [row EXCEPT !.status = "pending", !.claimed = FALSE, !.leaseOver = FALSE]

ReleasedClaim(row) ==
  [row EXCEPT !.status = "approved", !.claimed = FALSE, !.leaseOver = FALSE]
=============================================================================
