------------------------------ MODULE ReflexGate ------------------------------
(***************************************************************************)
(* What api/src/reflex-engine.ts remembers of the decision engine's        *)
(* answers (_bushidoCache, _bushidoQueueIds), beside the approval queue    *)
(* those answers come from.  bin/bushido_check.py is one step here; what   *)
(* may happen inside decide() is in HitlQueue.                             *)
(*                                                                         *)
(* The metrics of Work share one skill and one pillar, hence one cache     *)
(* key; they have passed every other gate of _isEligible, and each has a   *)
(* mechanism, so _mayQueueRepair lets them through.                        *)
(***************************************************************************)
EXTENDS HitlOps

VARIABLES
  queue,     \* hitl_queue.json
  cached,    \* an `auto` answer not older than BUSHIDO_CACHE_MS
  rowId,     \* _bushidoQueueIds: the row last named for a metric, 0 for none
  booked,    \* metrics in the engine's queue
  active,    \* activeEntry, NoWork if nothing runs
  reviewed   \* history: rows a human approved

vars == <<queue, cached, rowId, booked, active, reviewed>>

Init ==
  /\ queue = [i \in Rows |-> BlankRow]
  /\ cached = FALSE
  /\ rowId = [m \in Work |-> 0]
  /\ booked = {} /\ active = NoWork
  /\ reviewed = {}

\* The entry may run: it is queued, or started by the drain when nothing runs.
LetThrough(m) ==
  IF m \in booked \/ m = active THEN UNCHANGED <<booked, active>>
  ELSE IF active = NoWork THEN active' = m /\ UNCHANGED booked
  ELSE booked' = booked \union {m} /\ UNCHANGED active

\* A cached answer does not touch the remembered row.
AnswerCached(m) ==
  /\ cached
  /\ LetThrough(m)
  /\ UNCHANGED <<queue, cached, rowId, reviewed>>

\* decide() consumes an approval and answers `auto` with the row's id.
AnswerConsumed(m) ==
  /\ ~cached
  /\ \E i \in Consumable(queue, m, "none") :
       /\ IsFirst(i, Consumable(queue, m, "none"))
       /\ queue' = [queue EXCEPT ![i] = Leased(@)]
       /\ rowId' = [rowId EXCEPT ![m] = i]
  /\ cached' = TRUE
  /\ LetThrough(m)
  /\ UNCHANGED reviewed

\* decide() files the proposal, or finds it filed, and the entry is blocked.
AnswerQueued(m) ==
  /\ ~cached
  /\ Consumable(queue, m, "none") = {}
  /\ Enqueue(queue, m, "none", "queue", queue')
  /\ \E i \in PendingMatches(queue', m, "none") :
       /\ IsFirst(i, PendingMatches(queue', m, "none"))
       /\ rowId' = [rowId EXCEPT ![m] = i]
  /\ UNCHANGED <<cached, booked, active, reviewed>>

CacheExpires ==
  /\ cached /\ cached' = FALSE
  /\ UNCHANGED <<queue, rowId, booked, active, reviewed>>

\* _afterRun: --complete for the remembered row, then the next entry.
AfterRun(failed) ==
  /\ active /= NoWork
  /\ LET i == rowId[active]
     IN  queue' = IF i = 0 THEN queue
                  ELSE [queue EXCEPT ![i] = Completed(@, failed)]
  /\ rowId' = [rowId EXCEPT ![active] = 0]
  /\ \/ booked = {} /\ active' = NoWork /\ booked' = {}
     \/ \E m \in booked : active' = m /\ booked' = booked \ {m}
  /\ UNCHANGED <<cached, reviewed>>

\* The dashboard approves or rejects; nothing is pushed.
Review(i, action) ==
  /\ queue[i].status = "pending"
  /\ queue' = [queue EXCEPT ![i] = Reviewed(@, action, FALSE)]
  /\ reviewed' = IF Grants(action) THEN reviewed \union {i} ELSE reviewed
  /\ UNCHANGED <<cached, rowId, booked, active>>

Next ==
  \/ \E m \in Work : AnswerCached(m) \/ AnswerConsumed(m) \/ AnswerQueued(m)
  \/ CacheExpires
  \/ \E failed \in BOOLEAN : AfterRun(failed)
  \/ \E i \in Rows, action \in {"approve", "reject"} : Review(i, action)

Spec == Init /\ [][Next]_vars

-----------------------------------------------------------------------------
\* What the queue shows as done or failed is a row a human approved.  The
\* engine breaks this: it remembers the id of a row that waits for a review,
\* and completes that row when the metric is freed by another's cached answer
\* or when the running metric was judged again.
SettledWasReviewed ==
  \A i \in Rows : queue[i].status \in {"done", "failed"} => i \in reviewed
=============================================================================
