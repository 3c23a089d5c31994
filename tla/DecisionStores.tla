----------------------------- MODULE DecisionStores -----------------------------
(* One decision of bushido_check.py as the reflex engine asks for it: the two   *)
(* stores it reads (hitl_queue.json and hitl_standing_approvals.json), what     *)
(* becomes of a store that cannot be read, a lock that is not had in time, and  *)
(* what the engine makes of an answer, an error or silence                      *)
(* (_isBushidoBlocked).  Who may decide which row is HitlQueue's subject.       *)
EXTENDS Naturals

CONSTANTS
  Judges,      \* processes of bushido_check.py, one call each at a time
  Works,       \* work items, one per approval key
  TierOf,      \* what compute_tier() says of each
  Sensitive,   \* what _is_sensitive_skill() says of the skill
  ReadOnly,    \* skills that only read
  NoJudge,
  NoAsk,
  MaxMisreads, \* bound: reads that fail, files garbled by hand
  MaxCalls,    \* bound: calls started
  MaxReviews   \* bound: calls of the human's among them

ASSUME DecisionAssumption ==
  /\ NoJudge \notin Judges /\ NoAsk \notin Works
  /\ Sensitive \subseteq Works /\ ReadOnly \subseteq Works
  /\ TierOf \in [Works -> {"auto", "queue", "hitl", "hard_stop"}]
  /\ \A w \in Works : TierOf[w] \in {"hitl", "hard_stop"} => w \in Sensitive
  /\ {MaxMisreads, MaxCalls, MaxReviews} \subseteq Nat

VARIABLES
  rows,        \* hitl_queue.json: per work the statuses of its open rows
  grants,      \* hitl_standing_approvals.json
  shelf,       \* the two *.corrupt.json files, and how often each was written
  judge,       \* per process: what it does, for which work, where, its answer
  asking,      \* the engine: the process it waits for, what it let through, its cache
  owed,        \* history: approvals not yet spent, grants not revoked, revocations
  backed,      \* history: the work a human has approved at some time
  calls        \* what is left of the bounds

decisionVars == <<rows, grants, shelf, judge, asking, owed, backed, calls>>

OpenStatuses == {"pending", "approved"}
NoRows == [w \in Works |-> {}]
NoCall == [does |-> "none", work |-> NoAsk, at |-> "free", claim |-> FALSE,
           holds |-> {}, says |-> "none"]
NoPass == [work |-> NoAsk, on |-> "none"]

Stored(Contents) == [is : {"absent", "bad", "whole"}, has : Contents]

DecisionTypeOK ==
  /\ rows \in Stored([Works -> SUBSET OpenStatuses])
  /\ grants \in Stored(SUBSET Works)
  /\ shelf \in [rows : [Works -> SUBSET OpenStatuses], grants : SUBSET Works,
                rowsMoved : Nat, grantsMoved : Nat]
  /\ judge \in [Judges ->
       [does : {"none", "decide", "list", "approve", "always", "revoke"},
        work : Works \union {NoAsk},
        at : {"free", "expire", "consume", "standing", "misread", "enqueue", "review",
              "grant", "granting", "revoke", "revoking", "push", "over"},
        claim : BOOLEAN, holds : SUBSET Works,
        says : {"none", "auto", "queue", "hitl", "hard_stop", "error"}]]
  /\ asking \in [for : Judges \union {NoJudge}, strict : BOOLEAN,
                 cache : [Works -> {"none", "auto", "hard_stop"}],
                 passed : [work : Works \union {NoAsk},
                           on : {"none", "auto", "cache", "error", "silence"}]]
  /\ owed \in [approved : SUBSET Works, granted : SUBSET Works, revoked : SUBSET Works]
  /\ backed \subseteq Works
  /\ calls \in [made : 0 .. MaxCalls, reviews : 0 .. MaxReviews,
                misread : 0 .. MaxMisreads]

DecisionInit ==
  /\ rows \in {[is |-> "absent", has |-> NoRows],
              [is |-> "whole", has |-> [w \in Works |-> {"pending"}]]}
  /\ grants = [is |-> "absent", has |-> {}]
  /\ shelf = [rows |-> NoRows, grants |-> {}, rowsMoved |-> 0, grantsMoved |-> 0]
  /\ judge = [j \in Judges |-> NoCall]
  /\ asking \in [for : {NoJudge}, strict : BOOLEAN,
                 cache : {[w \in Works |-> "none"]}, passed : {NoPass}]
  /\ owed = [approved |-> {}, granted |-> {}, revoked |-> {}] /\ backed = {}
  /\ calls = [made |-> MaxCalls, reviews |-> MaxReviews, misread |-> MaxMisreads]

-----------------------------------------------------------------------------
(* The two stores                                                            *)

\* A read fails: the file is garbled, or the system refuses it this once.
ReadFails(store, badly) ==
  /\ store.is # "absent"
  /\ badly = (store.is = "bad")
  /\ badly \/ calls.misread > 0

\* It costs one of the bound when the file was good.
Costs(badly) ==
  calls' = IF badly THEN calls ELSE [calls EXCEPT !.misread = @ - 1]

\* _load_queue() moves an unreadable queue to the one name it has for that.
ShelveRows ==
  /\ rows' = [is |-> "absent", has |-> NoRows]
  /\ shelf' = [shelf EXCEPT !.rows = rows.has, !.rowsMoved = @ + 1]

\* Mutant: the unreadable grants are started afresh.
DropGrants ==
  /\ grants' = [is |-> "absent", has |-> {}]
  /\ shelf' = [shelf EXCEPT !.grantsMoved = @ + 1]

\* _load_standing_approvals() does the same, whether its caller holds the lock or not.
ShelveGrants ==
  /\ grants' = [is |-> "absent", has |-> {}]
  /\ shelf' = [shelf EXCEPT !.grants = grants.has, !.grantsMoved = @ + 1]

\* Somebody edits a store and leaves something that is not JSON.
Garble ==
  /\ calls.misread > 0
  /\ calls' = [calls EXCEPT !.misread = @ - 1]
  /\ \/ rows.is = "whole" /\ rows' = [rows EXCEPT !.is = "bad"] /\ UNCHANGED grants
     \/ grants.is = "whole" /\ grants' = [grants EXCEPT !.is = "bad"] /\ UNCHANGED rows
  /\ UNCHANGED <<shelf, judge, asking, owed, backed>>

\* Who is at work under the lock of a store, or might be.
QueueLocked(j) == judge[j].at \in {"expire", "consume", "enqueue", "review"}
GrantsLocked(j) == judge[j].at \in {"granting", "revoking"}
NobodyGrants == \A j \in Judges : ~GrantsLocked(j)

Stands(j, place) == judge[j].at = place
MovesTo(j, place) == judge' = [judge EXCEPT ![j].at = place, ![j].holds = {}]
Answers(j, says) ==
  judge' = [judge EXCEPT ![j].at = "over", ![j].claim = FALSE, ![j].says = says]

-----------------------------------------------------------------------------
(* decide()                                                                  *)

\* An exception inside decide(): closed for a sensitive skill, exit 3 for the rest.
FailSafe(j) == IF judge[j].work \in Sensitive THEN "hard_stop" ELSE "error"

\* The lock is not had within LOCK_TIMEOUT_S because another keeps it.
LockTimesOut(j) ==
  /\ \E k \in Judges \ {j} :
       \/ QueueLocked(j) /\ QueueLocked(k)
       \/ judge[j].at \in {"grant", "revoke"} /\ GrantsLocked(k)
  /\ Answers(j, IF judge[j].does = "decide" THEN FailSafe(j) ELSE "error")
  /\ UNCHANGED <<rows, grants, shelf, asking, owed, backed, calls>>

\* reconcile_stale_executing(), reconcile_stale_approved(), and the hard limits.
Reconcile(j) ==
  /\ Stands(j, "expire")
  /\ \/ rows.is # "bad" /\ UNCHANGED <<rows, shelf, calls>>
     \/ \E badly \in BOOLEAN : ReadFails(rows, badly) /\ Costs(badly) /\ ShelveRows
  /\ IF TierOf[judge[j].work] = "hard_stop" THEN Answers(j, "hard_stop")
     ELSE MovesTo(j, "consume")
  /\ UNCHANGED <<grants, asking, owed, backed>>

\* _consume_approval(): an approval is spent; a store that cannot be read has none.
Consume(j) ==
  LET w == judge[j].work
      found == rows.is = "whole" /\ "approved" \in rows.has[w]
  IN /\ Stands(j, "consume")
     /\ \/ /\ found
           /\ rows' = [rows EXCEPT !.has[w] = @ \ {"approved"}]
           /\ owed' = [owed EXCEPT !.approved = @ \ {w}]
           /\ Answers(j, "auto") /\ UNCHANGED calls
        \/ /\ ~found \/ calls.misread > 0
           /\ calls' = IF found THEN [calls EXCEPT !.misread = @ - 1] ELSE calls
           /\ CASE TierOf[w] = "auto" -> Answers(j, "auto")
                [] TierOf[w] = "queue" -> MovesTo(j, "standing")
                [] OTHER -> MovesTo(j, "enqueue")
           /\ UNCHANGED <<rows, owed>>
     /\ UNCHANGED <<grants, shelf, asking, backed>>

\* Where a caller that holds no lock goes with what it has read of the grants.
ReadersNext(j, has) ==
  IF judge[j].does = "list" THEN Answers(j, "none")
  ELSE IF judge[j].work \in has THEN Answers(j, "auto")
  ELSE MovesTo(j, "enqueue")

\* _has_standing_approval(), list_standing_approvals(): a load without the lock.
LoadGrants(j) ==
  /\ Stands(j, "standing")
  /\ \/ grants.is # "bad" /\ ReadersNext(j, grants.has) /\ UNCHANGED calls
     \/ \E badly \in BOOLEAN : ReadFails(grants, badly) /\ Costs(badly) /\ MovesTo(j, "misread")
  /\ UNCHANGED <<rows, grants, shelf, asking, owed, backed>>

\* What it then moves aside is whatever has that name by now.
MoveGrants(j) ==
  /\ Stands(j, "misread")
  /\ IF grants.is = "absent" THEN UNCHANGED <<grants, shelf>> ELSE ShelveGrants
  /\ ReadersNext(j, {})
  /\ UNCHANGED <<rows, asking, owed, backed, calls>>

\* enqueue_hitl(): a pending row, unless there is one.
EnqueueRow(j) ==
  LET w == judge[j].work
      Asked(has) == [is |-> "whole", has |-> [has EXCEPT ![w] = @ \union {"pending"}]]
  IN /\ Stands(j, "enqueue")
     /\ \/ rows.is # "bad" /\ rows' = Asked(rows.has) /\ UNCHANGED <<shelf, calls>>
        \/ \E badly \in BOOLEAN :
             /\ ReadFails(rows, badly) /\ Costs(badly)
             /\ rows' = Asked(NoRows)
             /\ shelf' = [shelf EXCEPT !.rows = rows.has, !.rowsMoved = @ + 1]
     /\ Answers(j, TierOf[w])
     /\ UNCHANGED <<grants, asking, owed, backed>>

-----------------------------------------------------------------------------
(* review_hitl(), the standing approvals                                     *)

\* The locked half: a pending row is approved; one of the reflex engine's is claimed
\* for a push.  A queue that cannot be read has no such row.
ReviewRow(j) ==
  LET w == judge[j].work
      found == rows.is = "whole" /\ "pending" \in rows.has[w]
      Then(claimed) == IF judge[j].does = "always" /\ TierOf[w] = "queue" THEN "grant"
                       ELSE IF claimed THEN "push" ELSE "over"
  IN /\ Stands(j, "review")
     /\ \/ /\ found /\ backed' = backed \union {w}
           /\ \E claimed \in BOOLEAN :
                /\ rows' = [rows EXCEPT !.has[w] =
                     (@ \ {"pending"}) \union (IF claimed THEN {} ELSE {"approved"})]
                /\ owed' = IF claimed THEN owed
                           ELSE [owed EXCEPT !.approved = @ \union {w}]
                /\ judge' = [judge EXCEPT ![j].at = Then(claimed), ![j].claim = claimed]
        \/ ~found /\ Answers(j, "none") /\ UNCHANGED <<rows, owed, backed>>
     /\ UNCHANGED <<grants, shelf, asking, calls>>

\* grant_standing_approval() and revoke_standing_approval() load under the lock ...
LoadLocked(j) ==
  /\ judge[j].at \in {"grant", "revoke"} /\ NobodyGrants
  /\ \E has \in {grants.has, {}} :
       /\ \/ has = grants.has /\ grants.is # "bad" /\ UNCHANGED <<grants, shelf, calls>>
          \/ /\ has = {}
             /\ \E badly \in BOOLEAN : ReadFails(grants, badly) /\ Costs(badly) /\ ShelveGrants
       /\ judge' = IF judge[j].at = "grant"
                   THEN [judge EXCEPT ![j].at = "granting", ![j].holds = has]
                   ELSE IF judge[j].work \in has
                   THEN [judge EXCEPT ![j].at = "revoking", ![j].holds = has]
                   ELSE [judge EXCEPT ![j].at = "over"]
  /\ UNCHANGED <<rows, asking, owed, backed>>

\* ... and save what they loaded, with one entry more or less.
SaveLocked(j) ==
  LET w == judge[j].work
  IN /\ GrantsLocked(j)
     /\ IF Stands(j, "granting")
        THEN /\ grants' = [is |-> "whole", has |-> judge[j].holds \union {w}]
             /\ owed' = [owed EXCEPT !.granted = @ \union {w}, !.revoked = @ \ {w}]
             /\ MovesTo(j, IF judge[j].claim THEN "push" ELSE "over")
        ELSE /\ grants' = [is |-> "whole", has |-> judge[j].holds \ {w}]
             /\ owed' = [owed EXCEPT !.granted = @ \ {w}, !.revoked = @ \union {w}]
             /\ MovesTo(j, "over")
     /\ UNCHANGED <<rows, shelf, asking, backed, calls>>

\* The claimed row is posted: started or unknown, it is spent; refused, it is approved
\* again, if the queue can be read.
Push(j) ==
  LET w == judge[j].work
  IN /\ Stands(j, "push")
     /\ \/ UNCHANGED <<rows, owed>>
        \/ /\ rows.is = "whole" /\ rows' = [rows EXCEPT !.has[w] = @ \union {"approved"}]
           /\ owed' = [owed EXCEPT !.approved = @ \union {w}]
     /\ MovesTo(j, "over")
     /\ UNCHANGED <<grants, shelf, asking, backed, calls>>

-----------------------------------------------------------------------------
(* Who calls                                                                 *)

BeginCall(j, does, w, place) ==
  /\ Stands(j, "free") /\ calls.made > 0
  /\ judge' = [judge EXCEPT ![j] = [NoCall EXCEPT !.does = does, !.work = w, !.at = place]]

\* The human reviews, lists or revokes.
HumanCalls(j, w) ==
  /\ calls.reviews > 0
  /\ calls' = [calls EXCEPT !.made = @ - 1, !.reviews = @ - 1]
  /\ \/ \E does \in {"approve", "always"} : BeginCall(j, does, w, "review")
     \/ BeginCall(j, "list", w, "standing")
     \/ BeginCall(j, "revoke", w, "revoke")
  /\ UNCHANGED <<rows, grants, shelf, asking, owed, backed>>

HumanHears(j) ==
  /\ Stands(j, "over") /\ asking.for # j
  /\ judge' = [judge EXCEPT ![j] = NoCall]
  /\ UNCHANGED <<rows, grants, shelf, asking, owed, backed, calls>>

\* _isBushidoBlocked(): the cache answers, or a child is started and waited for.
EngineAsks(j, w) ==
  /\ asking.for = NoJudge
  /\ IF asking.cache[w] # "none"
     THEN /\ asking' = [asking EXCEPT !.passed =
               IF asking.cache[w] = "auto" THEN [work |-> w, on |-> "cache"] ELSE NoPass]
          /\ asking' # asking /\ UNCHANGED <<judge, calls>>
     ELSE /\ BeginCall(j, "decide", w, "expire")
          /\ asking' = [asking EXCEPT !.for = j, !.passed = NoPass]
          /\ calls' = [calls EXCEPT !.made = @ - 1]
  /\ UNCHANGED <<rows, grants, shelf, owed, backed>>

\* Another decider (a cycle, a scout) asks and keeps the answer for itself.
OtherAsks(j, w) ==
  /\ BeginCall(j, "decide", w, "expire") /\ calls' = [calls EXCEPT !.made = @ - 1]
  /\ UNCHANGED <<rows, grants, shelf, asking, owed, backed>>

\* BUSHIDO_FAIL_OPEN, on unless it is set to false.
FailOpen(w) == ~asking.strict \/ w \in ReadOnly

\* The engine is done with its child: what it lets through, what it caches.
EngineSettles(w, tier, on) ==
  LET Pass(b) == IF b THEN [work |-> w, on |-> on] ELSE NoPass
  IN asking' = [asking EXCEPT
       !.for = NoJudge,
       !.cache[w] = IF tier \in {"auto", "hard_stop"} THEN tier ELSE @,
       !.passed = Pass(IF tier = "error" THEN FailOpen(w) ELSE tier = "auto")]

EngineHears(j) ==
  /\ Stands(j, "over") /\ asking.for = j
  /\ EngineSettles(judge[j].work, judge[j].says,
             IF judge[j].says = "error" THEN "error" ELSE "auto")
  /\ judge' = [judge EXCEPT ![j] = NoCall]
  /\ UNCHANGED <<rows, grants, shelf, owed, backed, calls>>

\* spawnSync fails, or kills the child after ten seconds, wherever it is.
EngineGivesUp(j) ==
  /\ asking.for = j
  /\ EngineSettles(judge[j].work, "error", "silence")
  /\ judge' = [judge EXCEPT ![j] = NoCall]
  /\ UNCHANGED <<rows, grants, shelf, owed, backed, calls>>

\* Sixty seconds later.
CacheEnds(w) ==
  /\ asking.cache[w] # "none"
  /\ asking' = [asking EXCEPT !.cache[w] = "none", !.passed = NoPass]
  /\ UNCHANGED <<rows, grants, shelf, judge, owed, backed, calls>>

DecisionNext ==
  \/ Garble
  \/ \E w \in Works : CacheEnds(w)
  \/ \E j \in Judges :
       \/ Reconcile(j) \/ Consume(j) \/ LoadGrants(j) \/ MoveGrants(j) \/ EnqueueRow(j)
       \/ ReviewRow(j) \/ LoadLocked(j) \/ SaveLocked(j) \/ Push(j)
       \/ LockTimesOut(j) \/ HumanHears(j) \/ EngineHears(j) \/ EngineGivesUp(j)
       \/ \E w \in Works : HumanCalls(j, w) \/ EngineAsks(j, w) \/ OtherAsks(j, w)

DecisionSpec == DecisionInit /\ [][DecisionNext]_decisionVars

-----------------------------------------------------------------------------
(* What is promised                                                          *)

\* As long as a store was set aside once at most, whatever a human decided and was
\* not yet spent or revoked is in it or on the shelf, although the grants are loaded
\* without their lock (bushido_engine.py:533-537, 466); a second time overwrites.
OneMisreadLosesNothing ==
  /\ shelf.rowsMoved <= 1 =>
       \A w \in owed.approved : "approved" \in rows.has[w] \union shelf.rows[w]
  /\ shelf.grantsMoved <= 1 => owed.granted \subseteq grants.has \union shelf.grants

\* A revoked preference stays so: no grant that runs beside the revocation, and no
\* reader that moves the store, brings it back (bushido_engine.py:432-456).
RevokedStaysRevoked == owed.revoked \intersect grants.has = {}

\* An error of the decision engine never lets a sensitive skill through
\* (bushido_check.py:366-369), as long as its process is there to say so: the engine
\* takes silence for permission, and waits no longer than the lock does.
ErrorsStopSensitiveWork ==
  asking.passed.on = "error" => asking.passed.work \notin Sensitive

\* What a human has to decide passes only after one did, from the stores or from the
\* cache; where BUSHIDO_FAIL_OPEN is false, errors and silence change nothing of that,
\* except for skills that only read (reflex-engine.ts:725-735).
PassesAreBacked ==
  (asking.passed.work # NoAsk /\ TierOf[asking.passed.work] # "auto") =>
    \/ asking.passed.work \in backed
    \/ asking.passed.on \in {"error", "silence"}
       /\ (asking.strict => asking.passed.work \in ReadOnly)

DecisionInv ==
  /\ DecisionTypeOK
  /\ OneMisreadLosesNothing /\ RevokedStaysRevoked
  /\ ErrorsStopSensitiveWork /\ PassesAreBacked
=============================================================================
