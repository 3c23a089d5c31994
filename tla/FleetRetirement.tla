-------------------------- MODULE FleetRetirement --------------------------
(***************************************************************************)
(* Retirement of one failing launchd job by the sweep of                   *)
(* bin/hitl_alerts.py: a write-ahead journal, launchctl, then the queue.   *)
(*                                                                         *)
(* A transaction holds the journal's flock, which its death releases; the  *)
(* human decides the queue row under another lock, at any moment.  Every   *)
(* launchctl call and every write is a step, so a sweep may die between    *)
(* any two.  A row the sweep acts on is the one it read before it locked.  *)
(*                                                                         *)
(* Abstractions.  A row keeps what the sweep reads; reason tells whose     *)
(* retired_reason it is.  A call that times out may have landed.  A job    *)
(* that is not loaded does not fail, so nobody asks to retire it again.    *)
(* A sweep lasts minutes, not the days after which a decision is old.      *)
(***************************************************************************)
EXTENDS Naturals, FiniteSets

CONSTANTS
  Sweeps,     \* processes running hitl_alerts.py --notify
  Requests,   \* queue rows about the job
  MaxFaults,  \* bound: deaths, failed writes and failed launchctl calls
  None        \* no sweep, no item

ASSUME FaultsAssumption == MaxFaults \in Nat
ASSUME NoneAssumption == None \notin Sweeps \union Requests

VARIABLES
  rows,       \* the fleet rows of hitl_queue.json
  journal,    \* fleet_retirements.json: the state of each row's entry
  launchd,    \* what launchd knows of the job
  holder,     \* the sweep that holds the journal's lock
  sweep,      \* where each sweep is
  incidents,  \* rollback failures no journal row could hold
  faults

fleetVars == <<rows, journal, launchd, holder, sweep, incidents, faults>>

EnabledLoaded == [disabled |-> FALSE, loaded |-> TRUE]
DisabledUnloaded == [disabled |-> TRUE, loaded |-> FALSE]

Row ==
  [status : {"absent", "pending", "approved", "rejected", "expired", "retired", "done"},
   reason : {"none", "human", "silence"}, overdue : BOOLEAN, recent : BOOLEAN]

JournalState ==
  {"none", "intent", "failed", "rolled_back", "rollback_failed", "disabled"}

SweepRecord ==
  [pc : {"idle", "lock", "intent", "disable", "bootout", "record", "decide",
         "failed", "enable", "bootstrap", "unwound"},
   item : Requests \union {None}, seen : {"none", "approved", "pending"},
   restored : BOOLEAN]

IdleSweep == [pc |-> "idle", item |-> None, seen |-> "none", restored |-> FALSE]

FleetTypeOK ==
  /\ rows \in [Requests -> Row]
  /\ journal \in [Requests -> JournalState]
  /\ launchd \in [disabled : BOOLEAN, loaded : BOOLEAN]
  /\ holder \in Sweeps \union {None}
  /\ sweep \in [Sweeps -> SweepRecord]
  /\ incidents \subseteq Requests
  /\ faults \in 0 .. MaxFaults

FleetInit ==
  /\ rows = [i \in Requests |-> [status |-> "absent", reason |-> "none",
                               overdue |-> FALSE, recent |-> FALSE]]
  /\ journal = [i \in Requests |-> "none"]
  /\ launchd = EnabledLoaded
  /\ holder = None /\ sweep = [s \in Sweeps |-> IdleSweep]
  /\ incidents = {} /\ faults = 0

Fault == faults < MaxFaults /\ faults' = faults + 1

-----------------------------------------------------------------------------
(* The queue: the probe, the human and the calendar                        *)

\* enqueue_fleet_hitl: no open row, and none decided lately.
EnqueueFleetHitl(i) ==
  /\ rows[i].status = "absent"
  /\ launchd.loaded
  /\ \A j \in Requests : /\ rows[j].status \notin {"pending", "approved"}
                      /\ ~rows[j].recent
  /\ rows' = [rows EXCEPT ![i].status = "pending"]
  /\ UNCHANGED <<journal, launchd, holder, sweep, incidents, faults>>

Decided(i, status, by) ==
  [rows EXCEPT ![i] = [status |-> status, reason |-> by, overdue |-> FALSE,
                        recent |-> status /= "approved"]]

\* bushido_check.py --approve, --reject, --retire and --expire.
HumanReviews(i) ==
  /\ \/ /\ rows[i].status = "pending"
        /\ \E status \in {"approved", "rejected", "expired", "retired"} :
             rows' = Decided(i, status, "human")
     \/ /\ rows[i].status = "expired"
        /\ rows' = Decided(i, "retired", "human")
  /\ UNCHANGED <<journal, launchd, holder, sweep, incidents, faults>>

DaysPass(i) ==
  /\ \/ /\ rows[i].status = "pending" /\ ~rows[i].overdue
        /\ rows' = [rows EXCEPT ![i].overdue = TRUE]
     \/ /\ rows[i].recent /\ \A s \in Sweeps : sweep[s].pc = "idle"
        /\ rows' = [rows EXCEPT ![i].recent = FALSE]
  /\ UNCHANGED <<journal, launchd, holder, sweep, incidents, faults>>

-----------------------------------------------------------------------------
(* sweep_fleet_hitl                                                        *)

Due(i) == rows[i].status = "pending" /\ rows[i].overdue

\* Auto-disable is off, or the operator's registry forbids it.
SweepExpires(i) ==
  /\ Due(i)
  /\ rows' = Decided(i, "expired", "silence")
  /\ UNCHANGED <<journal, launchd, holder, sweep, incidents, faults>>

BeginRetirement(s, i) ==
  /\ sweep[s].pc = "idle"
  /\ rows[i].status = "approved" \/ Due(i)
  /\ sweep' = [sweep EXCEPT ![s] = [pc |-> "lock", item |-> i,
                                    seen |-> rows[i].status, restored |-> FALSE]]
  /\ UNCHANGED <<rows, journal, launchd, holder, incidents, faults>>

At(s, pc) == sweep[s].pc = pc

GoesTo(s, pc) == sweep' = [sweep EXCEPT ![s].pc = pc]

\* The transaction returns, or an exception leaves it: the lock goes.
Leaves(s) == sweep' = [sweep EXCEPT ![s] = IdleSweep] /\ holder' = None

LockJournal(s) ==
  /\ At(s, "lock")
  /\ \/ holder = None /\ holder' = s /\ GoesTo(s, "intent")
     \/ holder /= None /\ sweep' = [sweep EXCEPT ![s] = IdleSweep] /\ UNCHANGED holder
  /\ UNCHANGED <<rows, journal, launchd, incidents, faults>>

\* _record_retirement, of the sweep's own row.
Record(s, state) == journal' = [journal EXCEPT ![sweep[s].item] = state]

RecordIntent(s) ==
  /\ At(s, "intent")
  /\ \/ /\ Record(s, "intent") /\ GoesTo(s, "disable")
        /\ UNCHANGED <<holder, faults>>
     \/ Fault /\ Leaves(s) /\ UNCHANGED journal
  /\ UNCHANGED <<rows, launchd, incidents>>

\* _disable_launchd_job, to the end of `launchctl disable`.  What the sweep
\* cannot read it takes for not retired yet.
Disable(s) ==
  /\ At(s, "disable")
  /\ \/ /\ launchd = DisabledUnloaded
        /\ GoesTo(s, "record")
        /\ UNCHANGED <<launchd, faults>>
     \/ /\ IF launchd = DisabledUnloaded THEN Fault ELSE UNCHANGED faults
        /\ launchd' = [launchd EXCEPT !.disabled = TRUE]
        /\ GoesTo(s, "bootout")
     \/ /\ Fault
        /\ GoesTo(s, "failed")
        /\ UNCHANGED launchd
     \/ /\ Fault
        /\ launchd' \in {launchd, [launchd EXCEPT !.disabled = TRUE]}
        /\ GoesTo(s, "enable")
  /\ UNCHANGED <<rows, journal, holder, incidents>>

\* Mutant: a bootout that failed is taken for one that worked.
BootoutUnverified(s) ==
  /\ At(s, "bootout")
  /\ GoesTo(s, "record")
  /\ \/ launchd' = DisabledUnloaded /\ UNCHANGED faults
     \/ Fault /\ UNCHANGED launchd
  /\ UNCHANGED <<rows, journal, holder, incidents>>

\* `launchctl bootout`, which fails for a job that is not loaded, and the
\* look at the result.
Bootout(s) ==
  /\ At(s, "bootout")
  /\ \/ /\ launchd.loaded
        /\ launchd' = DisabledUnloaded
        /\ GoesTo(s, "record")
        /\ UNCHANGED faults
     \/ /\ launchd.loaded
        /\ Fault
        /\ launchd' \in {launchd, DisabledUnloaded}
        /\ GoesTo(s, "enable")
     \/ /\ ~launchd.loaded
        /\ GoesTo(s, "enable")
        /\ UNCHANGED <<launchd, faults>>
  /\ UNCHANGED <<rows, journal, holder, incidents>>

\* Nothing was changed, says the code, and the row says failed.
RecordFailed(s) ==
  /\ At(s, "failed")
  /\ Leaves(s)
  /\ \/ Record(s, "failed") /\ UNCHANGED faults
     \/ Fault /\ UNCHANGED journal
  /\ UNCHANGED <<rows, launchd, incidents>>

RecordDisabled(s) ==
  /\ At(s, "record")
  /\ \/ Record(s, "disabled") /\ GoesTo(s, "decide") /\ UNCHANGED faults
     \/ Fault /\ GoesTo(s, "enable") /\ UNCHANGED journal
  /\ UNCHANGED <<rows, launchd, holder, incidents>>

\* mark_complete does not look at the row's status; review_hitl does.
Accepts(s) ==
  \/ sweep[s].seen = "approved"
  \/ rows[sweep[s].item].status \in {"pending", "expired"}

Decide(s) ==
  /\ At(s, "decide")
  /\ \/ /\ Accepts(s)
        /\ rows' = IF sweep[s].seen = "approved"
                    THEN Decided(sweep[s].item, "done", "human")
                    ELSE Decided(sweep[s].item, "retired", "silence")
        /\ Leaves(s)
        /\ UNCHANGED faults
     \/ /\ IF Accepts(s) THEN Fault ELSE UNCHANGED faults
        /\ GoesTo(s, "enable")
        /\ UNCHANGED <<rows, holder>>
  /\ UNCHANGED <<journal, launchd, incidents>>

-----------------------------------------------------------------------------
(* _restore_launchd_job and _unwind                                        *)

Unwound(s, restored) ==
  sweep' = [sweep EXCEPT ![s].pc = "unwound", ![s].restored = restored]

\* An exit code of enable is not looked at; an exception ends the attempt.
Enable(s) ==
  /\ At(s, "enable")
  /\ \/ /\ launchd' = [launchd EXCEPT !.disabled = FALSE]
        /\ GoesTo(s, "bootstrap")
        /\ UNCHANGED faults
     \/ /\ Fault
        /\ GoesTo(s, "bootstrap")
        /\ UNCHANGED launchd
     \/ /\ Fault
        /\ launchd' \in {launchd, [launchd EXCEPT !.disabled = FALSE]}
        /\ Unwound(s, FALSE)
  /\ UNCHANGED <<rows, journal, holder, incidents>>

\* Mutant: the job is enabled and never started again.
BootstrapForgotten(s) ==
  /\ At(s, "bootstrap")
  /\ Unwound(s, launchd = EnabledLoaded)
  /\ UNCHANGED <<rows, journal, launchd, holder, incidents, faults>>

\* `launchctl bootstrap` refuses a disabled job; then the look at the result.
Bootstrap(s) ==
  /\ At(s, "bootstrap")
  /\ \/ /\ launchd' = IF launchd.disabled THEN launchd ELSE EnabledLoaded
        /\ Unwound(s, launchd' = EnabledLoaded)
        /\ UNCHANGED faults
     \/ /\ Fault
        /\ launchd' \in {launchd, IF launchd.disabled THEN launchd ELSE EnabledLoaded}
        /\ Unwound(s, FALSE)
  /\ UNCHANGED <<rows, journal, holder, incidents>>

RecordUnwound(s) ==
  /\ At(s, "unwound")
  /\ Leaves(s)
  /\ \/ /\ Record(s, IF sweep[s].restored THEN "rolled_back" ELSE "rollback_failed")
        /\ UNCHANGED <<incidents, faults>>
     \/ /\ Fault
        /\ incidents' = IF sweep[s].restored THEN incidents
                        ELSE incidents \union {sweep[s].item}
        /\ UNCHANGED journal
  /\ UNCHANGED <<rows, launchd>>

-----------------------------------------------------------------------------

SweepDies(s) ==
  /\ ~At(s, "idle")
  /\ Fault
  /\ sweep' = [sweep EXCEPT ![s] = IdleSweep]
  /\ holder' = IF holder = s THEN None ELSE holder
  /\ UNCHANGED <<rows, journal, launchd, incidents>>

SweepStep(s) ==
  \/ LockJournal(s) \/ RecordIntent(s)
  \/ Disable(s) \/ Bootout(s) \/ RecordFailed(s) \/ RecordDisabled(s)
  \/ Decide(s)
  \/ Enable(s) \/ Bootstrap(s) \/ RecordUnwound(s)

FleetNext ==
  \/ \E i \in Requests :
       EnqueueFleetHitl(i) \/ HumanReviews(i) \/ DaysPass(i) \/ SweepExpires(i)
  \/ \E s \in Sweeps :
       \/ \E i \in Requests : BeginRetirement(s, i)
       \/ SweepStep(s)
       \/ SweepDies(s)

FleetSpec == FleetInit /\ [][FleetNext]_fleetVars

\* launchd runs the sweep on a schedule, and a sweep that began goes on.
FleetFairness ==
  \A s \in Sweeps :
    /\ WF_fleetVars(SweepStep(s))
    /\ \A i \in Requests : WF_fleetVars(BeginRetirement(s, i))

FleetFairSpec == FleetSpec /\ FleetFairness

-----------------------------------------------------------------------------
(* Properties                                                              *)

SettledRow(i) ==
  \/ rows[i].status = "done"
  \/ rows[i].status = "retired" /\ rows[i].reason = "silence"

\* "The queue settles only once the disabled row is durable": whatever fails
\* and whoever dies, a row settled as disabled has a job that is disabled and
\* unloaded, and keeps it, and its journal entry says so.  Two sweeps at a time
\* break it: the one that read the row first finds its job retired, is refused
\* by the queue, and "restores" what the other had settled.
SettledIsDisabled ==
  \A i \in Requests : SettledRow(i) =>
    /\ launchd = DisabledUnloaded
    /\ holder = None => journal[i] = "disabled"

\* "Success is the observed state, never the exit codes": when every attempt
\* says it was rolled back, the job runs.
RolledBackRuns ==
  holder = None /\ (\A i \in Requests : journal[i] \in {"none", "rolled_back"})
    => launchd = EnabledLoaded

\* Whatever fails and whoever dies, what the queue and the journal say of a
\* job is what launchd has (bin/hitl_alerts.py:976-1198).
FleetInv == FleetTypeOK /\ SettledIsDisabled /\ RolledBackRuns

\* Faults being finitely many, a job the human chose to stop is stopped.
ApprovedIsDisabled ==
  \A i \in Requests : rows[i].status = "approved" ~> rows[i].status = "done"
=============================================================================
