---------------------------- MODULE RoninDaemon ----------------------------
(***************************************************************************)
(* bin/ronin-daemon.sh, started and stopped by `ronin arm` and `disarm` of *)
(* bin/ronin: a loop of unattended cycles between a stop file, a daily     *)
(* budget, a limit on failures and a ratchet on the validator's warnings.  *)
(*                                                                         *)
(* Abstractions.                                                           *)
(*  - Money is counted in cycles: each costs CYCLE_COST_USD, so DailyLimit *)
(*    is the number of cycles the daily budget pays for.                   *)
(*  - The tree is the number of warnings the validator finds in it, kept   *)
(*    the part `git checkout -- .` leaves: what a cycle commits, stages or *)
(*    adds stays.                                                          *)
(***************************************************************************)
EXTENDS Integers

CONSTANTS
  DailyLimit,   \* DAILY_BUDGET_USD / CYCLE_COST_USD
  MaxFails,     \* MAX_CONSECUTIVE_FAILS
  MaxWarns,     \* bound on the warnings a cycle can leave
  LastDay,      \* bound on the days
  MaxFull       \* bound on the times the disk is full

ASSUME DaemonAssumption ==
  /\ DailyLimit \in Nat \ {0} /\ MaxFails \in Nat \ {0}
  /\ MaxWarns \in Nat /\ LastDay \in Nat \ {0} /\ MaxFull \in Nat

OneMore(n, limit) == IF n > limit THEN n ELSE n + 1

NoVerdict == -1   \* the validator crashed, hung or printed no summary
NoLedger == 0     \* no ledger file
Unreadable == -1  \* a ledger that is no JSON

VARIABLES
  daemon,      \* [at, fails, prev, exit, dry]: where the loop is, failed
               \* cycles in a row, the baseline read before the cycle, the
               \* cycle's exit, MEDITATION_DRYRUN
  stop,        \* MEDITATION_STOP
  ledger,      \* [day, spent]: budget_ledger.json
  today,
  tree,        \* [work, kept]: warnings now, and after `git checkout -- .`
  baseline,    \* daemon_warn_baseline.txt
  approved,    \* the backlog has an approved item
  unrecorded,  \* cycles run since one's cost was recorded
  paid,        \* cycles record_cycle_cost was called for today; both count
               \* as far as one past their limit
  full         \* times the disk was full

daemonVars ==
  <<daemon, stop, ledger, today, tree, baseline, approved, unrecorded, paid, full>>

Warns == {NoVerdict} \union 0 .. MaxWarns
Exits == {"ok", "timeout", "failed"}

Daemons ==
  [at : {"off", "gate", "cycle", "judge", "over"}, fails : 0 .. MaxFails,
   prev : 0 .. MaxWarns, exit : Exits, dry : BOOLEAN]

DaemonTypeOK ==
  /\ daemon \in Daemons
  /\ stop \in BOOLEAN /\ approved \in BOOLEAN
  /\ ledger \in [day : Unreadable .. LastDay, spent : 0 .. DailyLimit]
  /\ today \in 1 .. LastDay
  /\ tree \in [work : Warns, kept : Warns]
  /\ baseline \in 0 .. MaxWarns
  /\ unrecorded \in 0 .. MaxFails + 1 /\ paid \in 0 .. DailyLimit + 1 /\ full \in 0 .. MaxFull

DaemonInit ==
  /\ \E dry \in BOOLEAN :
       daemon = [at |-> "off", fails |-> 0, prev |-> 0, exit |-> "ok", dry |-> dry]
  /\ stop \in BOOLEAN /\ approved = TRUE
  /\ ledger \in {[day |-> NoLedger, spent |-> 0], [day |-> 1, spent |-> DailyLimit - 1]}
  /\ today = 1
  /\ \E w \in Warns : tree = [work |-> w, kept |-> w]
  /\ baseline = 0
  /\ unrecorded = 0 /\ full = 0
  /\ paid = ledger.spent

-----------------------------------------------------------------------------

\* Mutant: every look at the ledger resets it.
ResetBudgetLedger == [day |-> today, spent |-> 0]

\* init_budget_ledger: whatever does not bear today's date is reset.
InitBudgetLedger ==
  IF ledger.day = today THEN ledger ELSE [day |-> today, spent |-> 0]

CheckBudget(l) == l.day > NoLedger /\ l.spent < DailyLimit

\* The daemon is started, by `arm` or by hand, and refuses to go on without
\* a verdict of the validator.
StartDaemon ==
  /\ daemon.at = "off"
  /\ ledger' = InitBudgetLedger
  /\ IF tree.work = NoVerdict
     THEN daemon' = [daemon EXCEPT !.at = "over"] /\ UNCHANGED baseline
     ELSE daemon' = [daemon EXCEPT !.at = "gate"] /\ baseline' = tree.work
  /\ stop' \in {stop, FALSE}
  /\ UNCHANGED <<today, tree, approved, unrecorded, paid, full>>

\* `arm` lifts the stop before it finds the daemon running.
ArmAgain ==
  /\ daemon.at \in {"gate", "cycle", "judge"}
  /\ stop /\ stop' = FALSE
  /\ UNCHANGED <<daemon, ledger, today, tree, baseline, approved, unrecorded,
                 paid, full>>

\* The stop file, made by `disarm` or by the cycle itself; `disarm` also
\* ends the daemon if daemon.pid names it.
Disarm ==
  /\ ~stop /\ stop' = TRUE
  /\ daemon' \in {daemon, [daemon EXCEPT !.at = "over"]}
  /\ UNCHANGED <<ledger, today, tree, baseline, approved, unrecorded, paid, full>>

\* The gates before a cycle, in the order of the loop.
Gate ==
  /\ daemon.at = "gate"
  /\ LET l == InitBudgetLedger
         go == ~stop /\ CheckBudget(l) /\ daemon.fails < MaxFails /\ approved
     IN /\ ledger' = IF stop THEN ledger ELSE l
        /\ daemon' = [daemon EXCEPT !.at = IF go THEN "cycle" ELSE "over",
                                    !.prev = IF go THEN baseline ELSE @]
  /\ UNCHANGED <<stop, today, tree, baseline, approved, unrecorded, paid, full>>

\* `claude -p` under tmo: it leaves any tree and any exit.
Cycle ==
  /\ daemon.at = "cycle"
  /\ \E w \in Warns, exit \in Exits :
       /\ daemon' = [daemon EXCEPT !.at = "judge", !.exit = exit]
       /\ \E k \in {tree.kept, w} : tree' = [work |-> w, kept |-> k]
  /\ UNCHANGED <<stop, ledger, today, baseline, approved, unrecorded, paid, full>>

\* Mutant: the warnings are not compared.
AnyVerdictPasses == tree.work = NoVerdict

Rejected == tree.work = NoVerdict \/ tree.work > daemon.prev

\* Mutant: a discarded cycle is not a failed one.
DiscardUncounted ==
  /\ daemon.at = "judge" /\ Rejected
  /\ tree' = [tree EXCEPT !.work = tree.kept]
  /\ daemon' = [daemon EXCEPT !.at = "gate", !.exit = "ok"]
  /\ unrecorded' = OneMore(unrecorded, MaxFails)
  /\ UNCHANGED <<stop, ledger, today, baseline, approved, paid, full>>

\* The ratchet trips, or the validator gives no verdict: `git checkout -- .`
\* and on to the next cycle, past record_cycle_cost.
Discard ==
  /\ daemon.at = "judge" /\ Rejected
  /\ tree' = [tree EXCEPT !.work = tree.kept]
  /\ daemon' = [daemon EXCEPT !.at = "gate", !.fails = @ + 1, !.exit = "ok"]
  /\ unrecorded' = OneMore(unrecorded, MaxFails)
  /\ UNCHANGED <<stop, ledger, today, baseline, approved, paid, full>>

\* record_cycle_cost opens the ledger for writing before it writes: on a
\* full disk it leaves an empty file.
RecordCycleCost ==
  \/ /\ ledger' = [ledger EXCEPT !.spent = @ + 1]
     /\ full' = full
  \/ /\ full < MaxFull /\ full' = full + 1
     /\ ledger' = [day |-> Unreadable, spent |-> 0]

\* A cycle the ratchet lets pass is paid for and classified by its exit.
Accept ==
  /\ daemon.at = "judge" /\ ~Rejected
  /\ baseline' = tree.work
  /\ RecordCycleCost
  /\ paid' = IF ledger.day = today THEN OneMore(paid, DailyLimit) ELSE paid
  /\ unrecorded' = 0
  /\ daemon' = [daemon EXCEPT !.at = IF daemon.dry THEN "over" ELSE "gate", !.exit = "ok",
                              !.fails = IF daemon.exit = "ok" THEN 0 ELSE @ + 1]
  /\ UNCHANGED <<stop, today, tree, approved>>

Midnight ==
  /\ today < LastDay /\ today' = today + 1 /\ paid' = 0
  /\ UNCHANGED <<daemon, stop, ledger, tree, baseline, approved, unrecorded, full>>

\* The backlog runs empty, or a human approves some of it (module Backlog).
BacklogChanges ==
  /\ daemon.at \in {"off", "gate", "cycle", "judge"}
  /\ approved' = ~approved
  /\ UNCHANGED <<daemon, stop, ledger, today, tree, baseline, unrecorded, paid,
                 full>>

DaemonStep == StartDaemon \/ Gate \/ Cycle \/ Discard \/ Accept

DaemonNext == DaemonStep \/ ArmAgain \/ Disarm \/ Midnight \/ BacklogChanges

DaemonSpec == DaemonInit /\ [][DaemonNext]_daemonVars /\ WF_daemonVars(DaemonStep)

-----------------------------------------------------------------------------
(* Properties                                                              *)

\* A cycle the daemon throws away has cost its money and is in no ledger:
\* what bounds such cycles is the limit on failures, so that no more than
\* MaxFails of them lie between two that are recorded (bin/ronin-daemon.sh:
\* 314-334, 271-274).
UnrecordedIsBounded == unrecorded <= MaxFails

\* The counters and the ledger stay within what the gates leave them
\* (bin/ronin-daemon.sh:251-274).
DaemonInv == DaemonTypeOK /\ UnrecordedIsBounded

\* While a daemon runs, the warnings it accepts never rise, whatever a cycle
\* commits past `git checkout -- .` (bin/ronin-daemon.sh:323-337).
RatchetHolds == [][daemon.at # "off" => baseline' <= baseline]_daemonVars

\* Every way round the loop spends a day's money or a failure, so the daemon
\* comes to a halt once days and full disks have ended (bin/ronin-daemon.sh:
\* 251-372).
DaemonHalts == <>(daemon.at = "over")

\* The cycles recorded on one day stay within the daily budget: "an
\* unreadable ledger must stop spending, not silently disable the daily cap"
\* (bin/ronin-daemon.sh:123-124).
DailyCapHolds == paid <= DailyLimit
=============================================================================
