------------------------------- MODULE Refresh -------------------------------
(* refresh_dashboard.py without its history (see History): several run at the   *)
(* same time, since the server starts one every 15 minutes, every manual run    *)
(* starts one when it is done, and the reflex engine waits for one of its own   *)
(* after a repair, to read from the payload whether the repair helped.          *)
(* The metric is breached or not; a row of exec_log.jsonl is named by its       *)
(* timestamp, its place in the log.                                             *)
EXTENDS Naturals, FiniteSets

CONSTANTS
  Jobs,         \* processes of refresh_dashboard.py
  Own,          \* the one the engine waits for
  MaxExecRows,  \* bound: rows of exec_log.jsonl
  MaxRepairs,   \* bound: runs of the engine
  MaxShifts,    \* bound: times the metric changes by itself
  MaxStarts,    \* bound: refreshes nobody waits for
  MaxFaults     \* bound: refreshes that die, events that cannot be written, and
                \* watermarks that cannot be read or written

ASSUME RefreshAssumption ==
  /\ Own \in Jobs
  /\ {MaxExecRows, MaxRepairs, MaxShifts, MaxStarts, MaxFaults} \subseteq Nat

VARIABLES
  breached,   \* the metric breaches its rule
  execRows,   \* the rows of exec_log.jsonl
  watermark,  \* .mechanism_run_watermark
  bridged,    \* how many mechanism_run events each row has become
  refresh,    \* per job: where it is and what it holds
  data,       \* Data/wid_payload.json: is the reflex in it, and since when
  wid,        \* the copy in dashboard-ui/public, which the engine reads
  repair,     \* the engine's run
  room,       \* what is left of the bounds
  tangled     \* history: two refreshes bridged at once, one died doing it, or the
              \* watermark could not be read or written

refreshVars == <<breached, execRows, watermark, bridged, refresh, data, wid, repair,
                 room, tangled>>

JobPlaces == {"none", "bridge", "mark", "measure", "publish", "copy", "fill"}

NoJob == [at |-> "none", last |-> 0, upto |-> 0, newest |-> 0,
          seen |-> FALSE, since |-> 0, over |-> FALSE]

NoRepair == [at |-> "none", before |-> FALSE, begun |-> 0, helped |-> FALSE,
             verdict |-> "none", read |-> 0, late |-> FALSE, misread |-> FALSE]

RefreshTypeOK ==
  /\ breached \in BOOLEAN /\ tangled \in BOOLEAN
  /\ execRows \in 0 .. MaxExecRows /\ watermark \in 0 .. execRows
  /\ bridged \in [1 .. MaxExecRows -> Nat]
  /\ \A j \in Jobs :
       /\ refresh[j].at \in JobPlaces
       /\ {refresh[j].last, refresh[j].upto, refresh[j].newest} \subseteq 0 .. execRows
  /\ data \in [breached : BOOLEAN, since : 0 .. MaxRepairs]
  /\ wid \in [breached : BOOLEAN, since : 0 .. MaxRepairs, torn : BOOLEAN]
  /\ repair \in [at : {"none", "run", "refresh"}, before : BOOLEAN,
                 begun : 0 .. MaxRepairs, helped : BOOLEAN,
                 verdict : {"none", "improved", "not"}, read : 0 .. MaxRepairs,
                 late : BOOLEAN, misread : BOOLEAN]
  /\ room \in [rows : 0 .. MaxExecRows, shifts : 0 .. MaxShifts,
               starts : 0 .. MaxStarts, faults : 0 .. MaxFaults]

RefreshInit ==
  /\ breached = TRUE /\ execRows = 0 /\ watermark = 0
  /\ bridged = [i \in 1 .. MaxExecRows |-> 0]
  /\ refresh = [j \in Jobs |-> NoJob]
  /\ data = [breached |-> TRUE, since |-> 0]
  /\ wid = [breached |-> TRUE, since |-> 0, torn |-> FALSE]
  /\ repair = NoRepair
  /\ room = [rows |-> MaxExecRows, shifts |-> MaxShifts, starts |-> MaxStarts,
             faults |-> MaxFaults]
  /\ tangled = FALSE

-----------------------------------------------------------------------------
(* The metric and the manual runs                                            *)

\* The metric moves by itself, while the engine waits it may get better.
Shift ==
  /\ room.shifts > 0
  /\ breached' = ~breached
  /\ room' = [room EXCEPT !.shifts = @ - 1]
  /\ repair' = [repair EXCEPT !.helped = @ \/ breached]
  /\ UNCHANGED <<execRows, watermark, bridged, refresh, data, wid, tangled>>

\* One more row, for which some run has reserved the room.
Logged == execRows' = execRows + 1

\* A job reads the watermark, or takes one it cannot read for none, and then the log.
Reads(upto, unread) ==
  LET last == IF unread THEN 0 ELSE watermark
  IN [NoJob EXCEPT !.at = "bridge", !.last = last, !.newest = last, !.upto = upto]

\* What is left of the bounds when the watermark cannot be read.
Spent(unread) ==
  [room EXCEPT !.faults = IF unread THEN @ - 1 ELSE @]

\* Somebody else is between its watermark and its own.
Bridging(j) == \E k \in Jobs \ {j} : refresh[k].at \in {"bridge", "mark"}

\* A refresh nobody waits for: the periodic one, or that of a manual run which has
\* just logged its row.
Start(j, unread) ==
  /\ j # Own /\ refresh[j].at = "none" /\ room.starts > 0
  /\ unread => room.faults > 0
  /\ \/ room' = [Spent(unread) EXCEPT !.starts = @ - 1] /\ UNCHANGED execRows
     \/ /\ room.rows > 0
        /\ room' = [Spent(unread) EXCEPT !.starts = @ - 1, !.rows = @ - 1]
        /\ Logged
  /\ refresh' = [refresh EXCEPT ![j] = Reads(execRows', unread)]
  /\ tangled' = (tangled \/ Bridging(j) \/ unread)
  /\ UNCHANGED <<breached, watermark, bridged, data, wid, repair>>

-----------------------------------------------------------------------------
(* One refresh                                                               *)

\* The next row becomes an event.
Bridge(j) ==
  LET i == refresh[j].newest + 1 IN
  /\ refresh[j].at = "bridge" /\ i <= refresh[j].upto
  /\ bridged' = [bridged EXCEPT ![i] = @ + 1]
  /\ refresh' = [refresh EXCEPT ![j].newest = i]
  /\ UNCHANGED <<breached, execRows, watermark, data, wid, repair, room, tangled>>

\* An event that cannot be appended ends the loop.
BridgeFails(j) ==
  /\ refresh[j].at = "bridge" /\ refresh[j].newest < refresh[j].upto
  /\ room.faults > 0
  /\ room' = [room EXCEPT !.faults = @ - 1]
  /\ refresh' = [refresh EXCEPT ![j].at = "mark"]
  /\ UNCHANGED <<breached, execRows, watermark, bridged, data, wid, repair,
                 tangled>>

\* A job has no more rows to bridge.
BridgeEnds(j) ==
  \/ refresh[j].at = "mark"
  \/ refresh[j].at = "bridge" /\ refresh[j].newest = refresh[j].upto

\* The watermark moves to the newest event this job wrote, if it wrote one.
Mark(j) ==
  /\ BridgeEnds(j)
  /\ watermark' = IF refresh[j].newest # refresh[j].last
                    THEN refresh[j].newest ELSE watermark
  /\ refresh' = [refresh EXCEPT ![j] = [NoJob EXCEPT !.at = "measure"]]
  /\ UNCHANGED <<breached, execRows, bridged, data, wid, repair, room, tangled>>

\* It cannot be written: it stays, or is cut to nothing or to a part of a timestamp,
\* which is a place at or before the one meant.  The refresh carries on.
MarkFails(j) ==
  /\ BridgeEnds(j) /\ refresh[j].newest # refresh[j].last /\ room.faults > 0
  /\ room' = [room EXCEPT !.faults = @ - 1]
  /\ watermark' \in {watermark} \union 0 .. refresh[j].newest
  /\ refresh' = [refresh EXCEPT ![j] = [NoJob EXCEPT !.at = "measure"]]
  /\ tangled' = TRUE
  /\ UNCHANGED <<breached, execRows, bridged, data, wid, repair>>

\* aggregate(): the metric as it is now.
Gauge(j) ==
  /\ refresh[j].at = "measure"
  /\ refresh' = [refresh EXCEPT ![j].at = "publish", ![j].seen = breached,
                                ![j].since = repair.begun]
  /\ UNCHANGED <<breached, execRows, watermark, bridged, data, wid, repair, room,
                 tangled>>

\* write_payload(): whoever comes last, at one stroke.
Publish(j) ==
  /\ refresh[j].at = "publish"
  /\ data' = [breached |-> refresh[j].seen, since |-> refresh[j].since]
  /\ refresh' = [refresh EXCEPT ![j].at = "copy"]
  /\ UNCHANGED <<breached, execRows, watermark, bridged, wid, repair, room,
                 tangled>>

\* copyfile() opens what is there now, and cuts the copy to nothing.
Copy(j) ==
  /\ refresh[j].at = "copy"
  /\ refresh' = [refresh EXCEPT ![j].at = "fill", ![j].seen = data.breached,
                                ![j].since = data.since]
  /\ wid' = [wid EXCEPT !.torn = TRUE]
  /\ UNCHANGED <<breached, execRows, watermark, bridged, data, repair, room,
                 tangled>>

Filling(j) == {k \in Jobs \ {j} : refresh[k].at = "fill"}

\* The copy is written.  Beside another that writes it too it stays torn, and what
\* the last of them leaves may be the tail of a longer one.
Fill(j) ==
  /\ refresh[j].at = "fill"
  /\ \E torn \in IF Filling(j) # {} THEN {TRUE}
                 ELSE IF refresh[j].over THEN BOOLEAN ELSE {FALSE} :
       wid' = [breached |-> refresh[j].seen, since |-> refresh[j].since, torn |-> torn]
  /\ refresh' = [k \in Jobs |->
                   IF k = j THEN NoJob
                   ELSE IF k \in Filling(j) THEN [refresh[k] EXCEPT !.over = TRUE]
                   ELSE refresh[k]]
  /\ UNCHANGED <<breached, execRows, watermark, bridged, data, repair, room,
                 tangled>>

\* A job dies: the engine gives its own 60 s, a payload breaks its schema.
JobDies(j) ==
  /\ refresh[j].at # "none" /\ room.faults > 0
  /\ room' = [room EXCEPT !.faults = @ - 1]
  /\ refresh' = [refresh EXCEPT ![j] = NoJob]
  /\ tangled' = (tangled \/ refresh[j].at \in {"bridge", "mark"})
  /\ repair' = IF j = Own THEN [repair EXCEPT !.late = TRUE] ELSE repair
  /\ UNCHANGED <<breached, execRows, watermark, bridged, data, wid>>

-----------------------------------------------------------------------------
(* The engine's repair                                                       *)

\* Some job holds a measurement made before the repair that now begins.
OthersAreLate == \E j \in Jobs : refresh[j].at \in {"publish", "copy", "fill"}

\* The reflex was in the payload when it was queued: its repair begins, and what the
\* payload holds now is kept.
BeginRepair ==
  /\ repair.at = "none" /\ repair.begun < MaxRepairs /\ wid.breached
  /\ room.rows > 0
  /\ repair' = [NoRepair EXCEPT !.at = "run", !.before = wid.breached /\ ~wid.torn,
                                !.begun = repair.begun + 1, !.helped = ~breached,
                                !.late = OthersAreLate]
  /\ room' = [room EXCEPT !.rows = @ - 1]
  /\ UNCHANGED <<breached, execRows, watermark, bridged, refresh, data, wid,
                 tangled>>

\* A clean end, whether it helped or not: the engine starts its refresh and waits.
RepairIsDone(unread) ==
  /\ repair.at = "run" /\ (unread => room.faults > 0)
  /\ \E fixes \in BOOLEAN :
       /\ breached' = (breached /\ ~fixes)
       /\ repair' = [repair EXCEPT !.at = "refresh",
                                   !.helped = @ \/ (breached /\ fixes)]
  /\ refresh' = [refresh EXCEPT ![Own] = Reads(execRows, unread)]
  /\ room' = Spent(unread)
  /\ tangled' = (tangled \/ Bridging(Own) \/ unread)
  /\ UNCHANGED <<execRows, watermark, bridged, data, wid>>

\* An error or a timeout never counts as an improvement, and nothing is refreshed.
RepairFails ==
  /\ repair.at = "run"
  /\ repair' = [repair EXCEPT !.at = "none", !.before = FALSE, !.verdict = "not",
                              !.read = @, !.helped = FALSE, !.late = TRUE]
  /\ Logged
  /\ UNCHANGED <<breached, watermark, bridged, refresh, data, wid, room, tangled>>

\* Mutant: the engine does not wait.
JudgedEarly == repair.at = "refresh"

\* The engine waits until its own refresh is over, however it ended.
OwnHasEnded == repair.at = "refresh" /\ refresh[Own].at = "none"

\* The reflex was there before the run and is gone from the payload; in one that
\* cannot be parsed there is none.
Judge ==
  /\ OwnHasEnded
  /\ repair' = [repair EXCEPT
                  !.at = "none", !.before = FALSE, !.read = wid.since,
                  !.misread = wid.torn,
                  !.verdict = IF repair.before /\ (wid.torn \/ ~wid.breached)
                                THEN "improved" ELSE "not"]
  /\ Logged
  /\ UNCHANGED <<breached, watermark, bridged, refresh, data, wid, room, tangled>>

RefreshNext ==
  \/ Shift \/ BeginRepair \/ RepairFails \/ Judge
  \/ \E unread \in BOOLEAN : RepairIsDone(unread) \/ \E j \in Jobs : Start(j, unread)
  \/ \E j \in Jobs :
       Bridge(j) \/ BridgeFails(j) \/ Mark(j) \/ MarkFails(j) \/ Gauge(j)
       \/ Publish(j) \/ Copy(j) \/ Fill(j) \/ JobDies(j)

RefreshSpec == RefreshInit /\ [][RefreshNext]_refreshVars

-----------------------------------------------------------------------------
(* What the refresh promises                                                 *)

\* The watermark never passes a row that has not become an event: no run of the
\* engine is missing from Mechanism_Liveness (refresh_dashboard.py:79-82).
MarkedRunsAreBridged == \A i \in 1 .. watermark : bridged[i] >= 1

\* A row becomes two events only if two refreshes bridged at the same time, one died
\* before it moved the watermark, or the watermark could not be read or written.
BridgedOnce == tangled \/ \A i \in 1 .. MaxExecRows : bridged[i] <= 1

\* The engine judges its run by what was measured after it began, and calls it an
\* improvement only if the metric then got better; unless its own refresh ran out of
\* time, one that had measured before the run wrote its payload over it, or another
\* was writing the copy.
VerdictIsEarned ==
  repair.verdict # "none" /\ ~repair.late /\ ~repair.misread =>
    /\ repair.read = repair.begun
    /\ repair.verdict = "improved" => repair.helped

\* "atomic write so the TS reflex-engine (chokidar watcher on this file) cannot read a
\* torn payload mid-write" (aggregate.py:1066-1067): no verdict is read from one.
NoTornVerdict == ~repair.misread

RefreshInv ==
  /\ RefreshTypeOK
  /\ MarkedRunsAreBridged /\ BridgedOnce /\ VerdictIsEarned
=============================================================================
