------------------------------ MODULE Records_proofs ------------------------------
(* Theorems about the refresh (Refresh), the history it keeps (History) and what    *)
(* reaches the human (Alerts), each for any values of its constants: the engine is  *)
(* judged by what was measured after its run, what a week once said is never taken  *)
(* back, and nobody is told more often than loads or saves were lost.               *)
EXTENDS Refresh, History, Alerts, FiniteSetTheorems, SequenceTheorems,
        WellFoundedInduction, TLAPS

-----------------------------------------------------------------------------
(* What the payload says of a run                                             *)

\* A refresh under way.
JobRecords ==
  [at : JobPlaces, last : Nat, upto : Nat, newest : Nat, seen : BOOLEAN,
   since : 0 .. MaxRepairs, over : BOOLEAN]

\* Between its watermark and its own.
Bridges(j) == refresh[j].at \in {"bridge", "mark"}

\* The run of the engine has reserved a row; a job is behind the log, and before it
\* read the watermark or after it wrote its own it holds nothing of it.
RowsAreReserved ==
  /\ refresh \in [Jobs -> JobRecords]
  /\ repair.at = "none" => execRows + room.rows = MaxExecRows
  /\ repair.at # "none" => execRows + room.rows + 1 = MaxExecRows
  /\ \A j \in Jobs : refresh[j].newest <= refresh[j].upto

\* What a job holds as bridged is.
HeldRunsAreBridged ==
  \A j \in Jobs : \A i \in 1 .. refresh[j].newest : bridged[i] >= 1

\* Until refreshes get tangled one bridges at a time, from the watermark on.
OneBridges ==
  ~tangled =>
    /\ \A j, k \in Jobs : Bridges(j) /\ Bridges(k) => j = k
    /\ \A j \in Jobs : Bridges(j) =>
         /\ refresh[j].last = watermark
         /\ \A i \in 1 .. MaxExecRows : i > refresh[j].newest => bridged[i] = 0
    /\ (\A j \in Jobs : ~Bridges(j)) =>
         \A i \in 1 .. MaxExecRows : i > watermark => bridged[i] = 0

\* A measurement made since the run began, by which the metric got better only if
\* it did.
Fair(moment, shown) == moment = repair.begun /\ (~shown => repair.helped)

\* The engine waits for a refresh of its own only after its run.
OwnIsAwaited ==
  /\ repair.at # "refresh" => refresh[Own].at = "none"
  /\ repair.at # "none" => repair.verdict = "none" /\ (breached \/ repair.helped)

\* While the engine waits, and unless some job had measured before, whatever is on
\* its way into the payload is fair, and so is the payload when its own job is over.
MeasuresAreFair ==
  repair.at # "none" /\ ~repair.late =>
    /\ \A j \in Jobs : refresh[j].at \in {"publish", "fill"}
                         => Fair(refresh[j].since, refresh[j].seen)
    /\ (\E j \in Jobs : refresh[j].at = "copy") => Fair(data.since, data.breached)
    /\ OwnHasEnded => Fair(wid.since, wid.breached)

RefreshIInv ==
  /\ RefreshTypeOK /\ RowsAreReserved
  /\ MarkedRunsAreBridged /\ BridgedOnce /\ HeldRunsAreBridged /\ OneBridges
  /\ OwnIsAwaited /\ MeasuresAreFair /\ VerdictIsEarned

-----------------------------------------------------------------------------

\* The fields of a job and of the other records.
LEMMA RefreshFields ==
  ASSUME RefreshIInv
  PROVE  /\ refresh \in [Jobs -> JobRecords]
         /\ \A j \in Jobs :
              /\ refresh[j].at \in JobPlaces
              /\ {refresh[j].last, refresh[j].upto, refresh[j].newest} \subseteq 0 .. execRows
              /\ refresh[j].newest <= refresh[j].upto
         /\ execRows \in Nat /\ watermark \in 0 .. execRows
         /\ MaxExecRows \in Nat /\ execRows <= MaxExecRows
         /\ bridged \in [1 .. MaxExecRows -> Nat] /\ repair.begun \in 0 .. MaxRepairs
         /\ {room.rows, room.shifts, room.starts, room.faults} \subseteq Nat
<1>1. refresh \in [Jobs -> JobRecords] /\ \A j \in Jobs : refresh[j].newest <= refresh[j].upto
  BY DEF RefreshIInv, RowsAreReserved
<1>2. /\ \A j \in Jobs :
           /\ refresh[j].at \in JobPlaces
           /\ {refresh[j].last, refresh[j].upto, refresh[j].newest} \subseteq 0 .. execRows
      /\ bridged \in [1 .. MaxExecRows -> Nat] /\ watermark \in 0 .. execRows
      /\ execRows \in 0 .. MaxExecRows
  BY DEF RefreshIInv, RefreshTypeOK
<1>3. MaxExecRows \in Nat /\ execRows \in Nat /\ execRows <= MaxExecRows
  BY <1>2, RefreshAssumption
<1>4. repair.begun \in 0 .. MaxRepairs
  BY DEF RefreshIInv, RefreshTypeOK
<1>5. {room.rows, room.shifts, room.starts, room.faults} \subseteq Nat
  BY RefreshAssumption DEF RefreshIInv, RefreshTypeOK
<1> QED
  BY <1>1, <1>2, <1>3, <1>4, <1>5

\* A job that holds nothing of the log.
LEMMA FreshJobs ==
  ASSUME NEW at \in JobPlaces
  PROVE  /\ NoJob \in JobRecords /\ NoJob.at = "none" /\ NoJob.newest = 0
         /\ NoJob.last = 0 /\ NoJob.upto = 0
         /\ [NoJob EXCEPT !.at = at] \in JobRecords
         /\ [NoJob EXCEPT !.at = at].at = at /\ [NoJob EXCEPT !.at = at].newest = 0
         /\ [NoJob EXCEPT !.at = at].last = 0 /\ [NoJob EXCEPT !.at = at].upto = 0
<1>1. 0 \in Nat /\ 0 \in 0 .. MaxRepairs /\ FALSE \in BOOLEAN /\ "none" \in JobPlaces
  BY RefreshAssumption DEF JobPlaces
<1>2. NoJob \in JobRecords
  BY <1>1 DEF NoJob, JobRecords
<1>3. /\ NoJob.at = "none" /\ NoJob.newest = 0 /\ NoJob.last = 0 /\ NoJob.upto = 0
  BY DEF NoJob
<1> QED
  BY <1>2, <1>3 DEF JobRecords

\* A job that has just read the watermark and the log.
LEMMA ReadJobs ==
  ASSUME RefreshIInv, NEW upto \in Nat, NEW unread \in BOOLEAN
  PROVE  LET r == Reads(upto, unread) IN
         /\ r \in JobRecords /\ r.at = "bridge" /\ r.upto = upto
         /\ r.last = r.newest /\ r.last \in {0, watermark}
         /\ ~unread => r.last = watermark
<1>1. watermark \in Nat /\ "bridge" \in JobPlaces
  BY RefreshFields DEF JobPlaces
<1>2. NoJob \in JobRecords
  BY <1>1, FreshJobs
<1> QED
  BY <1>1, <1>2 DEF JobRecords, Reads

-----------------------------------------------------------------------------

\* The jobs; the log, the watermark and what is reserved; and everything else.
JobsAreTyped ==
  /\ refresh \in [Jobs -> JobRecords]
  /\ \A j \in Jobs :
       /\ {refresh[j].last, refresh[j].upto, refresh[j].newest} \subseteq 0 .. execRows
       /\ refresh[j].newest <= refresh[j].upto

LogIsTyped ==
  /\ execRows \in 0 .. MaxExecRows /\ watermark \in 0 .. execRows
  /\ bridged \in [1 .. MaxExecRows -> Nat]
  /\ repair.at = "none" => execRows + room.rows = MaxExecRows
  /\ repair.at # "none" => execRows + room.rows + 1 = MaxExecRows

RepairRecords ==
  [at : {"none", "run", "refresh"}, before : BOOLEAN, begun : 0 .. MaxRepairs,
   helped : BOOLEAN, verdict : {"none", "improved", "not"}, read : 0 .. MaxRepairs,
   late : BOOLEAN, misread : BOOLEAN]
RoomRecords ==
  [rows : 0 .. MaxExecRows, shifts : 0 .. MaxShifts, starts : 0 .. MaxStarts,
   faults : 0 .. MaxFaults]

PayloadIsTyped ==
  /\ breached \in BOOLEAN /\ tangled \in BOOLEAN
  /\ data \in [breached : BOOLEAN, since : 0 .. MaxRepairs]
  /\ wid \in [breached : BOOLEAN, since : 0 .. MaxRepairs, torn : BOOLEAN]
  /\ repair \in RepairRecords /\ room \in RoomRecords

\* The types, part by part.
LEMMA TypesAreThree ==
  RefreshTypeOK /\ RowsAreReserved <=> JobsAreTyped /\ LogIsTyped /\ PayloadIsTyped
<1>1. ASSUME refresh \in [Jobs -> JobRecords] PROVE \A j \in Jobs : refresh[j].at \in JobPlaces
  BY <1>1 DEF JobRecords
<1> QED
  BY <1>1 DEF RefreshTypeOK, RowsAreReserved, JobsAreTyped, LogIsTyped, PayloadIsTyped,
         RepairRecords, RoomRecords

\* The same of the next state.
LEMMA TypesAreThreeNext ==
  RefreshTypeOK' /\ RowsAreReserved' <=> JobsAreTyped' /\ LogIsTyped' /\ PayloadIsTyped'
<1>1. ASSUME refresh' \in [Jobs -> JobRecords] PROVE \A j \in Jobs : refresh'[j].at \in JobPlaces
  BY <1>1 DEF JobRecords
<1> QED
  BY <1>1 DEF RefreshTypeOK, RowsAreReserved, JobsAreTyped, LogIsTyped, PayloadIsTyped,
         RepairRecords, RoomRecords

\* One less of a bound.
LEMMA RoomShrinks ==
  ASSUME NEW r \in RoomRecords
  PROVE  /\ {r.rows, r.shifts, r.starts, r.faults} \subseteq Nat
         /\ r.rows > 0 => [r EXCEPT !.rows = @ - 1] \in RoomRecords
         /\ r.shifts > 0 => [r EXCEPT !.shifts = @ - 1] \in RoomRecords
         /\ r.starts > 0 => [r EXCEPT !.starts = @ - 1] \in RoomRecords
         /\ r.faults > 0 => [r EXCEPT !.faults = @ - 1] \in RoomRecords
         /\ r.starts > 0 /\ r.rows > 0
              => [r EXCEPT !.starts = @ - 1, !.rows = @ - 1] \in RoomRecords
<1>1. {MaxExecRows, MaxShifts, MaxStarts, MaxFaults} \subseteq Nat
  BY RefreshAssumption
<1>2. /\ r.rows \in 0 .. MaxExecRows /\ r.shifts \in 0 .. MaxShifts
      /\ r.starts \in 0 .. MaxStarts /\ r.faults \in 0 .. MaxFaults
  BY DEF RoomRecords
<1>3. /\ r.rows > 0 => r.rows - 1 \in 0 .. MaxExecRows
      /\ r.shifts > 0 => r.shifts - 1 \in 0 .. MaxShifts
      /\ r.starts > 0 => r.starts - 1 \in 0 .. MaxStarts
      /\ r.faults > 0 => r.faults - 1 \in 0 .. MaxFaults
  BY <1>1, <1>2
<1>4. {r.rows, r.shifts, r.starts, r.faults} \subseteq Nat
  BY <1>1, <1>2
<1>5. r.rows > 0 => [r EXCEPT !.rows = @ - 1] \in RoomRecords
  BY <1>3 DEF RoomRecords
<1>6. r.shifts > 0 => [r EXCEPT !.shifts = @ - 1] \in RoomRecords
  BY <1>3 DEF RoomRecords
<1>7. r.starts > 0 => [r EXCEPT !.starts = @ - 1] \in RoomRecords
  BY <1>3 DEF RoomRecords
<1>8. r.faults > 0 => [r EXCEPT !.faults = @ - 1] \in RoomRecords
  BY <1>3 DEF RoomRecords
<1>9. r.starts > 0 /\ r.rows > 0
        => [r EXCEPT !.starts = @ - 1, !.rows = @ - 1] \in RoomRecords
  BY <1>3 DEF RoomRecords
<1> QED
  BY <1>4, <1>5, <1>6, <1>7, <1>8, <1>9

\* A watermark that cannot be read is one fault.
LEMMA SpentIsRoom ==
  ASSUME room \in RoomRecords, NEW unread \in BOOLEAN, unread => room.faults > 0
  PROVE  /\ Spent(unread) \in RoomRecords /\ Spent(unread).rows = room.rows
         /\ Spent(unread).starts = room.starts
<1>1. CASE unread
  <2>1. Spent(unread) = [room EXCEPT !.faults = @ - 1]
    BY <1>1 DEF Spent
  <2>2. [room EXCEPT !.faults = @ - 1] \in RoomRecords
    BY <1>1, RoomShrinks
  <2> QED
    BY <2>1, <2>2 DEF RoomRecords
<1>2. CASE ~unread
  <2>1. Spent(unread) = room
    BY <1>2 DEF Spent, RoomRecords
  <2> QED
    BY <2>1
<1> QED
  BY <1>1, <1>2

\* The fields of the engine's run.
LEMMA RepairFields ==
  ASSUME NEW r \in RepairRecords
  PROVE  /\ r.at \in {"none", "run", "refresh"} /\ r.before \in BOOLEAN
         /\ r.begun \in 0 .. MaxRepairs /\ r.helped \in BOOLEAN
         /\ r.verdict \in {"none", "improved", "not"} /\ r.read \in 0 .. MaxRepairs
         /\ r.late \in BOOLEAN /\ r.misread \in BOOLEAN
BY DEF RepairRecords

\* The rows of the log, and what was reserved of it.
LEMMA LogStaysTyped ==
  ASSUME RefreshIInv, RefreshNext
  PROVE  LogIsTyped'
<1>1. /\ LogIsTyped /\ PayloadIsTyped /\ JobsAreTyped /\ MaxExecRows \in Nat
      /\ room.rows \in Nat /\ execRows \in Nat
  BY TypesAreThree, RefreshFields DEF RefreshIInv
<1>2. CASE Shift
  BY <1>1, <1>2 DEF Shift, LogIsTyped, PayloadIsTyped, RepairRecords, RoomRecords
<1>9. ASSUME NEW unread \in BOOLEAN, RepairIsDone(unread)
      PROVE  LogIsTyped'
  <2>1. room'.rows = room.rows /\ UNCHANGED <<execRows, watermark, bridged>>
    BY <1>1, <1>9, SpentIsRoom DEF RepairIsDone, PayloadIsTyped
  <2>2. repair.at # "none" /\ repair'.at # "none"
    BY <1>1, <1>9 DEF RepairIsDone, PayloadIsTyped, RepairRecords
  <2> QED
    BY <1>1, <2>1, <2>2 DEF LogIsTyped
<1>3. CASE BeginRepair
  BY <1>1, <1>3 DEF BeginRepair, NoRepair, LogIsTyped, PayloadIsTyped, RoomRecords
<1>4. CASE RepairFails \/ Judge
  <2>1. repair.at # "none" /\ repair'.at = "none" /\ execRows' = execRows + 1
    BY <1>1, <1>4 DEF RepairFails, Judge, OwnHasEnded, Logged, PayloadIsTyped, RepairRecords
  <2>2. UNCHANGED <<watermark, bridged, room>>
    BY <1>4 DEF RepairFails, Judge
  <2>3. watermark \in Nat /\ watermark <= execRows /\ execRows + room.rows + 1 = MaxExecRows
    BY <1>1, <2>1 DEF LogIsTyped
  <2>4. execRows' \in 0 .. MaxExecRows /\ watermark' \in 0 .. execRows'
    BY <1>1, <2>1, <2>2, <2>3
  <2>5. execRows' + room'.rows = MaxExecRows
    BY <1>1, <2>1, <2>2, <2>3
  <2> QED
    BY <1>1, <2>1, <2>2, <2>4, <2>5 DEF LogIsTyped
<1>5. ASSUME NEW j \in Jobs, NEW unread \in BOOLEAN, Start(j, unread)
      PROVE  LogIsTyped'
  <2> DEFINE left == Spent(unread)
  <2>6. left \in RoomRecords /\ left.rows = room.rows
    BY <1>1, <1>5, SpentIsRoom DEF Start, PayloadIsTyped
  <2>7. \/ execRows' = execRows /\ room' = [left EXCEPT !.starts = @ - 1]
        \/ /\ execRows' = execRows + 1 /\ room.rows > 0
           /\ room' = [left EXCEPT !.starts = @ - 1, !.rows = @ - 1]
    BY <1>5 DEF Start, Logged
  <2> HIDE DEF left
  <2>1. \/ execRows' = execRows /\ room'.rows = room.rows
        \/ execRows' = execRows + 1 /\ room.rows > 0 /\ room'.rows = room.rows - 1
    BY <2>6, <2>7 DEF RoomRecords
  <2>2. UNCHANGED <<watermark, bridged, repair>>
    BY <1>5 DEF Start
  <2>3. watermark \in Nat /\ watermark <= execRows /\ execRows + room.rows <= MaxExecRows
    BY <1>1 DEF LogIsTyped, PayloadIsTyped, RepairRecords
  <2>4. execRows' \in 0 .. MaxExecRows /\ watermark' \in 0 .. execRows'
    BY <1>1, <2>1, <2>2, <2>3
  <2>5. execRows' + room'.rows = execRows + room.rows
    BY <1>1, <2>1
  <2> QED
    BY <1>1, <2>2, <2>4, <2>5 DEF LogIsTyped
<1>6. ASSUME NEW j \in Jobs, Bridge(j)
      PROVE  LogIsTyped'
  <2> DEFINE i == refresh[j].newest + 1
  <2>1. /\ bridged' = [bridged EXCEPT ![i] = @ + 1]
        /\ UNCHANGED <<execRows, watermark, repair, room>>
    BY <1>6 DEF Bridge
  <2> HIDE DEF i
  <2>2. bridged \in [1 .. MaxExecRows -> Nat]
    BY <1>1 DEF LogIsTyped
  <2>3. bridged' \in [1 .. MaxExecRows -> Nat]
    <3>1. CASE i \in 1 .. MaxExecRows
      <4>1. bridged[i] + 1 \in Nat
        BY <2>2, <3>1
      <4> DEFINE more == bridged[i] + 1
      <4>2. bridged' = [bridged EXCEPT ![i] = more]
        BY <2>1
      <4> HIDE DEF more
      <4> QED
        BY <2>2, <4>1, <4>2 DEF more
    <3>2. CASE i \notin 1 .. MaxExecRows
      BY <2>1, <2>2, <3>2
    <3> QED
      BY <3>1, <3>2
  <2> QED
    BY <1>1, <2>1, <2>3 DEF LogIsTyped
<1>7. ASSUME NEW j \in Jobs, Mark(j)
      PROVE  LogIsTyped'
  BY <1>1, <1>7, RefreshFields DEF Mark, LogIsTyped
<1>10. ASSUME NEW j \in Jobs, MarkFails(j)
       PROVE  LogIsTyped'
  <2>1. /\ watermark' \in {watermark} \union 0 .. refresh[j].newest
        /\ refresh[j].newest \in 0 .. execRows /\ UNCHANGED <<execRows, bridged, repair>>
        /\ room' = [room EXCEPT !.faults = @ - 1]
    BY <1>10, RefreshFields DEF MarkFails
  <2>2. watermark' \in 0 .. execRows /\ room'.rows = room.rows
    BY <1>1, <2>1 DEF LogIsTyped, PayloadIsTyped, RoomRecords
  <2> QED
    BY <1>1, <2>1, <2>2 DEF LogIsTyped
<1>8. ASSUME NEW j \in Jobs,
             BridgeFails(j) \/ Gauge(j) \/ Publish(j) \/ Copy(j) \/ Fill(j) \/ JobDies(j)
      PROVE  LogIsTyped'
  BY <1>1, <1>8
     DEF BridgeFails, Gauge, Publish, Copy, Fill, JobDies, LogIsTyped, PayloadIsTyped,
         RepairRecords, RoomRecords
<1> QED
  BY <1>2, <1>3, <1>4, <1>5, <1>6, <1>7, <1>8, <1>9, <1>10 DEF RefreshNext

\* The payload, the run of the engine and the bounds.
LEMMA PayloadStaysTyped ==
  ASSUME RefreshIInv, RefreshNext
  PROVE  PayloadIsTyped'
<1>1. /\ PayloadIsTyped /\ JobsAreTyped
      /\ {MaxExecRows, MaxRepairs, MaxShifts, MaxStarts, MaxFaults} \subseteq Nat
  BY TypesAreThree, RefreshAssumption DEF RefreshIInv
<1>2. ASSUME NEW j \in Jobs
      PROVE  refresh[j].seen \in BOOLEAN /\ refresh[j].since \in 0 .. MaxRepairs
  BY <1>1 DEF JobsAreTyped, JobRecords
<1>3. /\ breached \in BOOLEAN /\ tangled \in BOOLEAN
      /\ data \in [breached : BOOLEAN, since : 0 .. MaxRepairs]
      /\ wid \in [breached : BOOLEAN, since : 0 .. MaxRepairs, torn : BOOLEAN]
      /\ repair \in RepairRecords /\ room \in RoomRecords
  BY <1>1 DEF PayloadIsTyped
<1>4. CASE Shift
  <2>1. repair' \in RepairRecords
    BY <1>3, <1>4 DEF Shift, RepairRecords
  <2>2. room' \in RoomRecords
    BY <1>3, <1>4, RoomShrinks DEF Shift
  <2> QED
    BY <1>3, <1>4, <2>1, <2>2 DEF Shift, PayloadIsTyped
<1>5. CASE BeginRepair
  <2>1. repair' \in RepairRecords
    <3>1. repair.begun + 1 \in 0 .. MaxRepairs /\ 0 \in 0 .. MaxRepairs
      BY <1>1, <1>3, <1>5, RepairFields DEF BeginRepair
    <3>2. NoRepair \in RepairRecords
      BY <3>1 DEF NoRepair, RepairRecords
    <3>3. OthersAreLate \in BOOLEAN /\ (wid.breached /\ ~wid.torn) \in BOOLEAN
          /\ (~breached) \in BOOLEAN
      BY DEF OthersAreLate
    <3> QED
      BY <1>5, <3>1, <3>2, <3>3 DEF BeginRepair, RepairRecords
  <2>2. room' \in RoomRecords
    BY <1>3, <1>5, RoomShrinks DEF BeginRepair
  <2> QED
    BY <1>3, <1>5, <2>1, <2>2 DEF BeginRepair, PayloadIsTyped
<1>6. ASSUME NEW unread \in BOOLEAN, RepairIsDone(unread)
      PROVE  PayloadIsTyped'
  <2>1. PICK fixes \in BOOLEAN :
          /\ breached' = (breached /\ ~fixes)
          /\ repair' = [repair EXCEPT !.at = "refresh",
                                      !.helped = @ \/ (breached /\ fixes)]
    BY <1>6 DEF RepairIsDone
  <2>2. repair' \in RepairRecords
    BY <1>3, <2>1 DEF RepairRecords
  <2>3. room' \in RoomRecords
    BY <1>3, <1>6, SpentIsRoom DEF RepairIsDone
  <2> QED
    BY <1>3, <1>6, <2>1, <2>2, <2>3 DEF RepairIsDone, PayloadIsTyped, Bridging
<1>7. CASE RepairFails
  <2>1. repair' \in RepairRecords
    BY <1>3, <1>7 DEF RepairFails, RepairRecords
  <2> QED
    BY <1>3, <1>7, <2>1 DEF RepairFails, PayloadIsTyped
<1>8. CASE Judge
  <2>1. wid.torn \in BOOLEAN /\ wid.since \in 0 .. MaxRepairs
    BY <1>3
  <2>2. repair' \in RepairRecords
    BY <1>3, <1>8, <2>1 DEF Judge, RepairRecords
  <2> QED
    BY <1>3, <1>8, <2>2 DEF Judge, PayloadIsTyped
<1>9. ASSUME NEW j \in Jobs, NEW unread \in BOOLEAN, Start(j, unread)
      PROVE  PayloadIsTyped'
  <2> DEFINE left == Spent(unread)
  <2>2. left \in RoomRecords /\ left.rows = room.rows /\ left.starts = room.starts
    BY <1>3, <1>9, SpentIsRoom DEF Start
  <2>3. \/ room' = [left EXCEPT !.starts = @ - 1]
        \/ room.rows > 0 /\ room' = [left EXCEPT !.starts = @ - 1, !.rows = @ - 1]
    BY <1>9 DEF Start
  <2>4. room.starts > 0
    BY <1>9 DEF Start
  <2> HIDE DEF left
  <2>1. room' \in RoomRecords
    BY <2>2, <2>3, <2>4, RoomShrinks
  <2> QED
    BY <1>3, <1>9, <2>1 DEF Start, PayloadIsTyped, Bridging
<1>10. ASSUME NEW j \in Jobs, JobDies(j)
       PROVE  PayloadIsTyped'
  <2>1. room' \in RoomRecords
    BY <1>3, <1>10, RoomShrinks DEF JobDies
  <2>2. repair' \in RepairRecords
    BY <1>3, <1>10 DEF JobDies, RepairRecords
  <2> QED
    BY <1>3, <1>10, <2>1, <2>2 DEF JobDies, PayloadIsTyped
<1>11. ASSUME NEW j \in Jobs, BridgeFails(j)
       PROVE  PayloadIsTyped'
  <2>1. room' \in RoomRecords
    BY <1>3, <1>11, RoomShrinks DEF BridgeFails
  <2> QED
    BY <1>3, <1>11, <2>1 DEF BridgeFails, PayloadIsTyped
<1>16. ASSUME NEW j \in Jobs, MarkFails(j)
       PROVE  PayloadIsTyped'
  <2>1. room' \in RoomRecords
    BY <1>3, <1>16, RoomShrinks DEF MarkFails
  <2> QED
    BY <1>3, <1>16, <2>1 DEF MarkFails, PayloadIsTyped
<1>12. ASSUME NEW j \in Jobs, Publish(j)
       PROVE  PayloadIsTyped'
  BY <1>2, <1>3, <1>12 DEF Publish, PayloadIsTyped
<1>13. ASSUME NEW j \in Jobs, Copy(j)
       PROVE  PayloadIsTyped'
  BY <1>3, <1>13 DEF Copy, PayloadIsTyped
<1>14. ASSUME NEW j \in Jobs, Fill(j)
       PROVE  PayloadIsTyped'
  <2>1. PICK torn \in BOOLEAN :
          wid' = [breached |-> refresh[j].seen, since |-> refresh[j].since, torn |-> torn]
    BY <1>14 DEF Fill
  <2> QED
    BY <1>2, <1>3, <1>14, <2>1 DEF Fill, PayloadIsTyped
<1>15. ASSUME NEW j \in Jobs, Bridge(j) \/ Gauge(j) \/ Mark(j)
       PROVE  PayloadIsTyped'
  BY <1>3, <1>15 DEF Bridge, Gauge, Mark, PayloadIsTyped
<1> QED
  BY <1>4, <1>5, <1>6, <1>7, <1>8, <1>9, <1>10, <1>11, <1>12, <1>13, <1>14, <1>15,
     <1>16 DEF RefreshNext

\* One job changes, while the log may grow.
LEMMA OneJobChanges ==
  ASSUME RefreshIInv, NEW j \in Jobs, NEW r \in JobRecords,
         refresh' = [refresh EXCEPT ![j] = r],
         execRows' \in Nat, execRows <= execRows',
         {r.last, r.upto, r.newest} \subseteq 0 .. execRows', r.newest <= r.upto
  PROVE  JobsAreTyped'
<1>1. JobsAreTyped /\ execRows \in Nat
  BY TypesAreThree, RefreshFields DEF RefreshIInv
<1>2. refresh' \in [Jobs -> JobRecords]
  BY <1>1 DEF JobsAreTyped
<1>3. ASSUME NEW k \in Jobs
      PROVE  /\ {refresh'[k].last, refresh'[k].upto, refresh'[k].newest} \subseteq 0 .. execRows'
             /\ refresh'[k].newest <= refresh'[k].upto
  <2>1. refresh'[k] = IF k = j THEN r ELSE refresh[k]
    BY <1>1 DEF JobsAreTyped
  <2>2. refresh[k].newest <= refresh[k].upto
        /\ {refresh[k].last, refresh[k].upto, refresh[k].newest} \subseteq 0 .. execRows
    BY <1>1 DEF JobsAreTyped
  <2>3. {refresh[k].last, refresh[k].upto, refresh[k].newest} \subseteq 0 .. execRows'
    BY <1>1, <2>2
  <2> QED
    BY <2>1, <2>2, <2>3
<1> QED
  BY <1>2, <1>3 DEF JobsAreTyped

\* What one step of a job leaves of it, field by field.
LEMMA JobsStayTyped ==
  ASSUME RefreshIInv, RefreshNext
  PROVE  JobsAreTyped'
<1>1. /\ PayloadIsTyped /\ JobsAreTyped /\ LogIsTyped
      /\ {MaxExecRows, MaxRepairs} \subseteq Nat /\ execRows \in Nat
      /\ watermark \in 0 .. execRows
  BY TypesAreThree, RefreshAssumption, RefreshFields DEF RefreshIInv
<1>2. ASSUME NEW j \in Jobs
      PROVE  /\ refresh[j] \in JobRecords /\ refresh[j].newest <= refresh[j].upto
             /\ {refresh[j].last, refresh[j].upto, refresh[j].newest} \subseteq 0 .. execRows
  BY <1>1 DEF JobsAreTyped
<1>3. execRows <= execRows /\ 0 \in 0 .. execRows /\ 0 <= 0
  BY <1>1
<1>4. ASSUME UNCHANGED refresh, execRows' \in Nat, execRows <= execRows'
      PROVE  JobsAreTyped'
  <2>1. PICK j \in Jobs : TRUE
    BY RefreshAssumption
  <2>2. refresh' = [refresh EXCEPT ![j] = refresh[j]]
    BY <1>1, <1>4 DEF JobsAreTyped
  <2>3. {refresh[j].last, refresh[j].upto, refresh[j].newest} \subseteq 0 .. execRows'
    BY <1>1, <1>2, <1>4
  <2> QED
    BY <1>2, <1>4, <2>2, <2>3, OneJobChanges
<1>5. CASE Shift \/ BeginRepair \/ RepairFails \/ Judge
  <2>1. UNCHANGED refresh /\ (execRows' = execRows \/ execRows' = execRows + 1)
    BY <1>5 DEF Shift, BeginRepair, RepairFails, Judge, Logged
  <2> QED
    BY <1>1, <1>4, <2>1
<1>6. ASSUME NEW unread \in BOOLEAN, RepairIsDone(unread)
      PROVE  JobsAreTyped'
  <2>1. refresh' = [refresh EXCEPT ![Own] = Reads(execRows, unread)] /\ execRows' = execRows
    BY <1>6 DEF RepairIsDone
  <2>2. Own \in Jobs /\ execRows \in 0 .. execRows /\ watermark <= execRows
    BY <1>1, RefreshAssumption
  <2> DEFINE r == Reads(execRows, unread)
  <2>3. /\ r \in JobRecords /\ r.last = r.newest /\ r.last \in {0, watermark}
        /\ r.upto = execRows
    BY <1>1, ReadJobs
  <2>4. refresh' = [refresh EXCEPT ![Own] = r]
    BY <2>1
  <2> HIDE DEF r
  <2>5. {r.last, r.upto, r.newest} \subseteq 0 .. execRows' /\ r.newest <= r.upto
    BY <1>1, <2>1, <2>2, <2>3
  <2> QED
    BY <1>1, <1>3, <2>1, <2>2, <2>3, <2>4, <2>5, OneJobChanges
<1>7. ASSUME NEW j \in Jobs, NEW unread \in BOOLEAN, Start(j, unread)
      PROVE  JobsAreTyped'
  <2>1. /\ refresh' = [refresh EXCEPT ![j] = Reads(execRows', unread)]
        /\ execRows' = execRows \/ execRows' = execRows + 1
    BY <1>7 DEF Start, Logged
  <2>2. /\ execRows' \in Nat /\ execRows <= execRows' /\ watermark \in 0 .. execRows'
        /\ execRows' \in 0 .. execRows' /\ watermark <= execRows'
    BY <1>1, <2>1
  <2> DEFINE r == Reads(execRows', unread)
  <2>3. /\ r \in JobRecords /\ r.last = r.newest /\ r.last \in {0, watermark}
        /\ r.upto = execRows'
    BY <2>2, ReadJobs
  <2>4. refresh' = [refresh EXCEPT ![j] = r]
    BY <2>1
  <2> HIDE DEF r
  <2>5. {r.last, r.upto, r.newest} \subseteq 0 .. execRows' /\ r.newest <= r.upto
    BY <2>2, <2>3
  <2> QED
    BY <2>2, <2>3, <2>4, <2>5, OneJobChanges
<1>8. ASSUME NEW j \in Jobs, Bridge(j)
      PROVE  JobsAreTyped'
  <2> DEFINE r == [refresh[j] EXCEPT !.newest = refresh[j].newest + 1]
  <2>1. refresh' = [refresh EXCEPT ![j] = r] /\ execRows' = execRows
    BY <1>8 DEF Bridge
  <2>2. refresh[j].newest + 1 <= refresh[j].upto /\ refresh[j].newest + 1 \in 0 .. execRows
    BY <1>1, <1>2, <1>8 DEF Bridge
  <2>3. r \in JobRecords
    BY <1>1, <1>2, <2>2 DEF JobRecords
  <2>4. r.newest = refresh[j].newest + 1 /\ r.upto = refresh[j].upto /\ r.last = refresh[j].last
    BY <1>2 DEF JobRecords
  <2> HIDE DEF r
  <2> QED
    BY <1>1, <1>2, <1>3, <2>1, <2>2, <2>3, <2>4, OneJobChanges
<1>9. ASSUME NEW j \in Jobs, NEW r \in JobRecords,
             refresh' = [refresh EXCEPT ![j] = r], execRows' = execRows,
             \/ r.last = refresh[j].last /\ r.upto = refresh[j].upto
                /\ r.newest = refresh[j].newest
             \/ r.last = 0 /\ r.upto = 0 /\ r.newest = 0
      PROVE  JobsAreTyped'
  <2>1. {r.last, r.upto, r.newest} \subseteq 0 .. execRows' /\ r.newest <= r.upto
    BY <1>1, <1>2, <1>3, <1>9
  <2> QED
    BY <1>1, <1>3, <1>9, <2>1, OneJobChanges
<1>10. ASSUME NEW j \in Jobs, BridgeFails(j)
       PROVE  JobsAreTyped'
  <2> DEFINE r == [refresh[j] EXCEPT !.at = "mark"]
  <2>1. refresh' = [refresh EXCEPT ![j] = r] /\ execRows' = execRows
    BY <1>10 DEF BridgeFails
  <2>2. /\ r \in JobRecords /\ r.last = refresh[j].last /\ r.upto = refresh[j].upto
        /\ r.newest = refresh[j].newest
    BY <1>2 DEF JobRecords, JobPlaces
  <2> HIDE DEF r
  <2> QED
    BY <1>9, <2>1, <2>2
<1>11. ASSUME NEW j \in Jobs, Publish(j)
       PROVE  JobsAreTyped'
  <2> DEFINE r == [refresh[j] EXCEPT !.at = "copy"]
  <2>1. refresh' = [refresh EXCEPT ![j] = r] /\ execRows' = execRows
    BY <1>11 DEF Publish
  <2>2. /\ r \in JobRecords /\ r.last = refresh[j].last /\ r.upto = refresh[j].upto
        /\ r.newest = refresh[j].newest
    BY <1>2 DEF JobRecords, JobPlaces
  <2> HIDE DEF r
  <2> QED
    BY <1>9, <2>1, <2>2
<1>12. ASSUME NEW j \in Jobs, Mark(j) \/ MarkFails(j) \/ JobDies(j)
       PROVE  JobsAreTyped'
  <2>1. PICK at \in JobPlaces : refresh' = [refresh EXCEPT ![j] = [NoJob EXCEPT !.at = at]]
    <3>1. CASE Mark(j) \/ MarkFails(j)
      <4>1. "measure" \in JobPlaces
        BY DEF JobPlaces
      <4> QED
        BY <3>1, <4>1 DEF Mark, MarkFails
    <3>2. CASE JobDies(j)
      <4>1. [NoJob EXCEPT !.at = "none"] = NoJob /\ "none" \in JobPlaces
        BY DEF NoJob, JobPlaces
      <4> QED
        BY <3>2, <4>1 DEF JobDies
    <3> QED
      BY <1>12, <3>1, <3>2
  <2>2. execRows' = execRows
    BY <1>12 DEF Mark, MarkFails, JobDies
  <2> DEFINE r == [NoJob EXCEPT !.at = at]
  <2>3. r \in JobRecords /\ r.last = 0 /\ r.upto = 0 /\ r.newest = 0
    BY FreshJobs
  <2> HIDE DEF r
  <2> QED
    BY <1>9, <2>1, <2>2, <2>3 DEF r
<1>13. ASSUME NEW j \in Jobs, Gauge(j) \/ Copy(j)
       PROVE  JobsAreTyped'
  <2>1. PICK at \in {"publish", "fill"}, sees \in BOOLEAN, moment \in 0 .. MaxRepairs :
          refresh' = [refresh EXCEPT ![j].at = at, ![j].seen = sees, ![j].since = moment]
    <3>1. /\ breached \in BOOLEAN /\ repair.begun \in 0 .. MaxRepairs
          /\ data.breached \in BOOLEAN /\ data.since \in 0 .. MaxRepairs
      BY <1>1, RepairFields DEF PayloadIsTyped
    <3> QED
      BY <1>13, <3>1 DEF Gauge, Copy
  <2> DEFINE r == [refresh[j] EXCEPT !.at = at, !.seen = sees, !.since = moment]
  <2>2. refresh' = [refresh EXCEPT ![j] = r] /\ execRows' = execRows
    BY <1>13, <2>1 DEF Gauge, Copy
  <2>3. /\ r \in JobRecords /\ r.last = refresh[j].last /\ r.upto = refresh[j].upto
        /\ r.newest = refresh[j].newest
    BY <1>2 DEF JobRecords, JobPlaces
  <2> HIDE DEF r
  <2> QED
    BY <1>9, <2>2, <2>3
<1>14. ASSUME NEW j \in Jobs, Fill(j)
       PROVE  JobsAreTyped'
  <2>1. ASSUME NEW k \in Jobs
        PROVE  /\ refresh'[k] \in JobRecords
               /\ \/ /\ refresh'[k].last = refresh[k].last
                     /\ refresh'[k].upto = refresh[k].upto
                     /\ refresh'[k].newest = refresh[k].newest
                  \/ /\ refresh'[k].last = 0 /\ refresh'[k].upto = 0
                     /\ refresh'[k].newest = 0
    <3>1. "none" \in JobPlaces /\ refresh[k] \in JobRecords
      BY <1>2 DEF JobPlaces
    <3>2. refresh'[k] = NoJob \/ refresh'[k] = [refresh[k] EXCEPT !.over = TRUE]
          \/ refresh'[k] = refresh[k]
      BY <1>14 DEF Fill
    <3>3. [refresh[k] EXCEPT !.over = TRUE] \in JobRecords
          /\ [refresh[k] EXCEPT !.over = TRUE].last = refresh[k].last
          /\ [refresh[k] EXCEPT !.over = TRUE].upto = refresh[k].upto
          /\ [refresh[k] EXCEPT !.over = TRUE].newest = refresh[k].newest
      BY <3>1 DEF JobRecords
    <3> QED
      BY <3>1, <3>2, <3>3, FreshJobs
  <2>2. DOMAIN refresh' = Jobs /\ refresh' = [k \in Jobs |-> refresh'[k]]
    BY <1>14 DEF Fill
  <2>3. refresh' \in [Jobs -> JobRecords]
    BY <2>1, <2>2
  <2>4. ASSUME NEW k \in Jobs
        PROVE  /\ {refresh'[k].last, refresh'[k].upto, refresh'[k].newest} \subseteq 0 .. execRows
               /\ refresh'[k].newest <= refresh'[k].upto
    BY <1>2, <1>3, <2>1
  <2>5. execRows' = execRows
    BY <1>14 DEF Fill
  <2> QED
    BY <2>3, <2>4, <2>5 DEF JobsAreTyped
<1> QED
  BY <1>5, <1>6, <1>7, <1>8, <1>10, <1>11, <1>12, <1>13, <1>14 DEF RefreshNext

-----------------------------------------------------------------------------

\* A step that bridges nothing: a job stays as it is to the log, or forgets it, which
\* tangles the refreshes if it was bridging.
LEMMA QuietSteps ==
  ASSUME RefreshIInv, UNCHANGED <<watermark, bridged>>, tangled => tangled',
         \A k \in Jobs :
           \/ /\ refresh'[k].last = refresh[k].last
              /\ refresh'[k].newest = refresh[k].newest
              /\ refresh'[k].at \in {"bridge", "mark"} <=> refresh[k].at \in {"bridge", "mark"}
           \/ /\ refresh'[k].newest = 0 /\ refresh'[k].at \notin {"bridge", "mark"}
              /\ refresh[k].at \in {"bridge", "mark"} => tangled'
  PROVE  MarkedRunsAreBridged' /\ BridgedOnce' /\ HeldRunsAreBridged' /\ OneBridges'
<1>1. MarkedRunsAreBridged /\ BridgedOnce /\ HeldRunsAreBridged /\ OneBridges
  BY DEF RefreshIInv
<1>2. MarkedRunsAreBridged' /\ BridgedOnce'
  BY <1>1 DEF MarkedRunsAreBridged, BridgedOnce
<1>3. HeldRunsAreBridged'
  <2>1. \A i \in 1 .. 0 : FALSE
    OBVIOUS
  <2> QED
    BY <1>1, <2>1 DEF HeldRunsAreBridged
<1>4. OneBridges'
  BY <1>1 DEF OneBridges, Bridges
<1> QED
  BY <1>2, <1>3, <1>4

\* A job that starts reads the watermark, or tangles the refreshes.
LEMMA StartingSteps ==
  ASSUME RefreshIInv, UNCHANGED <<watermark, bridged>>, NEW j \in Jobs,
         NEW upto \in Nat, NEW unread \in BOOLEAN, refresh[j].at = "none",
         refresh' = [refresh EXCEPT ![j] = Reads(upto, unread)],
         tangled' = (tangled \/ Bridging(j) \/ unread)
  PROVE  MarkedRunsAreBridged' /\ BridgedOnce' /\ HeldRunsAreBridged' /\ OneBridges'
<1>1. MarkedRunsAreBridged /\ BridgedOnce /\ HeldRunsAreBridged /\ OneBridges
  BY DEF RefreshIInv
<1>2. MarkedRunsAreBridged' /\ BridgedOnce'
  BY <1>1 DEF MarkedRunsAreBridged, BridgedOnce
<1>3. /\ refresh'[j].at = "bridge" /\ refresh'[j].newest \in {0, watermark}
      /\ ~unread => refresh'[j].last = watermark /\ refresh'[j].newest = watermark
      /\ \A k \in Jobs \ {j} : refresh'[k] = refresh[k]
  <2> DEFINE r == Reads(upto, unread)
  <2>1. /\ r.at = "bridge" /\ r.last = r.newest /\ r.last \in {0, watermark}
        /\ ~unread => r.last = watermark
    BY ReadJobs
  <2> HIDE DEF r
  <2>2. refresh' = [refresh EXCEPT ![j] = r]
    BY DEF r
  <2> QED
    BY <2>1, <2>2, RefreshFields
<1>4. HeldRunsAreBridged'
  <2>1. \A i \in 1 .. 0 : FALSE
    OBVIOUS
  <2> QED
    BY <1>1, <1>3, <2>1 DEF HeldRunsAreBridged, MarkedRunsAreBridged
<1>5. ASSUME ~tangled'
      PROVE  /\ ~tangled /\ ~unread /\ \A k \in Jobs : ~Bridges(k)
             /\ \A k \in Jobs : Bridges(k)' => k = j
  <2>1. ~tangled /\ ~unread /\ \A k \in Jobs \ {j} : refresh[k].at \notin {"bridge", "mark"}
    BY <1>5 DEF Bridging
  <2> QED
    BY <1>3, <2>1 DEF Bridges
<1>6. OneBridges'
  <2>1. ASSUME ~tangled'
        PROVE  \A i \in 1 .. MaxExecRows : i > watermark => bridged[i] = 0
    BY <1>1, <1>5, <2>1 DEF OneBridges
  <2>2. Bridges(j)'
    BY <1>3 DEF Bridges
  <2> QED
    BY <1>3, <1>5, <2>1, <2>2 DEF OneBridges
<1> QED
  BY <1>2, <1>4, <1>6

\* The next row becomes an event; the watermark moves to the newest.
LEMMA BridgesStay ==
  ASSUME RefreshIInv, RefreshNext
  PROVE  MarkedRunsAreBridged' /\ BridgedOnce' /\ HeldRunsAreBridged' /\ OneBridges'
<1>1. /\ MarkedRunsAreBridged /\ BridgedOnce /\ HeldRunsAreBridged /\ OneBridges
      /\ OwnIsAwaited
  BY DEF RefreshIInv
<1>2. CASE Shift \/ BeginRepair \/ RepairFails \/ Judge
  BY <1>2, QuietSteps DEF Shift, BeginRepair, RepairFails, Judge
<1>3. ASSUME NEW unread \in BOOLEAN, RepairIsDone(unread)
      PROVE  MarkedRunsAreBridged' /\ BridgedOnce' /\ HeldRunsAreBridged' /\ OneBridges'
  <2>1. Own \in Jobs /\ refresh[Own].at = "none" /\ execRows \in Nat
    BY <1>1, <1>3, RefreshAssumption, RefreshFields DEF RepairIsDone, OwnIsAwaited
  <2> QED
    BY <1>3, <2>1, StartingSteps DEF RepairIsDone
<1>4. ASSUME NEW j \in Jobs, NEW unread \in BOOLEAN, Start(j, unread)
      PROVE  MarkedRunsAreBridged' /\ BridgedOnce' /\ HeldRunsAreBridged' /\ OneBridges'
  <2>1. execRows' \in Nat
    BY <1>4, RefreshFields DEF Start, Logged
  <2> QED
    BY <1>4, <2>1, StartingSteps DEF Start
<1>5. ASSUME NEW j \in Jobs, Bridge(j)
      PROVE  MarkedRunsAreBridged' /\ BridgedOnce' /\ HeldRunsAreBridged' /\ OneBridges'
  <2> DEFINE i == refresh[j].newest + 1
  <2>1. /\ refresh[j].at = "bridge" /\ i \in 1 .. MaxExecRows /\ i \in Nat
        /\ refresh[j].newest \in Nat
    BY <1>5, RefreshFields DEF Bridge
  <2>2. /\ bridged' = [bridged EXCEPT ![i] = @ + 1]
        /\ UNCHANGED <<watermark, tangled>>
        /\ bridged \in [1 .. MaxExecRows -> Nat]
    BY <1>5, RefreshFields DEF Bridge
  <2>3. /\ \A x \in 1 .. MaxExecRows : bridged'[x] = IF x = i THEN bridged[x] + 1 ELSE bridged[x]
        /\ \A x \in 1 .. MaxExecRows : bridged[x] \in Nat
    BY <2>1, <2>2
  <2>4. /\ refresh'[j].newest = i /\ refresh'[j].last = refresh[j].last
        /\ refresh'[j].at = "bridge"
        /\ \A k \in Jobs \ {j} : refresh'[k] = refresh[k]
    BY <1>5, <2>1, RefreshFields DEF Bridge, JobRecords
  <2> HIDE DEF i
  <2>5. MarkedRunsAreBridged'
    <3>1. watermark <= MaxExecRows /\ watermark \in Nat /\ MaxExecRows \in Nat
      BY RefreshFields
    <3> QED
      BY <1>1, <2>2, <2>3, <3>1 DEF MarkedRunsAreBridged
  <2>6. HeldRunsAreBridged'
    <3>1. ASSUME NEW k \in Jobs, NEW x \in 1 .. refresh'[k].newest
          PROVE  bridged'[x] >= 1
      <4>1. refresh'[k].newest <= MaxExecRows /\ refresh'[k].newest \in Nat
            /\ MaxExecRows \in Nat
        BY <2>1, <2>4, RefreshFields
      <4>2. x \in 1 .. MaxExecRows
        BY <4>1
      <4>3. CASE x = i
        BY <2>3, <4>2, <4>3
      <4>4. CASE x # i
        <5>1. x \in 1 .. refresh[k].newest
          <6>1. CASE k = j
            BY <2>1, <2>4, <4>4, <6>1 DEF i
          <6>2. CASE k # j
            BY <2>4, <6>2
          <6> QED
            BY <6>1, <6>2
        <5>2. bridged[x] >= 1
          BY <1>1, <5>1 DEF HeldRunsAreBridged
        <5> QED
          BY <2>3, <4>2, <4>4, <5>2
      <4> QED
        BY <4>3, <4>4
    <3> QED
      BY <3>1 DEF HeldRunsAreBridged
  <2>7. BridgedOnce' /\ OneBridges'
    <3>1. CASE tangled
      BY <2>2, <3>1 DEF BridgedOnce, OneBridges
    <3>2. CASE ~tangled
      <4>1. /\ \A k \in Jobs : Bridges(k) => k = j
            /\ refresh[j].last = watermark
            /\ \A x \in 1 .. MaxExecRows : x > refresh[j].newest => bridged[x] = 0
        BY <1>1, <2>1, <3>2 DEF OneBridges, Bridges
      <4>2. bridged[i] = 0
        BY <2>1, <4>1 DEF i
      <4>3. BridgedOnce'
        BY <1>1, <2>2, <2>3, <3>2, <4>2 DEF BridgedOnce
      <4>4. \A k \in Jobs : Bridges(k)' => k = j
        BY <2>4, <4>1 DEF Bridges
      <4>5. \A x \in 1 .. MaxExecRows : x > i => bridged'[x] = 0
        <5>1. ASSUME NEW x \in 1 .. MaxExecRows, x > i PROVE bridged'[x] = 0
          <6>1. x > refresh[j].newest /\ x # i
            BY <2>1, <5>1 DEF i
          <6> QED
            BY <2>3, <4>1, <6>1
        <5> QED
          BY <5>1
      <4>6. Bridges(j)'
        BY <2>4 DEF Bridges
      <4> QED
        BY <2>2, <2>4, <3>2, <4>1, <4>3, <4>4, <4>5, <4>6 DEF OneBridges
    <3> QED
      BY <3>1, <3>2
  <2> QED
    BY <2>5, <2>6, <2>7
<1>6. ASSUME NEW j \in Jobs, Mark(j)
      PROVE  MarkedRunsAreBridged' /\ BridgedOnce' /\ HeldRunsAreBridged' /\ OneBridges'
  <2>1. /\ Bridges(j) /\ UNCHANGED <<bridged, tangled>>
        /\ watermark' = IF refresh[j].newest # refresh[j].last
                          THEN refresh[j].newest ELSE watermark
    BY <1>6 DEF Mark, BridgeEnds, Bridges
  <2>2. /\ refresh'[j].newest = 0 /\ refresh'[j].at = "measure"
        /\ \A k \in Jobs \ {j} : refresh'[k] = refresh[k]
    <3>1. "measure" \in JobPlaces
      BY DEF JobPlaces
    <3> QED
      BY <1>6, <3>1, RefreshFields, FreshJobs DEF Mark
  <2>3. MarkedRunsAreBridged'
    BY <1>1, <2>1 DEF MarkedRunsAreBridged, HeldRunsAreBridged
  <2>4. HeldRunsAreBridged'
    <3>1. \A x \in 1 .. 0 : FALSE
      OBVIOUS
    <3> QED
      BY <1>1, <2>1, <2>2, <3>1 DEF HeldRunsAreBridged
  <2>5. BridgedOnce'
    BY <1>1, <2>1 DEF BridgedOnce
  <2>6. OneBridges'
    <3>1. CASE tangled
      BY <2>1, <3>1 DEF OneBridges
    <3>2. CASE ~tangled
      <4>1. /\ \A k \in Jobs : Bridges(k) => k = j
            /\ refresh[j].last = watermark
            /\ \A x \in 1 .. MaxExecRows : x > refresh[j].newest => bridged[x] = 0
        BY <1>1, <2>1, <3>2 DEF OneBridges
      <4>2. watermark' = refresh[j].newest
        BY <2>1, <4>1
      <4>3. \A k \in Jobs : ~Bridges(k)'
        BY <2>2, <4>1 DEF Bridges
      <4> QED
        BY <2>1, <4>1, <4>2, <4>3 DEF OneBridges
    <3> QED
      BY <3>1, <3>2
  <2> QED
    BY <2>3, <2>4, <2>5, <2>6
<1>10. ASSUME NEW j \in Jobs, MarkFails(j)
       PROVE  MarkedRunsAreBridged' /\ BridgedOnce' /\ HeldRunsAreBridged' /\ OneBridges'
  <2>1. /\ watermark' \in {watermark} \union 0 .. refresh[j].newest
        /\ refresh[j].newest \in Nat /\ UNCHANGED bridged /\ tangled'
    BY <1>10, RefreshFields DEF MarkFails
  <2>2. /\ refresh'[j].newest = 0
        /\ \A k \in Jobs \ {j} : refresh'[k] = refresh[k]
    <3>1. "measure" \in JobPlaces
      BY DEF JobPlaces
    <3> QED
      BY <1>10, <3>1, RefreshFields, FreshJobs DEF MarkFails
  <2>3. MarkedRunsAreBridged'
    BY <1>1, <2>1 DEF MarkedRunsAreBridged, HeldRunsAreBridged
  <2>4. HeldRunsAreBridged'
    <3>1. \A x \in 1 .. 0 : FALSE
      OBVIOUS
    <3> QED
      BY <1>1, <2>1, <2>2, <3>1 DEF HeldRunsAreBridged
  <2> QED
    BY <2>1, <2>3, <2>4 DEF BridgedOnce, OneBridges
<1>7. ASSUME NEW j \in Jobs,
             BridgeFails(j) \/ Gauge(j) \/ Publish(j) \/ Copy(j)
      PROVE  MarkedRunsAreBridged' /\ BridgedOnce' /\ HeldRunsAreBridged' /\ OneBridges'
  <2>1. ASSUME NEW k \in Jobs
        PROVE  /\ refresh'[k].last = refresh[k].last
               /\ refresh'[k].newest = refresh[k].newest
               /\ refresh'[k].at \in {"bridge", "mark"} <=> refresh[k].at \in {"bridge", "mark"}
    <3>1. refresh \in [Jobs -> JobRecords]
      BY RefreshFields
    <3>2. CASE BridgeFails(j)
      BY <3>1, <3>2 DEF BridgeFails, JobRecords
    <3>3. CASE Gauge(j)
      BY <3>1, <3>3 DEF Gauge, JobRecords
    <3>4. CASE Publish(j)
      BY <3>1, <3>4 DEF Publish, JobRecords
    <3>5. CASE Copy(j)
      BY <3>1, <3>5 DEF Copy, JobRecords
    <3> QED
      BY <1>7, <3>2, <3>3, <3>4, <3>5
  <2>2. UNCHANGED <<watermark, bridged, tangled>>
    BY <1>7 DEF BridgeFails, Gauge, Publish, Copy
  <2> QED
    BY <2>1, <2>2, QuietSteps
<1>8. ASSUME NEW j \in Jobs, Fill(j)
      PROVE  MarkedRunsAreBridged' /\ BridgedOnce' /\ HeldRunsAreBridged' /\ OneBridges'
  <2>1. ASSUME NEW k \in Jobs \ {j}
        PROVE  /\ refresh'[k].last = refresh[k].last
               /\ refresh'[k].newest = refresh[k].newest
               /\ refresh'[k].at = refresh[k].at
    BY <1>8, RefreshFields DEF Fill, JobRecords
  <2>2. refresh'[j].newest = 0 /\ refresh'[j].at = "none" /\ refresh[j].at = "fill"
    BY <1>8 DEF Fill, NoJob
  <2>3. UNCHANGED <<watermark, bridged, tangled>>
    BY <1>8 DEF Fill
  <2> QED
    BY <2>1, <2>2, <2>3, QuietSteps
<1>9. ASSUME NEW j \in Jobs, JobDies(j)
      PROVE  MarkedRunsAreBridged' /\ BridgedOnce' /\ HeldRunsAreBridged' /\ OneBridges'
  <2>1. \A k \in Jobs \ {j} : refresh'[k] = refresh[k]
    BY <1>9, RefreshFields DEF JobDies
  <2>2. refresh'[j].newest = 0 /\ refresh'[j].at = "none"
    BY <1>9, RefreshFields DEF JobDies, NoJob
  <2>3. /\ UNCHANGED <<watermark, bridged>>
        /\ tangled' = (tangled \/ refresh[j].at \in {"bridge", "mark"})
    BY <1>9 DEF JobDies
  <2> QED
    BY <2>1, <2>2, <2>3, QuietSteps
<1> QED
  BY <1>2, <1>3, <1>4, <1>5, <1>6, <1>7, <1>8, <1>9, <1>10
     DEF RefreshNext

-----------------------------------------------------------------------------

\* A step of a job under way: the other jobs stay where they are and what they saw.
LEMMA OthersStay ==
  ASSUME RefreshIInv, NEW j \in Jobs,
         \/ Bridge(j) \/ BridgeFails(j) \/ Mark(j) \/ MarkFails(j) \/ Gauge(j)
         \/ Publish(j) \/ Copy(j) \/ Fill(j) \/ JobDies(j)
  PROVE  /\ refresh[j].at # "none"
         /\ \A k \in Jobs \ {j} :
              /\ refresh'[k].at = refresh[k].at
              /\ refresh'[k].seen = refresh[k].seen /\ refresh'[k].since = refresh[k].since
<1>1. refresh[j].at # "none"
  BY DEF Bridge, BridgeFails, Mark, MarkFails, BridgeEnds, Gauge, Publish, Copy, Fill, JobDies
<1>2. ASSUME NEW k \in Jobs \ {j}
      PROVE  refresh'[k] = refresh[k] \/ refresh'[k] = [refresh[k] EXCEPT !.over = TRUE]
  <2>1. CASE Fill(j)
    BY <2>1 DEF Fill
  <2>2. CASE ~Fill(j)
    BY <2>2, RefreshFields DEF Bridge, BridgeFails, Mark, MarkFails, Gauge, Publish, Copy,
                                  JobDies
  <2> QED
    BY <2>1, <2>2
<1>3. ASSUME NEW k \in Jobs
      PROVE  /\ [refresh[k] EXCEPT !.over = TRUE].at = refresh[k].at
             /\ [refresh[k] EXCEPT !.over = TRUE].seen = refresh[k].seen
             /\ [refresh[k] EXCEPT !.over = TRUE].since = refresh[k].since
  BY RefreshFields DEF JobRecords
<1> QED
  BY <1>1, <1>2, <1>3

\* The engine's own refresh runs only after its run.
LEMMA OwnStaysAwaited ==
  ASSUME RefreshIInv, RefreshNext
  PROVE  OwnIsAwaited'
<1>1. /\ OwnIsAwaited /\ repair \in RepairRecords /\ Own \in Jobs
      /\ refresh \in [Jobs -> JobRecords] /\ breached \in BOOLEAN
  BY RefreshAssumption, RefreshFields, TypesAreThree DEF RefreshIInv, PayloadIsTyped
<1>2. CASE Shift
  BY <1>1, <1>2 DEF Shift, OwnIsAwaited, RepairRecords
<1>3. CASE BeginRepair
  BY <1>1, <1>3 DEF BeginRepair, NoRepair, OwnIsAwaited
<1>4. ASSUME NEW unread \in BOOLEAN, RepairIsDone(unread)
      PROVE  OwnIsAwaited'
  <2>1. PICK fixes \in BOOLEAN :
          /\ breached' = (breached /\ ~fixes)
          /\ repair' = [repair EXCEPT !.at = "refresh",
                                      !.helped = @ \/ (breached /\ fixes)]
    BY <1>4 DEF RepairIsDone
  <2>2. /\ repair'.at = "refresh" /\ repair'.verdict = repair.verdict
        /\ repair'.helped = (repair.helped \/ (breached /\ fixes))
    BY <1>1, <2>1 DEF RepairRecords
  <2>3. repair.at = "run"
    BY <1>4 DEF RepairIsDone
  <2> QED
    BY <1>1, <2>1, <2>2, <2>3 DEF OwnIsAwaited
<1>5. CASE RepairFails
  BY <1>1, <1>5 DEF RepairFails, OwnIsAwaited, RepairRecords
<1>6. CASE Judge
  BY <1>1, <1>6 DEF Judge, OwnHasEnded, OwnIsAwaited, RepairRecords
<1>7. ASSUME NEW j \in Jobs, NEW unread \in BOOLEAN, Start(j, unread)
      PROVE  OwnIsAwaited'
  BY <1>1, <1>7 DEF Start, OwnIsAwaited
<1>8. ASSUME NEW j \in Jobs,
             \/ Bridge(j) \/ BridgeFails(j) \/ Mark(j) \/ MarkFails(j) \/ Gauge(j)
             \/ Publish(j) \/ Copy(j) \/ Fill(j) \/ JobDies(j)
      PROVE  OwnIsAwaited'
  <2>1. /\ repair'.at = repair.at /\ repair'.verdict = repair.verdict
        /\ repair'.helped = repair.helped /\ breached' = breached
    BY <1>1, <1>8
       DEF Bridge, BridgeFails, Mark, MarkFails, Gauge, Publish, Copy, Fill, JobDies, RepairRecords
  <2>2. repair.at # "refresh" => j # Own /\ refresh'[Own].at = refresh[Own].at
    BY <1>1, <1>8, OthersStay DEF OwnIsAwaited
  <2> QED
    BY <1>1, <2>1, <2>2 DEF OwnIsAwaited
<1> QED
  BY <1>2, <1>3, <1>4, <1>5, <1>6, <1>7, <1>8 DEF RefreshNext

\* What was fair stays so while the run only helps more.
LEMMA FairStays ==
  ASSUME RefreshIInv, repair'.begun = repair.begun, repair.helped => repair'.helped,
         repair'.at = "refresh" => repair.at = "refresh" \/ refresh'[Own].at # "none",
         repair'.at # "none" /\ ~repair'.late => repair.at # "none" /\ ~repair.late,
         UNCHANGED <<data, wid>>,
         \A k \in Jobs :
           \/ /\ refresh'[k].at = refresh[k].at
              /\ refresh'[k].seen = refresh[k].seen
              /\ refresh'[k].since = refresh[k].since
           \/ /\ refresh'[k].at \in {"none", "bridge", "mark", "measure"}
              /\ k = Own => refresh'[k].at # "none" \/ repair'.late
  PROVE  MeasuresAreFair'
<1>1. MeasuresAreFair /\ Own \in Jobs
  BY RefreshAssumption DEF RefreshIInv
<1> SUFFICES ASSUME repair'.at # "none", ~repair'.late
             PROVE  /\ \A k \in Jobs : refresh'[k].at \in {"publish", "fill"}
                                          => Fair(refresh[k].since, refresh[k].seen)'
                    /\ (\E k \in Jobs : refresh'[k].at = "copy")
                         => Fair(data.since, data.breached)'
                    /\ OwnHasEnded' => Fair(wid.since, wid.breached)'
  BY DEF MeasuresAreFair
<1>2. repair.at # "none" /\ ~repair.late
  OBVIOUS
<1>3. ASSUME NEW k \in Jobs, refresh'[k].at \in {"publish", "fill"}
      PROVE  Fair(refresh[k].since, refresh[k].seen)'
  BY <1>1, <1>2, <1>3 DEF MeasuresAreFair, Fair
<1>4. ASSUME NEW k \in Jobs, refresh'[k].at = "copy"
      PROVE  Fair(data.since, data.breached)'
  BY <1>1, <1>2, <1>4 DEF MeasuresAreFair, Fair
<1>5. ASSUME OwnHasEnded'
      PROVE  Fair(wid.since, wid.breached)'
  <2>1. repair'.at = "refresh" /\ refresh'[Own].at = "none"
    BY <1>5 DEF OwnHasEnded
  <2>2. repair.at = "refresh" /\ refresh[Own].at = "none"
    BY <1>1, <2>1
  <2> QED
    BY <1>1, <1>2, <2>2 DEF MeasuresAreFair, Fair, OwnHasEnded
<1> QED
  BY <1>3, <1>4, <1>5

\* Every step leaves fair what is measured while the engine waits.
LEMMA MeasuresStayFair ==
  ASSUME RefreshIInv, RefreshNext
  PROVE  MeasuresAreFair'
<1>1. /\ OwnIsAwaited /\ MeasuresAreFair /\ repair \in RepairRecords /\ Own \in Jobs
      /\ refresh \in [Jobs -> JobRecords] /\ breached \in BOOLEAN
      /\ wid \in [breached : BOOLEAN, since : 0 .. MaxRepairs, torn : BOOLEAN]
  BY RefreshAssumption, RefreshFields, TypesAreThree DEF RefreshIInv, PayloadIsTyped
<1>2. CASE Shift
  <2>1. /\ repair'.begun = repair.begun /\ (repair.helped => repair'.helped)
        /\ repair'.at = repair.at /\ repair'.late = repair.late
    BY <1>1, <1>2 DEF Shift, RepairRecords
  <2> QED
    BY <1>2, <2>1, FairStays DEF Shift
<1>3. CASE BeginRepair
  <2>1. repair'.at = "run" /\ repair'.late = OthersAreLate /\ UNCHANGED refresh
    BY <1>3 DEF BeginRepair, NoRepair
  <2> QED
    BY <2>1 DEF MeasuresAreFair, OthersAreLate, OwnHasEnded
<1>4. ASSUME NEW unread \in BOOLEAN, RepairIsDone(unread)
      PROVE  MeasuresAreFair'
  <2>1. PICK fixes \in BOOLEAN :
          repair' = [repair EXCEPT !.at = "refresh",
                                   !.helped = @ \/ (breached /\ fixes)]
    BY <1>4 DEF RepairIsDone
  <2>2. /\ repair'.begun = repair.begun /\ (repair.helped => repair'.helped)
        /\ repair'.at = "refresh" /\ repair'.late = repair.late
    BY <1>1, <2>1 DEF RepairRecords
  <2>3. /\ repair.at = "run" /\ UNCHANGED <<data, wid>>
        /\ refresh'[Own].at = "bridge"
        /\ \A k \in Jobs \ {Own} : refresh'[k] = refresh[k]
    <3>1. Reads(execRows, unread).at = "bridge"
      BY RefreshFields, ReadJobs
    <3> QED
      BY <1>1, <1>4, <3>1 DEF RepairIsDone
  <2> QED
    BY <2>2, <2>3, FairStays
<1>5. CASE RepairFails \/ Judge
  <2>1. repair'.at = "none"
    BY <1>1, <1>5 DEF RepairFails, Judge, RepairRecords
  <2> QED
    BY <2>1 DEF MeasuresAreFair
<1>6. ASSUME NEW j \in Jobs, NEW unread \in BOOLEAN, Start(j, unread)
      PROVE  MeasuresAreFair'
  <2>1. /\ UNCHANGED <<data, wid, repair>> /\ refresh'[j].at = "bridge"
        /\ j # Own /\ \A k \in Jobs \ {j} : refresh'[k] = refresh[k]
    <3>1. execRows' \in Nat
      BY <1>6, RefreshFields DEF Start, Logged
    <3>2. Reads(execRows', unread).at = "bridge"
      BY <3>1, ReadJobs
    <3> QED
      BY <1>1, <1>6, <3>2 DEF Start
  <2> QED
    BY <2>1, FairStays
<1>7. ASSUME NEW j \in Jobs, Bridge(j) \/ BridgeFails(j) \/ Mark(j) \/ MarkFails(j)
      PROVE  MeasuresAreFair'
  <2>1. UNCHANGED <<data, wid, repair>>
    BY <1>7 DEF Bridge, BridgeFails, Mark, MarkFails
  <2>2. refresh'[j].at \in {"bridge", "mark", "measure"}
    <3>1. "measure" \in JobPlaces
      BY DEF JobPlaces
    <3>2. CASE Mark(j) \/ MarkFails(j)
      BY <1>1, <3>1, <3>2, FreshJobs DEF Mark, MarkFails
    <3>3. CASE Bridge(j)
      BY <1>1, <3>3 DEF Bridge, JobRecords
    <3>4. CASE BridgeFails(j)
      BY <1>1, <3>4 DEF BridgeFails, JobRecords
    <3> QED
      BY <1>7, <3>2, <3>3, <3>4
  <2> QED
    BY <1>7, <2>1, <2>2, OthersStay, FairStays
<1>8. ASSUME NEW j \in Jobs, JobDies(j)
      PROVE  MeasuresAreFair'
  <2>1. /\ UNCHANGED <<data, wid>> /\ refresh'[j].at = "none"
        /\ repair'.begun = repair.begun /\ repair'.helped = repair.helped
        /\ repair'.at = repair.at /\ (repair.late => repair'.late)
        /\ j = Own => repair'.late
    BY <1>1, <1>8 DEF JobDies, NoJob, RepairRecords
  <2> QED
    BY <1>8, <2>1, OthersStay, FairStays
<1>9. ASSUME NEW j \in Jobs, Gauge(j)
      PROVE  MeasuresAreFair'
  <2>1. /\ UNCHANGED <<data, wid, repair>>
        /\ refresh'[j].at = "publish" /\ refresh'[j].seen = breached
        /\ refresh'[j].since = repair.begun
    BY <1>1, <1>9 DEF Gauge, JobRecords
  <2>2. ASSUME repair.at # "none", ~repair.late
        PROVE  /\ \A k \in Jobs : refresh'[k].at \in {"publish", "fill"}
                     => /\ refresh'[k].since = repair.begun
                        /\ ~refresh'[k].seen => repair.helped
               /\ (\E k \in Jobs : refresh'[k].at = "copy")
                     => \E k \in Jobs : refresh[k].at = "copy"
               /\ refresh'[Own].at = "none" => refresh[Own].at = "none"
    <3>1. breached \/ repair.helped
      BY <1>1, <2>2 DEF OwnIsAwaited
    <3>2. \A k \in Jobs : refresh[k].at \in {"publish", "fill"}
             => Fair(refresh[k].since, refresh[k].seen)
      BY <1>1, <2>2 DEF MeasuresAreFair
    <3> QED
      BY <1>1, <1>9, <2>1, <3>1, <3>2, OthersStay DEF Fair
  <2> QED
    BY <1>1, <2>1, <2>2 DEF MeasuresAreFair, Fair, OwnHasEnded
<1>10. ASSUME NEW j \in Jobs, Publish(j)
       PROVE  MeasuresAreFair'
  <2>1. /\ UNCHANGED <<wid, repair>> /\ refresh[j].at = "publish"
        /\ refresh'[j].at = "copy"
        /\ data' = [breached |-> refresh[j].seen, since |-> refresh[j].since]
    BY <1>1, <1>10 DEF Publish, JobRecords
  <2>2. data'.breached = refresh[j].seen /\ data'.since = refresh[j].since
    BY <2>1
  <2>3. ASSUME repair.at # "none", ~repair.late
        PROVE  /\ \A k \in Jobs : refresh'[k].at \in {"publish", "fill"}
                     => /\ refresh'[k].since = repair.begun
                        /\ ~refresh'[k].seen => repair.helped
               /\ data'.since = repair.begun /\ (~data'.breached => repair.helped)
               /\ refresh'[Own].at = "none" => refresh[Own].at = "none"
    <3>1. \A k \in Jobs : refresh[k].at \in {"publish", "fill"}
             => Fair(refresh[k].since, refresh[k].seen)
      BY <1>1, <2>3 DEF MeasuresAreFair
    <3> QED
      BY <1>1, <1>10, <2>1, <2>2, <3>1, OthersStay DEF Fair
  <2> QED
    BY <1>1, <2>1, <2>3 DEF MeasuresAreFair, Fair, OwnHasEnded
<1>11. ASSUME NEW j \in Jobs, Copy(j)
       PROVE  MeasuresAreFair'
  <2>1. /\ UNCHANGED <<data, repair>> /\ refresh[j].at = "copy"
        /\ refresh'[j].at = "fill" /\ refresh'[j].seen = data.breached
        /\ refresh'[j].since = data.since
        /\ wid'.since = wid.since /\ wid'.breached = wid.breached
    BY <1>1, <1>11 DEF Copy, JobRecords
  <2>2. ASSUME repair.at # "none", ~repair.late
        PROVE  /\ \A k \in Jobs : refresh'[k].at \in {"publish", "fill"}
                     => /\ refresh'[k].since = repair.begun
                        /\ ~refresh'[k].seen => repair.helped
               /\ data.since = repair.begun /\ (~data.breached => repair.helped)
               /\ refresh'[Own].at = "none" => refresh[Own].at = "none"
    <3>1. /\ \A k \in Jobs : refresh[k].at \in {"publish", "fill"}
             => Fair(refresh[k].since, refresh[k].seen)
          /\ Fair(data.since, data.breached)
      BY <1>1, <2>1, <2>2 DEF MeasuresAreFair
    <3> QED
      BY <1>1, <1>11, <2>1, <3>1, OthersStay DEF Fair
  <2> QED
    BY <1>1, <2>1, <2>2 DEF MeasuresAreFair, Fair, OwnHasEnded
<1>12. ASSUME NEW j \in Jobs, Fill(j)
       PROVE  MeasuresAreFair'
  <2>1. /\ UNCHANGED <<data, repair>> /\ refresh[j].at = "fill"
        /\ refresh'[j].at = "none"
        /\ wid'.since = refresh[j].since /\ wid'.breached = refresh[j].seen
    BY <1>1, <1>12 DEF Fill, NoJob
  <2>2. ASSUME repair.at # "none", ~repair.late
        PROVE  /\ \A k \in Jobs : refresh'[k].at \in {"publish", "fill"}
                     => /\ refresh'[k].since = repair.begun
                        /\ ~refresh'[k].seen => repair.helped
               /\ (\E k \in Jobs : refresh'[k].at = "copy")
                     => \E k \in Jobs : refresh[k].at = "copy"
               /\ wid'.since = repair.begun /\ (~wid'.breached => repair.helped)
    <3>1. \A k \in Jobs : refresh[k].at \in {"publish", "fill"}
             => Fair(refresh[k].since, refresh[k].seen)
      BY <1>1, <2>2 DEF MeasuresAreFair
    <3> QED
      BY <1>1, <1>12, <2>1, <3>1, OthersStay DEF Fair
  <2> QED
    BY <1>1, <2>1, <2>2 DEF MeasuresAreFair, Fair, OwnHasEnded
<1> QED
  BY <1>2, <1>3, <1>4, <1>5, <1>6, <1>7, <1>8, <1>9, <1>10, <1>11, <1>12 DEF RefreshNext

\* A verdict is read from a payload that is fair.
LEMMA VerdictStaysEarned ==
  ASSUME RefreshIInv, RefreshNext
  PROVE  VerdictIsEarned'
<1>1. /\ OwnIsAwaited /\ MeasuresAreFair /\ VerdictIsEarned /\ repair \in RepairRecords
      /\ wid \in [breached : BOOLEAN, since : 0 .. MaxRepairs, torn : BOOLEAN]
  BY TypesAreThree DEF RefreshIInv, PayloadIsTyped
<1>2. ASSUME repair'.verdict = repair.verdict, repair'.read = repair.read,
             repair'.begun = repair.begun, repair'.misread = repair.misread,
             repair.late => repair'.late, repair.helped => repair'.helped
      PROVE  VerdictIsEarned'
  BY <1>1, <1>2 DEF VerdictIsEarned
<1>3. CASE Shift
  BY <1>1, <1>2, <1>3 DEF Shift, RepairRecords
<1>4. CASE BeginRepair
  BY <1>4 DEF BeginRepair, NoRepair, VerdictIsEarned
<1>5. ASSUME NEW unread \in BOOLEAN, RepairIsDone(unread)
      PROVE  VerdictIsEarned'
  <2>1. PICK fixes \in BOOLEAN :
          repair' = [repair EXCEPT !.at = "refresh",
                                   !.helped = @ \/ (breached /\ fixes)]
    BY <1>5 DEF RepairIsDone
  <2> QED
    BY <1>1, <1>2, <2>1 DEF RepairRecords
<1>6. CASE RepairFails
  BY <1>1, <1>6 DEF RepairFails, VerdictIsEarned, RepairRecords
<1>7. CASE Judge
  <2>1. /\ repair'.read = wid.since /\ repair'.misread = wid.torn
        /\ repair'.verdict = "improved" => wid.torn \/ ~wid.breached
        /\ repair'.begun = repair.begun /\ repair'.helped = repair.helped
        /\ repair'.late = repair.late
    BY <1>1, <1>7 DEF Judge, RepairRecords
  <2>2. ~repair.late => Fair(wid.since, wid.breached)
    BY <1>1, <1>7 DEF Judge, OwnHasEnded, MeasuresAreFair
  <2> QED
    BY <2>1, <2>2 DEF VerdictIsEarned, Fair
<1>10. ASSUME NEW j \in Jobs, NEW unread \in BOOLEAN, Start(j, unread)
       PROVE  VerdictIsEarned'
  <2>1. UNCHANGED repair
    BY <1>10 DEF Start
  <2> QED
    BY <1>2, <2>1
<1>8. ASSUME NEW j \in Jobs,
             \/ Bridge(j) \/ BridgeFails(j) \/ Mark(j) \/ MarkFails(j) \/ Gauge(j)
             \/ Publish(j) \/ Copy(j) \/ Fill(j)
      PROVE  VerdictIsEarned'
  <2>1. UNCHANGED repair
    BY <1>8 DEF Bridge, BridgeFails, Mark, MarkFails, Gauge, Publish, Copy, Fill
  <2> QED
    BY <1>2, <2>1
<1>9. ASSUME NEW j \in Jobs, JobDies(j)
      PROVE  VerdictIsEarned'
  BY <1>1, <1>2, <1>9 DEF JobDies, RepairRecords
<1> QED
  BY <1>3, <1>4, <1>5, <1>6, <1>7, <1>8, <1>9, <1>10 DEF RefreshNext

-----------------------------------------------------------------------------

\* The first state: no job is under way, and nothing was measured.
LEMMA RefreshStarts == RefreshInit => RefreshIInv
<1> SUFFICES ASSUME RefreshInit PROVE RefreshIInv
  OBVIOUS
<1>1. {MaxExecRows, MaxRepairs, MaxShifts, MaxStarts, MaxFaults} \subseteq Nat
  BY RefreshAssumption
<1>2. "none" \in JobPlaces /\ NoRepair.at = "none" /\ NoRepair.verdict = "none"
  BY DEF JobPlaces, NoRepair
<1>3. refresh \in [Jobs -> JobRecords] /\ \A j \in Jobs : refresh[j] = NoJob
  BY <1>2, FreshJobs DEF RefreshInit
<1>4. JobsAreTyped
  <2>1. 0 \in 0 .. execRows /\ 0 <= 0
    BY DEF RefreshInit
  <2>2. ASSUME NEW j \in Jobs
        PROVE  refresh[j].last = 0 /\ refresh[j].upto = 0 /\ refresh[j].newest = 0
    BY <1>2, <1>3, FreshJobs
  <2> QED
    BY <1>3, <2>1, <2>2 DEF JobsAreTyped
<1>5. LogIsTyped
  BY <1>1, <1>2 DEF RefreshInit, LogIsTyped
<1>6. PayloadIsTyped
  <2>1. repair \in RepairRecords
    BY <1>1 DEF RefreshInit, NoRepair, RepairRecords
  <2>2. room \in RoomRecords
    BY <1>1 DEF RefreshInit, RoomRecords
  <2>3. /\ data \in [breached : BOOLEAN, since : 0 .. MaxRepairs]
        /\ wid \in [breached : BOOLEAN, since : 0 .. MaxRepairs, torn : BOOLEAN]
    BY <1>1 DEF RefreshInit
  <2>4. breached \in BOOLEAN /\ tangled \in BOOLEAN
    BY DEF RefreshInit
  <2> QED
    BY <2>1, <2>2, <2>3, <2>4 DEF PayloadIsTyped
<1>7. HeldRunsAreBridged /\ MarkedRunsAreBridged
  <2>1. \A i \in 1 .. 0 : FALSE
    OBVIOUS
  <2> QED
    BY <1>2, <1>3, <2>1, FreshJobs
       DEF RefreshInit, HeldRunsAreBridged, MarkedRunsAreBridged
<1>8. BridgedOnce /\ OneBridges
  <2>1. \A i \in 1 .. MaxExecRows : bridged[i] = 0
    BY DEF RefreshInit
  <2>2. \A j \in Jobs : ~Bridges(j)
    BY <1>2, <1>3, FreshJobs DEF Bridges
  <2> QED
    BY <2>1, <2>2 DEF BridgedOnce, OneBridges
<1>9. OwnIsAwaited /\ MeasuresAreFair /\ VerdictIsEarned
  BY <1>2, <1>3, FreshJobs, RefreshAssumption
     DEF RefreshInit, OwnIsAwaited, MeasuresAreFair, VerdictIsEarned
<1> QED
  BY <1>4, <1>5, <1>6, <1>7, <1>8, <1>9, TypesAreThree DEF RefreshIInv

\* For any number of refreshes and runs of the engine, which may overlap and die: the
\* watermark passes no run that has not become an event, none becomes two unless two
\* refreshes bridged at once, one died doing it or the watermark could not be read or
\* written, and the engine judges its run by what
\* was measured after it (refresh_dashboard.py, reflex-engine.ts).
THEOREM VerdictsAreEarned == RefreshSpec => []RefreshInv
<1>1. RefreshIInv /\ [RefreshNext]_refreshVars => RefreshIInv'
  <2>1. ASSUME RefreshIInv, RefreshNext PROVE RefreshIInv'
    <3>1. RefreshTypeOK' /\ RowsAreReserved'
      BY <2>1, JobsStayTyped, LogStaysTyped, PayloadStaysTyped, TypesAreThreeNext
    <3> QED
      BY <2>1, <3>1, BridgesStay, OwnStaysAwaited, MeasuresStayFair, VerdictStaysEarned
         DEF RefreshIInv
  <2>2. ASSUME RefreshIInv, UNCHANGED refreshVars PROVE RefreshIInv'
    <3>1. RefreshTypeOK' /\ RowsAreReserved'
      BY <2>2 DEF refreshVars, RefreshIInv, RefreshTypeOK, RowsAreReserved
    <3>2. /\ MarkedRunsAreBridged' /\ BridgedOnce' /\ HeldRunsAreBridged' /\ OneBridges'
          /\ OwnIsAwaited' /\ MeasuresAreFair' /\ VerdictIsEarned'
      BY <2>2 DEF refreshVars, RefreshIInv, MarkedRunsAreBridged, BridgedOnce,
                  HeldRunsAreBridged, OneBridges, Bridges, OwnIsAwaited,
                  MeasuresAreFair, Fair, OwnHasEnded, VerdictIsEarned
    <3> QED
      BY <3>1, <3>2 DEF RefreshIInv
  <2> QED
    BY <2>1, <2>2
<1>2. RefreshIInv => RefreshInv
  BY DEF RefreshIInv, RefreshInv
<1> QED
  BY <1>1, <1>2, RefreshStarts, PTL DEF RefreshSpec

-----------------------------------------------------------------------------
\* A nonempty set of numbers has a least one.
LEMMA LeastExists ==
  ASSUME NEW T, T \subseteq Nat, T # {}
  PROVE  \E x \in T : \A y \in T : x <= y
<1> DEFINE R == OpToRel(<, Nat)
<1>1. IsWellFoundedOn(R, Nat)
  BY NatLessThanWellFounded
<1>2. \A x, y \in Nat : <<y, x>> \in R <=> y < x
  BY DEF OpToRel
<1> HIDE DEF R
<1>3. \E x \in T : \A y \in T : <<y, x>> \notin R
  BY <1>1, WFMin
<1>4. ASSUME NEW x \in T, NEW y \in T, <<y, x>> \notin R PROVE x <= y
  <2>1. x \in Nat /\ y \in Nat
    OBVIOUS
  <2>2. ~(y < x)
    BY <1>2, <1>4, <2>1
  <2> QED
    BY <2>1, <2>2
<1> QED
  BY <1>3, <1>4

-----------------------------------------------------------------------------
(* What a week once said is never taken back                                 *)

\* The rows there may be, and what holds of each: a weekly row is stamped with its
\* Monday and carries only what was observed before it, an idle one is not graded, and
\* a live row carries what it observed itself.
HistoryRows ==
  [kind : {"weekly", "live"}, week : Weeks, ts : 0 .. LastInstant,
   scout : {Unseen} \cup 1 .. LastInstant, loop : {Unseen} \cup 0 .. MaxWeekEvents,
   idle : BOOLEAN]

SoundRow(r, now) ==
  /\ r.ts <= now
  /\ r.kind = "weekly" =>
       /\ r.ts = 0 /\ (r.idle => r.loop = Unseen)
       /\ r.scout # Unseen => r.scout <= now /\ WeekOf(r.scout) < r.week
  /\ r.kind = "live" =>
       r.ts >= 1 /\ r.week = WeekOf(r.ts) /\ r.scout \in {Unseen, r.ts}

\* A week has one row, no live row stands twice, and none is newer than the newest.
OneRowPerWeek(rows) ==
  \A i, k \in DOMAIN rows :
    rows[i].kind = "weekly" /\ rows[k].kind = "weekly" /\ rows[i].week = rows[k].week
      => i = k

SoundRows(rows, now, live) ==
  /\ rows \in Seq(HistoryRows) /\ OneRowPerWeek(rows)
  /\ \A k \in DOMAIN rows : SoundRow(rows[k], now)
  /\ \A k \in 2 .. Len(rows) : rows[k].kind = "live" => rows[k] # rows[k - 1]
  /\ \A k \in DOMAIN rows : rows[k].kind = "live" => rows[k].ts <= live

\* What is promised of the store while it is whole.
KeepsThePast(rows, then, known) ==
  /\ then.live > 0 => \E k \in DOMAIN rows : rows[k].kind = "live" /\ rows[k].ts = then.live
  /\ \A w \in Weeks \ then.missed :
       then.scout[w] # Unseen =>
         \E k \in DOMAIN rows :
           rows[k].kind = "weekly" /\ rows[k].week = w /\ rows[k].scout = then.scout[w]
  /\ \A w \in then.idle \ then.missed :
       /\ \E k \in DOMAIN rows : rows[k].kind = "weekly" /\ rows[k].week = w
       /\ known[w].runs = 0 =>
            \A k \in DOMAIN rows :
              rows[k].kind = "weekly" /\ rows[k].week = w => rows[k].idle

\* What a rewrite is about to write of the store it has read.
Rewrites(prior, next, then, known) ==
  /\ then.live > 0 => \E k \in DOMAIN next : next[k].kind = "live" /\ next[k].ts = then.live
  /\ \A k \in DOMAIN next :
       next[k].kind = "weekly" => next[k].scout = Carried(prior, next[k].week)
  /\ \A w \in then.idle \ then.missed :
       known[w].runs = 0 =>
         \A k \in DOMAIN next :
           next[k].kind = "weekly" /\ next[k].week = w => next[k].idle

\* Weeks, and what is left of their events.
WeeksAreTyped ==
  /\ instant \in 1 .. LastInstant /\ fitted \in BOOLEAN
  /\ weekly \in [Weeks -> [runs : Nat, bridged : Nat, hearts : BOOLEAN]]
  /\ slack \in [snapshots : Nat, events : Nat, breaks : Nat]
  /\ \A w \in Weeks : /\ weekly[w].bridged <= weekly[w].runs
                      /\ weekly[w].bridged + slack.events <= MaxWeekEvents
  /\ past \in [torn : BOOLEAN, missed : SUBSET Weeks, live : Nat,
               scout : [Weeks -> {Unseen} \cup 1 .. LastInstant], idle : SUBSET Weeks]

\* A week as a rebuild saw it, now or earlier.
RebuiltRow(r, known) ==
  /\ r \in HistoryRows /\ r.kind = "weekly" /\ r.ts = 0 /\ r.scout = Unseen
  /\ r.idle => r.loop = Unseen
  /\ r.loop # Unseen => r.loop <= known[r.week].bridged

SnapshotRecords ==
  [at : {"none", "merge", "write", "calibrate", "measure", "append"},
   rows : Seq(HistoryRows), now : HistoryRows \cup {Unseen}]

SnapshotsAreSound ==
  /\ snapshot \in [Snapshots -> SnapshotRecords]
  /\ \A s \in Snapshots :
       /\ OneRowPerWeek(snapshot[s].rows)
       /\ \A k \in DOMAIN snapshot[s].rows : RebuiltRow(snapshot[s].rows[k], weekly)
       /\ snapshot[s].at = "append" =>
            /\ snapshot[s].now \in HistoryRows /\ snapshot[s].now.kind = "live"
            /\ SoundRow(snapshot[s].now, instant)
       /\ snapshot[s].at = "write" => flock.by = s

StoreIsSound ==
  /\ SoundRows(store, instant, past.live)
  /\ flock \in [by : {Unseen} \cup Snapshots, prior : Seq(HistoryRows),
                next : Seq(HistoryRows)]
  /\ Whole => KeepsThePast(store, past, weekly)
  /\ flock.by # Unseen =>
       /\ SoundRows(flock.prior, instant, past.live)
       /\ SoundRows(flock.next, instant, past.live)
       /\ ~past.torn => /\ KeepsThePast(flock.prior, past, weekly)
                        /\ Rewrites(flock.prior, flock.next, past, weekly)

HistoryIInv == WeeksAreTyped /\ SnapshotsAreSound /\ StoreIsSound

-----------------------------------------------------------------------------

\* Instants and their weeks.
LEMMA WeekFacts ==
  /\ LastInstant \in Nat /\ MaxWeekEvents \in Nat /\ Unseen \notin Int
  /\ \A t \in Nat : WeekOf(t) \in Nat
  /\ \A t, u \in Nat : t <= u => WeekOf(t) <= WeekOf(u)
  /\ \A t \in 1 .. LastInstant : WeekOf(t) \in Weeks
  /\ Weeks \subseteq Nat
BY HistoryAssumption DEF WeekOf, Weeks

\* The fields of a row.
LEMMA RowFields ==
  ASSUME NEW r \in HistoryRows
  PROVE  /\ r.kind \in {"weekly", "live"} /\ r.week \in Weeks /\ r.week \in Nat
         /\ r.ts \in 0 .. LastInstant /\ r.ts \in Nat /\ r.idle \in BOOLEAN
         /\ r.scout \in {Unseen} \cup 1 .. LastInstant
         /\ r.loop \in {Unseen} \cup 0 .. MaxWeekEvents
<1>1. /\ r.kind \in {"weekly", "live"} /\ r.week \in Weeks /\ r.ts \in 0 .. LastInstant
      /\ r.idle \in BOOLEAN /\ r.scout \in {Unseen} \cup 1 .. LastInstant
      /\ r.loop \in {Unseen} \cup 0 .. MaxWeekEvents
  BY DEF HistoryRows
<1>2. r.week \in Nat
  BY <1>1, WeekFacts
<1>3. r.ts \in Nat
  BY <1>1, WeekFacts
<1> QED
  BY <1>1, <1>2, <1>3

\* Rows come in the order of their time.
LEMMA TimeOrdersRows ==
  ASSUME NEW a \in HistoryRows, NEW b \in HistoryRows, NEW c \in HistoryRows
  PROVE  /\ ~Before(a, a)
         /\ Before(a, b) => ~Before(b, a)
         /\ Before(a, b) /\ Before(b, c) => Before(a, c)
         /\ Before(a, b) => Before(a, c) \/ Before(c, b)
<1>1. /\ a.week \in Nat /\ b.week \in Nat /\ c.week \in Nat
      /\ a.ts \in Nat /\ b.ts \in Nat /\ c.ts \in Nat
      /\ a.kind \in {"weekly", "live"} /\ b.kind \in {"weekly", "live"}
      /\ c.kind \in {"weekly", "live"}
  BY RowFields
<1> QED
  BY <1>1 DEF Before

\* The places of a file.
LEMMA PlacesAreFinite ==
  ASSUME NEW rows \in Seq(HistoryRows)
  PROVE  /\ DOMAIN rows = 1 .. Len(rows) /\ Len(rows) \in Nat
         /\ IsFiniteSet(DOMAIN rows) /\ Cardinality(DOMAIN rows) = Len(rows)
         /\ \A k \in DOMAIN rows : rows[k] \in HistoryRows
<1>1. DOMAIN rows = 1 .. Len(rows) /\ Len(rows) \in Nat
  OBVIOUS
<1>2. IsFiniteSet(1 .. Len(rows)) /\ Cardinality(1 .. Len(rows)) = Len(rows)
  <2>1. 1 <= Len(rows) => Len(rows) - 1 + 1 = Len(rows)
    BY <1>1
  <2> QED
    BY <1>1, <2>1, FS_Interval
<1> QED
  BY <1>1, <1>2

\* The rank of a row is how many come before it; a later row has a higher one.
LEMMA RanksGrow ==
  ASSUME NEW rows \in Seq(HistoryRows), NEW a \in DOMAIN rows, NEW b \in DOMAIN rows
  PROVE  /\ Rank(rows, a) \in Nat /\ Rank(rows, a) <= Len(rows)
         /\ Before(rows[a], rows[b]) => Rank(rows, a) < Rank(rows, b)
<1> DEFINE Under(k) == {i \in DOMAIN rows : Before(rows[i], rows[k])
                                            \/ (~Before(rows[k], rows[i]) /\ i < k)}
<1>1. ASSUME NEW k \in DOMAIN rows
      PROVE  /\ IsFiniteSet(Under(k)) /\ Cardinality(Under(k)) \in Nat
             /\ Cardinality(Under(k)) <= Len(rows) /\ Rank(rows, k) = Cardinality(Under(k))
  <2>1. Under(k) \in SUBSET DOMAIN rows
    OBVIOUS
  <2>2. Rank(rows, k) = Cardinality(Under(k))
    BY DEF Rank
  <2> HIDE DEF Under
  <2>3. IsFiniteSet(Under(k)) /\ Cardinality(Under(k)) <= Len(rows)
    BY <2>1, PlacesAreFinite, FS_Subset
  <2> QED
    BY <2>2, <2>3, FS_CardinalityType
<1>2. ASSUME Before(rows[a], rows[b])
      PROVE  Under(a) \subseteq Under(b) /\ a \in Under(b) /\ a \notin Under(a)
  <2>1. a \in Under(b)
    BY <1>2
  <2>2. a \notin Under(a)
    BY PlacesAreFinite, TimeOrdersRows
  <2>3. ASSUME NEW i \in Under(a) PROVE Before(rows[i], rows[b])
    <3>1. i \in DOMAIN rows /\ (Before(rows[i], rows[a]) \/ ~Before(rows[a], rows[i]))
      OBVIOUS
    <3>2. rows[i] \in HistoryRows /\ rows[a] \in HistoryRows /\ rows[b] \in HistoryRows
      BY <3>1, PlacesAreFinite
    <3>3. CASE Before(rows[i], rows[a])
      BY <1>2, <3>2, <3>3, TimeOrdersRows
    <3>4. CASE ~Before(rows[a], rows[i])
      BY <1>2, <3>2, <3>4, TimeOrdersRows
    <3> QED
      BY <3>1, <3>3, <3>4
  <2> QED
    BY <2>1, <2>2, <2>3
<1> HIDE DEF Under
<1>3. ASSUME Before(rows[a], rows[b]) PROVE Rank(rows, a) < Rank(rows, b)
  <2>1. /\ Cardinality(Under(a)) <= Cardinality(Under(b))
        /\ Cardinality(Under(a)) # Cardinality(Under(b))
    BY <1>1, <1>2, <1>3, FS_Subset
  <2> QED
    BY <1>1, <2>1
<1> QED
  BY <1>1, <1>3

\* Of some rows one is the last, and none of them comes after it.
LEMMA LastIsAmong ==
  ASSUME NEW rows \in Seq(HistoryRows), NEW K, K \subseteq DOMAIN rows, K # {}
  PROVE  /\ LastOf(rows, K) \in K
         /\ \A i \in K : ~Before(rows[LastOf(rows, K)], rows[i])
<1> DEFINE Behind == {Len(rows) - Rank(rows, k) : k \in K}
<1>1. ASSUME NEW k \in K
      PROVE  Rank(rows, k) \in Nat /\ Rank(rows, k) <= Len(rows) /\ Len(rows) \in Nat
  BY RanksGrow, PlacesAreFinite
<1>2. Behind \subseteq Nat /\ Behind # {}
  BY <1>1
<1> HIDE DEF Behind
<1>3. PICK x \in Behind : \A y \in Behind : x <= y
  BY <1>2, LeastExists
<1>4. PICK k \in K : x = Len(rows) - Rank(rows, k)
  BY DEF Behind
<1>5. ASSUME NEW i \in K PROVE Rank(rows, i) <= Rank(rows, k)
  <2>1. x <= Len(rows) - Rank(rows, i)
    BY <1>3 DEF Behind
  <2> QED
    BY <1>1, <1>4, <2>1
<1>6. LastOf(rows, K) \in K /\ \A i \in K : Rank(rows, i) <= Rank(rows, LastOf(rows, K))
  <2>1. \E z \in K : \A i \in K : Rank(rows, i) <= Rank(rows, z)
    BY <1>5
  <2> QED
    BY <2>1 DEF LastOf
<1>7. ASSUME NEW i \in K, Before(rows[LastOf(rows, K)], rows[i]) PROVE FALSE
  <2>1. /\ Rank(rows, LastOf(rows, K)) < Rank(rows, i)
        /\ Rank(rows, i) <= Rank(rows, LastOf(rows, K))
    BY <1>6, <1>7, RanksGrow
  <2>2. Rank(rows, LastOf(rows, K)) \in Nat /\ Rank(rows, i) \in Nat
    BY <1>1, <1>6
  <2> QED
    BY <2>1, <2>2
<1> QED
  BY <1>6, <1>7

-----------------------------------------------------------------------------
(* What a rebuild writes                                                      *)

\* What a week carries was observed before its Monday, and what its row carried
\* before is what it goes on carrying.
LEMMA CarriedIsOlder ==
  ASSUME NEW rows \in Seq(HistoryRows), \A k \in DOMAIN rows : SoundRow(rows[k], instant),
         instant \in 1 .. LastInstant, NEW w \in Weeks
  PROVE  /\ Carried(rows, w) \in {Unseen} \cup 1 .. LastInstant
         /\ Carried(rows, w) # Unseen
              => Carried(rows, w) <= instant /\ WeekOf(Carried(rows, w)) < w
         /\ \A k \in DOMAIN rows :
              /\ OneRowPerWeek(rows) /\ rows[k].kind = "weekly" /\ rows[k].week = w
              /\ rows[k].scout # Unseen
              => Carried(rows, w) = rows[k].scout
<1> DEFINE K == {k \in UpTo(rows, w) : rows[k].scout # Unseen}
           z == LastOf(rows, K)
<1>1. K \subseteq DOMAIN rows
  BY DEF UpTo
<1>2. Carried(rows, w) = IF K = {} THEN Unseen ELSE rows[z].scout
  BY DEF Carried
<1>3. ASSUME K # {}
      PROVE  /\ z \in K /\ z \in DOMAIN rows /\ rows[z] \in HistoryRows
             /\ \A i \in K : ~Before(rows[z], rows[i])
  BY <1>1, <1>3, LastIsAmong, PlacesAreFinite
<1>4. ASSUME K # {}
      PROVE  /\ rows[z].scout \in 1 .. LastInstant /\ rows[z].scout <= instant
             /\ WeekOf(rows[z].scout) < w
  <2>1. /\ rows[z].scout # Unseen /\ SoundRow(rows[z], instant)
        /\ rows[z].week < w \/ (rows[z].week = w /\ rows[z].kind = "weekly")
    BY <1>3, <1>4 DEF UpTo
  <2>2. /\ rows[z].kind \in {"weekly", "live"} /\ rows[z].scout \in 1 .. LastInstant
        /\ rows[z].week \in Nat /\ w \in Nat /\ rows[z].ts \in Nat
        /\ WeekOf(rows[z].scout) \in Nat
    BY <1>3, <1>4, <2>1, RowFields, WeekFacts
  <2> HIDE DEF z
  <2>3. CASE rows[z].kind = "weekly"
    BY <2>1, <2>2, <2>3 DEF SoundRow
  <2>4. CASE rows[z].kind = "live"
    BY <2>1, <2>2, <2>4 DEF SoundRow
  <2> QED
    BY <2>2, <2>3, <2>4
<1>5. ASSUME NEW k \in DOMAIN rows, OneRowPerWeek(rows), rows[k].kind = "weekly",
             rows[k].week = w, rows[k].scout # Unseen
      PROVE  K # {} /\ z = k
  <2>1. k \in K
    BY <1>5 DEF UpTo
  <2>2. /\ z \in K /\ rows[z] \in HistoryRows /\ ~Before(rows[z], rows[k])
        /\ rows[z].week < w \/ (rows[z].week = w /\ rows[z].kind = "weekly")
    BY <1>3, <2>1 DEF UpTo
  <2>3. z \in DOMAIN rows
    BY <1>3, <2>1
  <2> HIDE DEF z
  <2>4. ~(rows[z].week < w)
    BY <1>5, <2>2 DEF Before
  <2> QED
    BY <1>5, <2>1, <2>2, <2>3, <2>4 DEF OneRowPerWeek
<1> HIDE DEF K, z
<1> QED
  BY <1>2, <1>4, <1>5

\* Of the live rows the newest is kept, and no other.
LEMMA NewestIsKept ==
  ASSUME NEW rows \in Seq(HistoryRows), \A k \in DOMAIN rows : SoundRow(rows[k], instant)
  PROVE  /\ KeptLive(rows) \in Seq(HistoryRows) /\ Len(KeptLive(rows)) \in {0, 1}
         /\ Len(KeptLive(rows)) = 1 =>
              \E z \in DOMAIN rows :
                KeptLive(rows)[1] = rows[z] /\ rows[z].kind = "live"
         /\ \A k \in DOMAIN rows :
              rows[k].kind = "live" =>
                Len(KeptLive(rows)) = 1 /\ rows[k].ts <= KeptLive(rows)[1].ts
<1> DEFINE K == {k \in DOMAIN rows : rows[k].kind = "live"}
           z == LastOf(rows, K)
<1>1. KeptLive(rows) = IF K = {} THEN << >> ELSE << rows[z] >>
  BY DEF KeptLive
<1>2. ASSUME K # {}
      PROVE  /\ z \in K /\ z \in DOMAIN rows /\ rows[z] \in HistoryRows
             /\ \A i \in K : ~Before(rows[z], rows[i])
  BY <1>2, LastIsAmong, PlacesAreFinite
<1>3. ASSUME NEW k \in K PROVE rows[k].ts <= rows[z].ts
  <2>1. /\ rows[k] \in HistoryRows /\ rows[z] \in HistoryRows /\ SoundRow(rows[k], instant)
        /\ SoundRow(rows[z], instant) /\ ~Before(rows[z], rows[k])
        /\ rows[z].kind = "live" /\ rows[k].kind = "live"
    BY <1>2, <1>3, PlacesAreFinite
  <2>2. /\ rows[k].ts \in Nat /\ rows[z].ts \in Nat
        /\ rows[k].week \in Nat /\ rows[z].week \in Nat
    BY <2>1, RowFields
  <2>3. rows[k].week = WeekOf(rows[k].ts) /\ rows[z].week = WeekOf(rows[z].ts)
    BY <2>1 DEF SoundRow
  <2> HIDE DEF z
  <2>4. ASSUME rows[z].ts < rows[k].ts PROVE FALSE
    <3>1. rows[z].week <= rows[k].week
      <4>1. rows[z].ts <= rows[k].ts
        BY <2>2, <2>4
      <4>2. WeekOf(rows[z].ts) <= WeekOf(rows[k].ts)
        BY <2>2, <4>1, WeekFacts
      <4> QED
        BY <2>3, <4>2
    <3> QED
      BY <2>1, <2>2, <2>4, <3>1 DEF Before
  <2> QED
    BY <2>2, <2>4
<1>4. CASE K = {}
  <2>1. KeptLive(rows) = << >>
    BY <1>1, <1>4
  <2> QED
    BY <1>4, <2>1
<1>5. CASE K # {}
  <2>1. KeptLive(rows) = << rows[z] >>
    BY <1>1, <1>5
  <2>2. rows[z] \in HistoryRows /\ z \in DOMAIN rows /\ rows[z].kind = "live"
    BY <1>2, <1>5
  <2>3. \A k \in DOMAIN rows : rows[k].kind = "live" => rows[k].ts <= rows[z].ts
    BY <1>3
  <2> HIDE DEF z, K
  <2> QED
    BY <2>1, <2>2, <2>3
<1> QED
  BY <1>4, <1>5

\* A week's row as it is written.
LEMMA CarriedRow ==
  ASSUME NEW prior \in Seq(HistoryRows), \A k \in DOMAIN prior : SoundRow(prior[k], instant),
         instant \in 1 .. LastInstant, NEW r, RebuiltRow(r, weekly)
  PROVE  /\ CarryForward(r, prior) \in HistoryRows
         /\ CarryForward(r, prior).kind = "weekly" /\ SoundRow(CarryForward(r, prior), instant)
         /\ CarryForward(r, prior).week = r.week
         /\ CarryForward(r, prior).scout = Carried(prior, r.week)
         /\ StaysIdle(prior, r) => CarryForward(r, prior).idle
<1> DEFINE idle == r.idle \/ StaysIdle(prior, r)
           carried == Carried(prior, r.week)
           loop == IF idle THEN Unseen ELSE r.loop
           first == [r EXCEPT !.scout = carried]
           second == [first EXCEPT !.idle = idle]
           third == [second EXCEPT !.loop = loop]
<1>1. /\ r \in HistoryRows /\ r.kind = "weekly" /\ r.ts = 0 /\ r.week \in Weeks
      /\ r.idle \in BOOLEAN /\ r.loop \in {Unseen} \cup 0 .. MaxWeekEvents
  BY RowFields DEF RebuiltRow
<1>2. /\ carried \in {Unseen} \cup 1 .. LastInstant
      /\ carried # Unseen => carried <= instant /\ WeekOf(carried) < r.week
  BY <1>1, CarriedIsOlder
<1>3. idle \in BOOLEAN /\ loop \in {Unseen} \cup 0 .. MaxWeekEvents
  BY <1>1 DEF StaysIdle
<1>4. CarryForward(r, prior) = third
  BY <1>1 DEF CarryForward, HistoryRows
<1>5. (StaysIdle(prior, r) => idle) /\ (idle => loop = Unseen)
  OBVIOUS
<1> HIDE DEF idle, carried, loop
<1>6. /\ first \in HistoryRows /\ first.kind = "weekly" /\ first.ts = 0
      /\ first.week = r.week /\ first.scout = carried
  BY <1>1, <1>2 DEF HistoryRows
<1> HIDE DEF first
<1>7. /\ second \in HistoryRows /\ second.kind = "weekly" /\ second.ts = 0
      /\ second.week = r.week /\ second.scout = carried /\ second.idle = idle
  BY <1>3, <1>6 DEF HistoryRows
<1> HIDE DEF second
<1>8. /\ third \in HistoryRows /\ third.kind = "weekly" /\ third.ts = 0
      /\ third.week = r.week /\ third.scout = carried /\ third.idle = idle
      /\ third.loop = loop
  BY <1>3, <1>7 DEF HistoryRows
<1> HIDE DEF third
<1>9. SoundRow(third, instant)
  <2>1. 0 <= instant
    OBVIOUS
  <2> QED
    BY <1>2, <1>5, <1>8, <2>1 DEF SoundRow
<1> QED
  BY <1>4, <1>5, <1>8, <1>9 DEF carried

\* The rows of a merge: the weeks' own, and the newest live row of before.
LEMMA MergedRows ==
  ASSUME NEW prior \in Seq(HistoryRows), \A k \in DOMAIN prior : SoundRow(prior[k], instant),
         instant \in 1 .. LastInstant,
         NEW rows \in Seq(HistoryRows), \A k \in DOMAIN rows : RebuiltRow(rows[k], weekly)
  PROVE  /\ Merged(rows, prior) \in Seq(HistoryRows)
         /\ Len(Merged(rows, prior)) = Len(rows) + Len(KeptLive(prior))
         /\ \A k \in 1 .. Len(rows) : Merged(rows, prior)[k] = CarryForward(rows[k], prior)
         /\ Len(KeptLive(prior)) = 1 =>
              Merged(rows, prior)[Len(rows) + 1] = KeptLive(prior)[1]
<1> DEFINE weeks == [k \in DOMAIN rows |-> CarryForward(rows[k], prior)]
           kept == KeptLive(prior)
<1>1. DOMAIN rows = 1 .. Len(rows) /\ Len(rows) \in Nat
  BY PlacesAreFinite
<1>2. \A k \in DOMAIN rows : CarryForward(rows[k], prior) \in HistoryRows
  BY CarriedRow
<1>3. weeks \in [1 .. Len(rows) -> HistoryRows]
  BY <1>1, <1>2
<1>4. weeks \in Seq(HistoryRows) /\ Len(weeks) = Len(rows)
  BY <1>1, <1>3
<1>5. kept \in Seq(HistoryRows) /\ Len(kept) \in {0, 1}
  BY NewestIsKept
<1>6. Merged(rows, prior) = weeks \o kept
  BY DEF Merged
<1>7. \A k \in 1 .. Len(rows) : weeks[k] = CarryForward(rows[k], prior)
  BY <1>1
<1> HIDE DEF weeks, kept
<1>8. /\ weeks \o kept \in Seq(HistoryRows) /\ Len(weeks \o kept) = Len(rows) + Len(kept)
      /\ \A k \in 1 .. Len(rows) : (weeks \o kept)[k] = weeks[k]
      /\ Len(kept) = 1 => (weeks \o kept)[Len(rows) + 1] = kept[1]
  <2>1. weeks \o kept \in Seq(HistoryRows)
    BY <1>4, <1>5
  <2>2. Len(weeks \o kept) = Len(rows) + Len(kept)
    <3>1. weeks \in Seq(HistoryRows) /\ kept \in Seq(HistoryRows)
      BY <1>4, <1>5
    <3>2. Len(weeks \o kept) = Len(weeks) + Len(kept)
      BY <3>1
    <3> QED
      BY <1>4, <3>2
  <2>3. ASSUME NEW k \in 1 .. Len(rows) PROVE (weeks \o kept)[k] = weeks[k]
    <3>1. k \in 1 .. Len(weeks)
      BY <1>4
    <3> QED
      BY <1>1, <1>4, <1>5, <3>1
  <2>4. ASSUME Len(kept) = 1 PROVE (weeks \o kept)[Len(rows) + 1] = kept[1]
    <3>1. Len(rows) + 1 \in Len(weeks) + 1 .. Len(weeks) + Len(kept)
      BY <1>1, <1>4, <2>4
    <3>2. (Len(rows) + 1) - Len(weeks) = 1
      BY <1>1, <1>4
    <3> QED
      BY <1>1, <1>4, <1>5, <3>1, <3>2
  <2> QED
    BY <2>1, <2>2, <2>3, <2>4
<1> QED
  BY <1>6, <1>7, <1>8 DEF kept

\* Where a row of a merge comes from.
LEMMA MergedPlaces ==
  ASSUME NEW prior \in Seq(HistoryRows), \A k \in DOMAIN prior : SoundRow(prior[k], instant),
         instant \in 1 .. LastInstant,
         NEW rows \in Seq(HistoryRows), \A k \in DOMAIN rows : RebuiltRow(rows[k], weekly),
         NEW k \in DOMAIN Merged(rows, prior)
  PROVE  \/ /\ k \in 1 .. Len(rows) /\ k \in DOMAIN rows
            /\ Merged(rows, prior)[k] = CarryForward(rows[k], prior)
            /\ Merged(rows, prior)[k].kind = "weekly"
            /\ Merged(rows, prior)[k].week = rows[k].week
            /\ Merged(rows, prior)[k].scout = Carried(prior, rows[k].week)
            /\ SoundRow(Merged(rows, prior)[k], instant)
         \/ /\ k = Len(rows) + 1 /\ k = Len(Merged(rows, prior))
            /\ Len(KeptLive(prior)) = 1 /\ Merged(rows, prior)[k] = KeptLive(prior)[1]
            /\ \E z \in DOMAIN prior :
                 Merged(rows, prior)[k] = prior[z] /\ prior[z].kind = "live"
<1>1. /\ DOMAIN rows = 1 .. Len(rows) /\ Len(rows) \in Nat
      /\ DOMAIN Merged(rows, prior) = 1 .. Len(Merged(rows, prior))
  BY MergedRows, PlacesAreFinite
<1>2. Len(Merged(rows, prior)) = Len(rows) + Len(KeptLive(prior))
      /\ Len(KeptLive(prior)) \in {0, 1}
  BY MergedRows, NewestIsKept
<1>3. CASE k \in 1 .. Len(rows)
  <2>1. RebuiltRow(rows[k], weekly) /\ Merged(rows, prior)[k] = CarryForward(rows[k], prior)
    BY <1>1, <1>3, MergedRows
  <2> QED
    BY <1>1, <1>3, <2>1, CarriedRow
<1>4. CASE k \notin 1 .. Len(rows)
  <2>1. k = Len(rows) + 1 /\ Len(KeptLive(prior)) = 1 /\ k = Len(Merged(rows, prior))
    <3>1. k \in 1 .. (Len(rows) + Len(KeptLive(prior)))
      BY <1>1, <1>2
    <3>2. ASSUME NEW n \in Nat, NEW m \in {0, 1}, NEW x \in 1 .. (n + m), x \notin 1 .. n
          PROVE  x = n + 1 /\ m = 1 /\ x = n + m
      BY <3>2
    <3> QED
      BY <1>1, <1>2, <1>4, <3>1, <3>2
  <2>2. Merged(rows, prior)[k] = KeptLive(prior)[1]
    BY <2>1, MergedRows
  <2> QED
    BY <2>1, <2>2, NewestIsKept
<1> QED
  BY <1>3, <1>4

\* A merge keeps what the store says of the past.
LEMMA MergeIsSound ==
  ASSUME WeeksAreTyped, NEW prior, SoundRows(prior, instant, past.live),
         NEW rows \in Seq(HistoryRows), OneRowPerWeek(rows),
         \A k \in DOMAIN rows : RebuiltRow(rows[k], weekly)
  PROVE  /\ SoundRows(Merged(rows, prior), instant, past.live)
         /\ KeepsThePast(prior, past, weekly) => Rewrites(prior, Merged(rows, prior), past, weekly)
<1> DEFINE next == Merged(rows, prior)
<1>1. /\ prior \in Seq(HistoryRows) /\ \A k \in DOMAIN prior : SoundRow(prior[k], instant)
      /\ instant \in 1 .. LastInstant
      /\ \A k \in DOMAIN prior : prior[k].kind = "live" => prior[k].ts <= past.live
  BY DEF SoundRows, WeeksAreTyped
<1>2. /\ next \in Seq(HistoryRows) /\ DOMAIN next = 1 .. Len(next)
      /\ Len(next) = Len(rows) + Len(KeptLive(prior))
      /\ DOMAIN rows = 1 .. Len(rows) /\ Len(rows) \in Nat
      /\ Len(KeptLive(prior)) \in {0, 1}
  BY <1>1, MergedRows, PlacesAreFinite, NewestIsKept
<1>3. ASSUME NEW k \in DOMAIN next
      PROVE  \/ /\ k \in 1 .. Len(rows) /\ k \in DOMAIN rows
                /\ next[k] = CarryForward(rows[k], prior)
                /\ next[k].kind = "weekly" /\ next[k].week = rows[k].week
                /\ next[k].scout = Carried(prior, rows[k].week) /\ SoundRow(next[k], instant)
             \/ /\ k = Len(rows) + 1 /\ k = Len(next)
                /\ Len(KeptLive(prior)) = 1 /\ next[k] = KeptLive(prior)[1]
                /\ \E z \in DOMAIN prior : next[k] = prior[z] /\ prior[z].kind = "live"
  BY <1>1, <1>3, MergedPlaces
<1> HIDE DEF next
<1>4. OneRowPerWeek(next)
  <2>1. ASSUME NEW i \in DOMAIN next, NEW k \in DOMAIN next, next[i].kind = "weekly",
               next[k].kind = "weekly", next[i].week = next[k].week
        PROVE  i = k
    <3>1. /\ i \in DOMAIN rows /\ next[i].week = rows[i].week
          /\ k \in DOMAIN rows /\ next[k].week = rows[k].week
      BY <1>3, <2>1
    <3>2. rows[i].kind = "weekly" /\ rows[k].kind = "weekly"
      BY <3>1 DEF RebuiltRow
    <3> QED
      BY <2>1, <3>1, <3>2 DEF OneRowPerWeek
  <2> QED
    BY <2>1 DEF OneRowPerWeek
<1>5. ASSUME NEW k \in DOMAIN next PROVE SoundRow(next[k], instant)
  BY <1>1, <1>3
<1>6. ASSUME NEW k \in 2 .. Len(next), next[k].kind = "live" PROVE next[k] # next[k - 1]
  <2>1. k \in DOMAIN next
    BY <1>2
  <2>2. k = Len(rows) + 1
    BY <1>3, <1>6, <2>1
  <2>3. k - 1 \in DOMAIN next /\ k - 1 \in 1 .. Len(rows) /\ k - 1 # Len(rows) + 1
    <3>1. k - 1 = Len(rows) /\ k - 1 >= 1 /\ k - 1 # Len(rows) + 1
      <4>1. k \in Nat /\ 2 <= k /\ Len(rows) \in Nat
        <5>1. Len(next) \in Nat
          BY <1>2
        <5> QED
          BY <1>2, <1>6, <5>1
      <4> QED
        BY <2>2, <4>1
    <3>2. k - 1 \in 1 .. Len(rows)
      BY <1>2, <3>1
    <3>3. Len(rows) <= Len(next) /\ Len(next) \in Nat
      BY <1>2
    <3>4. k - 1 \in 1 .. Len(next)
      BY <1>2, <3>2, <3>3
    <3> QED
      BY <1>2, <3>1, <3>2, <3>4
  <2>4. next[k - 1].kind = "weekly"
    BY <1>3, <2>3
  <2> QED
    BY <1>6, <2>4
<1>7. ASSUME NEW k \in DOMAIN next, next[k].kind = "live" PROVE next[k].ts <= past.live
  BY <1>1, <1>3, <1>7
<1>8. ASSUME KeepsThePast(prior, past, weekly) PROVE Rewrites(prior, next, past, weekly)
  <2>1. ASSUME past.live > 0
        PROVE  \E k \in DOMAIN next : next[k].kind = "live" /\ next[k].ts = past.live
    <3>1. PICK z \in DOMAIN prior : prior[z].kind = "live" /\ prior[z].ts = past.live
      BY <1>8, <2>1 DEF KeepsThePast
    <3>2. Len(KeptLive(prior)) = 1 /\ past.live <= KeptLive(prior)[1].ts
      BY <1>1, <3>1, NewestIsKept
    <3>3. Len(rows) + 1 \in DOMAIN next
      BY <1>2, <3>2
    <3>4. ~(Len(rows) + 1 \in 1 .. Len(rows))
      BY <1>2
    <3>5. /\ next[Len(rows) + 1] = KeptLive(prior)[1]
          /\ \E x \in DOMAIN prior :
               next[Len(rows) + 1] = prior[x] /\ prior[x].kind = "live"
      BY <1>3, <3>3, <3>4
    <3>6. PICK x \in DOMAIN prior : next[Len(rows) + 1] = prior[x] /\ prior[x].kind = "live"
      BY <3>5
    <3>7. prior[x].ts <= past.live /\ past.live <= prior[x].ts /\ prior[x].ts \in Nat
          /\ past.live \in Nat
      <4>1. prior[x] \in HistoryRows
        BY <1>1, PlacesAreFinite
      <4>2. prior[x].ts \in Nat
        BY <4>1, RowFields
      <4>3. past.live \in Nat
        BY DEF WeeksAreTyped
      <4> QED
        BY <1>1, <3>2, <3>5, <3>6, <4>2, <4>3
    <3>8. prior[x].ts = past.live
      BY <3>7
    <3> QED
      BY <3>3, <3>6, <3>8
  <2>2. ASSUME NEW k \in DOMAIN next, next[k].kind = "weekly"
        PROVE  next[k].scout = Carried(prior, next[k].week)
    BY <1>3, <2>2
  <2>3. ASSUME NEW w \in past.idle \ past.missed, weekly[w].runs = 0,
               NEW k \in DOMAIN next, next[k].kind = "weekly", next[k].week = w
        PROVE  next[k].idle
    <3>1. /\ k \in DOMAIN rows /\ rows[k].week = w /\ RebuiltRow(rows[k], weekly)
          /\ next[k] = CarryForward(rows[k], prior)
      BY <1>3, <2>3
    <3>2. \E i \in DOMAIN prior :
            prior[i].kind = "weekly" /\ prior[i].week = w /\ prior[i].idle
      BY <1>8, <2>3 DEF KeepsThePast
    <3>3. rows[k].loop = Unseen \/ rows[k].loop = 0
      <4>1. /\ weekly[w].bridged \in Nat /\ weekly[w].bridged <= 0
            /\ rows[k].loop \in {Unseen} \cup 0 .. MaxWeekEvents
        <5>1. w \in Weeks /\ rows[k] \in HistoryRows
          BY <3>1, RowFields DEF RebuiltRow
        <5> QED
          BY <2>3, <5>1, RowFields DEF WeeksAreTyped
      <4>2. rows[k].loop # Unseen => rows[k].loop <= weekly[w].bridged
        BY <3>1 DEF RebuiltRow
      <4>3. CASE rows[k].loop # Unseen
        <5>1. rows[k].loop \in 0 .. MaxWeekEvents /\ MaxWeekEvents \in Nat
          BY <4>1, <4>3, WeekFacts
        <5>2. rows[k].loop \in Nat /\ rows[k].loop <= weekly[w].bridged
          BY <4>2, <4>3, <5>1
        <5> QED
          BY <4>1, <5>2
      <4> QED
        BY <4>3
    <3>4. StaysIdle(prior, rows[k])
      BY <2>3, <3>1, <3>2, <3>3 DEF StaysIdle
    <3> QED
      BY <1>1, <3>1, <3>4, CarriedRow
  <2> QED
    BY <2>1, <2>2, <2>3 DEF Rewrites
<1> QED
  BY <1>2, <1>4, <1>5, <1>6, <1>7, <1>8 DEF SoundRows, next

-----------------------------------------------------------------------------
(* Time goes on and weeks fill                                                *)

\* What is sound stays so when the clock goes on.
LEMMA SoundLater ==
  ASSUME NEW rows, NEW now \in Nat, NEW later \in Nat, now <= later,
         NEW live \in Nat, NEW newer \in Nat, live <= newer,
         SoundRows(rows, now, live)
  PROVE  SoundRows(rows, later, newer)
<1>1. rows \in Seq(HistoryRows)
  BY DEF SoundRows
<1>2. ASSUME NEW k \in DOMAIN rows PROVE SoundRow(rows[k], later)
  <2>1. rows[k] \in HistoryRows
    BY <1>1, PlacesAreFinite
  <2>2. SoundRow(rows[k], now) /\ rows[k].ts \in Nat
    BY <2>1, RowFields DEF SoundRows
  <2>3. rows[k].ts <= later
    BY <2>2 DEF SoundRow
  <2>4. ASSUME rows[k].kind = "weekly", rows[k].scout # Unseen PROVE rows[k].scout <= later
    <3>1. rows[k].scout <= now /\ rows[k].scout \in 1 .. LastInstant
      BY <2>1, <2>2, <2>4, RowFields DEF SoundRow
    <3>2. rows[k].scout \in Nat
      BY <3>1, WeekFacts
    <3> QED
      BY <3>1, <3>2
  <2> QED
    BY <2>2, <2>3, <2>4 DEF SoundRow
<1>3. ASSUME NEW k \in DOMAIN rows, rows[k].kind = "live" PROVE rows[k].ts <= newer
  <2>1. rows[k] \in HistoryRows
    BY <1>1, PlacesAreFinite
  <2>2. rows[k].ts \in Nat /\ rows[k].ts <= live
    BY <1>3, <2>1, RowFields DEF SoundRows
  <2> QED
    BY <2>2
<1> QED
  BY <1>1, <1>2, <1>3 DEF SoundRows

\* A week in which no run is logged had none before.
LEMMA KeptLater ==
  ASSUME NEW rows, NEW next, NEW then, NEW known, NEW more,
         then.idle \subseteq Weeks, \A w \in Weeks : more[w].runs = 0 => known[w].runs = 0
  PROVE  /\ KeepsThePast(rows, then, known) => KeepsThePast(rows, then, more)
         /\ Rewrites(rows, next, then, known) => Rewrites(rows, next, then, more)
<1>1. ASSUME NEW w \in then.idle \ then.missed, more[w].runs = 0 PROVE known[w].runs = 0
  BY <1>1
<1>2. ASSUME KeepsThePast(rows, then, known) PROVE KeepsThePast(rows, then, more)
  BY <1>1, <1>2 DEF KeepsThePast
<1>3. ASSUME Rewrites(rows, next, then, known) PROVE Rewrites(rows, next, then, more)
  BY <1>1, <1>3 DEF Rewrites
<1> QED
  BY <1>2, <1>3

\* The clock and the telemetry leave the store and the refreshes alone.
LEMMA WorldStays ==
  ASSUME HistoryIInv, instant' \in 1 .. LastInstant, instant <= instant',
         \A w \in Weeks : /\ weekly'[w].runs = 0 => weekly[w].runs = 0
                          /\ weekly[w].bridged <= weekly'[w].bridged
                          /\ weekly'[w].bridged \in Nat,
         UNCHANGED <<store, flock, snapshot, past>>
  PROVE  SnapshotsAreSound' /\ StoreIsSound'
<1>1. /\ instant \in Nat /\ instant' \in Nat /\ past.live \in Nat /\ past.live <= past.live
      /\ past.idle \subseteq Weeks /\ \A w \in Weeks : weekly[w].bridged \in Nat
  <2>1. past.live \in Nat /\ past.idle \subseteq Weeks
    BY DEF HistoryIInv, WeeksAreTyped
  <2>2. \A w \in Weeks : weekly[w].bridged \in Nat
    BY DEF HistoryIInv, WeeksAreTyped
  <2>3. instant \in Nat /\ instant' \in Nat
    BY WeekFacts DEF HistoryIInv, WeeksAreTyped
  <2> QED
    BY <2>1, <2>2, <2>3
<1>2. ASSUME NEW r, RebuiltRow(r, weekly) PROVE RebuiltRow(r, weekly')
  <2>1. r.loop # Unseen => r.loop <= weekly[r.week].bridged
    BY <1>2 DEF RebuiltRow
  <2>2. r.week \in Weeks /\ r.loop \in {Unseen} \cup 0 .. MaxWeekEvents
    BY <1>2, RowFields DEF RebuiltRow
  <2>3. r.loop # Unseen => r.loop <= weekly'[r.week].bridged
    <3>1. CASE r.loop # Unseen
      <4>1. r.loop \in Nat /\ weekly[r.week].bridged \in Nat /\ weekly'[r.week].bridged \in Nat
        <5>1. r.loop \in 0 .. MaxWeekEvents
          BY <2>2, <3>1
        <5>2. r.loop \in Nat
          BY <5>1, WeekFacts
        <5> QED
          BY <1>1, <2>2, <5>2
      <4>2. weekly[r.week].bridged <= weekly'[r.week].bridged
        BY <2>2
      <4> QED
        BY <2>1, <3>1, <4>1, <4>2
    <3> QED
      BY <3>1
  <2> QED
    BY <1>2, <2>3 DEF RebuiltRow
<1>3. ASSUME NEW r \in HistoryRows, SoundRow(r, instant) PROVE SoundRow(r, instant')
  <2>1. << r >> \in Seq(HistoryRows) /\ DOMAIN << r >> = {1} /\ << r >>[1] = r
    OBVIOUS
  <2>2. r.ts \in Nat /\ r.ts <= r.ts
    BY RowFields
  <2>3. SoundRows(<< r >>, instant, r.ts)
    <3>1. Len(<< r >>) = 1
      OBVIOUS
    <3> QED
      BY <1>3, <2>1, <2>2, <3>1 DEF SoundRows, OneRowPerWeek
  <2>4. SoundRows(<< r >>, instant', r.ts)
    BY <1>1, <2>2, <2>3, SoundLater
  <2> QED
    BY <2>1, <2>4 DEF SoundRows
<1>4. SnapshotsAreSound'
  <2>1. snapshot' \in [Snapshots -> SnapshotRecords]
    BY DEF HistoryIInv, SnapshotsAreSound
  <2>2. ASSUME NEW s \in Snapshots
        PROVE  /\ OneRowPerWeek(snapshot'[s].rows)
               /\ \A k \in DOMAIN snapshot'[s].rows :
                    RebuiltRow(snapshot'[s].rows[k], weekly')
               /\ snapshot'[s].at = "append" =>
                    /\ snapshot'[s].now \in HistoryRows /\ snapshot'[s].now.kind = "live"
                    /\ SoundRow(snapshot'[s].now, instant')
               /\ snapshot'[s].at = "write" => flock'.by = s
    BY <1>2, <1>3 DEF HistoryIInv, SnapshotsAreSound
  <2> QED
    BY <2>1, <2>2 DEF SnapshotsAreSound
<1>5. ASSUME NEW rows, SoundRows(rows, instant, past.live)
      PROVE  SoundRows(rows, instant', past'.live)
  BY <1>1, <1>5, SoundLater
<1>6. ASSUME NEW rows, NEW next
      PROVE  /\ KeepsThePast(rows, past, weekly) => KeepsThePast(rows, past', weekly')
             /\ Rewrites(rows, next, past, weekly) => Rewrites(rows, next, past', weekly')
  BY <1>1, KeptLater
<1>7. StoreIsSound'
  BY <1>5, <1>6 DEF HistoryIInv, StoreIsSound, Whole
<1> QED
  BY <1>4, <1>7

\* The clock, and what becomes known of a week.
LEMMA WorldSteps ==
  ASSUME HistoryIInv, HistoryTick \/ WeekEvent
  PROVE  HistoryIInv'
<1>1. /\ instant \in 1 .. LastInstant /\ fitted \in BOOLEAN
      /\ weekly \in [Weeks -> [runs : Nat, bridged : Nat, hearts : BOOLEAN]]
      /\ slack \in [snapshots : Nat, events : Nat, breaks : Nat]
      /\ \A w \in Weeks : /\ weekly[w].bridged <= weekly[w].runs
                          /\ weekly[w].bridged + slack.events <= MaxWeekEvents
      /\ instant \in Nat /\ LastInstant \in Nat /\ MaxWeekEvents \in Nat
      /\ ThisWeek \in Weeks
  <2>1. instant \in 1 .. LastInstant
    BY DEF HistoryIInv, WeeksAreTyped
  <2>2. ThisWeek \in Weeks /\ instant \in Nat
    BY <2>1, WeekFacts DEF ThisWeek
  <2> QED
    BY <2>2, WeekFacts DEF HistoryIInv, WeeksAreTyped
<1>2. CASE HistoryTick
  <2>1. /\ instant' \in 1 .. LastInstant /\ instant <= instant'
        /\ UNCHANGED <<store, flock, snapshot, past, weekly, slack, fitted>>
    BY <1>1, <1>2 DEF HistoryTick
  <2>2. WeeksAreTyped'
    BY <2>1 DEF HistoryIInv, WeeksAreTyped
  <2>3. \A w \in Weeks : /\ weekly'[w].runs = 0 => weekly[w].runs = 0
                         /\ weekly[w].bridged <= weekly'[w].bridged
                         /\ weekly'[w].bridged \in Nat
    <3>1. \A w \in Weeks : weekly[w].bridged \in Nat
      BY <1>1
    <3> QED
      BY <2>1, <3>1
  <2> QED
    BY <2>1, <2>2, <2>3, WorldStays DEF HistoryIInv
<1>3. CASE WeekEvent
  <2>1. /\ slack.events > 0 /\ slack' = [slack EXCEPT !.events = @ - 1]
        /\ UNCHANGED <<store, flock, instant, snapshot, fitted, past>>
    BY <1>3 DEF WeekEvent
  <2>2. /\ slack' \in [snapshots : Nat, events : Nat, breaks : Nat]
        /\ slack'.events = slack.events - 1 /\ slack.events \in Nat
    BY <1>1, <2>1
  <2>3. /\ weekly' \in [Weeks -> [runs : Nat, bridged : Nat, hearts : BOOLEAN]]
        /\ \A w \in Weeks :
             /\ weekly'[w].runs \in Nat /\ weekly'[w].bridged \in Nat
             /\ weekly[w].runs \in Nat /\ weekly[w].bridged \in Nat
             /\ weekly[w].runs <= weekly'[w].runs
             /\ weekly[w].bridged <= weekly'[w].bridged
             /\ weekly'[w].bridged <= weekly[w].bridged + 1
             /\ weekly'[w].bridged <= weekly'[w].runs
    <3>1. ASSUME NEW x \in Weeks
          PROVE  /\ weekly[x] \in [runs : Nat, bridged : Nat, hearts : BOOLEAN]
                 /\ weekly[x].runs \in Nat /\ weekly[x].bridged \in Nat
                 /\ weekly[x].bridged <= weekly[x].runs
      BY <1>1
    <3> DEFINE Grown ==
          /\ weekly' \in [Weeks -> [runs : Nat, bridged : Nat, hearts : BOOLEAN]]
          /\ \A w \in Weeks :
               /\ weekly'[w].runs \in Nat /\ weekly'[w].bridged \in Nat
               /\ weekly[w].runs \in Nat /\ weekly[w].bridged \in Nat
               /\ weekly[w].runs <= weekly'[w].runs
               /\ weekly[w].bridged <= weekly'[w].bridged
               /\ weekly'[w].bridged <= weekly[w].bridged + 1
               /\ weekly'[w].bridged <= weekly'[w].runs
    <3>2. ASSUME NEW x \in Weeks, NEW y \in [runs : Nat, bridged : Nat, hearts : BOOLEAN],
                 weekly' = [weekly EXCEPT ![x] = y],
                 weekly[x].runs <= y.runs, weekly[x].bridged <= y.bridged,
                 y.bridged <= weekly[x].bridged + 1, y.bridged <= y.runs
          PROVE  Grown
      <4>1. weekly' \in [Weeks -> [runs : Nat, bridged : Nat, hearts : BOOLEAN]]
        BY <1>1, <3>2
      <4>2. \A w \in Weeks : weekly'[w] = IF w = x THEN y ELSE weekly[w]
        BY <1>1, <3>2
      <4>3. y.runs \in Nat /\ y.bridged \in Nat
        OBVIOUS
      <4> QED
        BY <3>1, <3>2, <4>1, <4>2, <4>3
    <3>3. ASSUME weekly' = [weekly EXCEPT ![ThisWeek].runs = @ + 1] PROVE Grown
      <4> DEFINE y == [weekly[ThisWeek] EXCEPT !.runs = @ + 1]
      <4>1. /\ y \in [runs : Nat, bridged : Nat, hearts : BOOLEAN]
            /\ y.runs = weekly[ThisWeek].runs + 1
            /\ y.bridged = weekly[ThisWeek].bridged
        BY <1>1, <3>1
      <4>2. weekly' = [weekly EXCEPT ![ThisWeek] = y]
        BY <3>3
      <4> HIDE DEF y
      <4>3. /\ weekly[ThisWeek].runs <= y.runs /\ weekly[ThisWeek].bridged <= y.bridged
            /\ y.bridged <= weekly[ThisWeek].bridged + 1 /\ y.bridged <= y.runs
        BY <1>1, <3>1, <4>1
      <4> QED
        BY <1>1, <3>2, <4>1, <4>2, <4>3
    <3>4. ASSUME NEW w \in Weeks, weekly[w].bridged < weekly[w].runs,
                 weekly' = [weekly EXCEPT ![w].bridged = @ + 1]
          PROVE  Grown
      <4> DEFINE y == [weekly[w] EXCEPT !.bridged = @ + 1]
      <4>1. /\ y \in [runs : Nat, bridged : Nat, hearts : BOOLEAN]
            /\ y.runs = weekly[w].runs /\ y.bridged = weekly[w].bridged + 1
        BY <1>1, <3>1
      <4>2. weekly' = [weekly EXCEPT ![w] = y]
        BY <3>4
      <4> HIDE DEF y
      <4>3. /\ weekly[w].runs <= y.runs /\ weekly[w].bridged <= y.bridged
            /\ y.bridged <= weekly[w].bridged + 1 /\ y.bridged <= y.runs
        BY <3>1, <3>4, <4>1
      <4> QED
        BY <3>2, <4>1, <4>2, <4>3
    <3>5. ASSUME NEW w \in Weeks, NEW beats \in BOOLEAN,
                 weekly' = [weekly EXCEPT ![w].hearts = beats]
          PROVE  Grown
      <4> DEFINE y == [weekly[w] EXCEPT !.hearts = beats]
      <4>1. /\ y \in [runs : Nat, bridged : Nat, hearts : BOOLEAN]
            /\ y.runs = weekly[w].runs /\ y.bridged = weekly[w].bridged
        BY <1>1, <3>1
      <4>2. weekly' = [weekly EXCEPT ![w] = y]
        BY <3>5
      <4> HIDE DEF y
      <4>3. /\ weekly[w].runs <= y.runs /\ weekly[w].bridged <= y.bridged
            /\ y.bridged <= weekly[w].bridged + 1 /\ y.bridged <= y.runs
        BY <3>1, <4>1
      <4> QED
        BY <3>2, <4>1, <4>2, <4>3
    <3> HIDE DEF Grown
    <3>6. Grown
      <4>1. CASE weekly' = [weekly EXCEPT ![ThisWeek].hearts = TRUE]
        BY <1>1, <3>5, <4>1
      <4>2. CASE \E w \in Weeks : weekly' = [weekly EXCEPT ![w].hearts = FALSE]
        BY <3>5, <4>2
      <4>3. CASE \E w \in Weeks : /\ weekly[w].bridged < weekly[w].runs
                                  /\ weekly' = [weekly EXCEPT ![w].bridged = @ + 1]
        BY <3>4, <4>3
      <4>4. \/ weekly' = [weekly EXCEPT ![ThisWeek].runs = @ + 1]
            \/ \E w \in Weeks : /\ weekly[w].bridged < weekly[w].runs
                                /\ weekly' = [weekly EXCEPT ![w].bridged = @ + 1]
            \/ weekly' = [weekly EXCEPT ![ThisWeek].hearts = TRUE]
            \/ \E w \in Weeks : weekly' = [weekly EXCEPT ![w].hearts = FALSE]
        <5>1. \/ weekly' = [weekly EXCEPT ![ThisWeek].runs = @ + 1]
              \/ \E w \in Weeks : /\ weekly[w].bridged < weekly[w].runs
                                  /\ weekly' = [weekly EXCEPT ![w].bridged = @ + 1]
              \/ /\ ~weekly[ThisWeek].hearts
                 /\ weekly' = [weekly EXCEPT ![ThisWeek].hearts = TRUE]
              \/ \E w \in Weeks : /\ weekly[w].hearts
                                  /\ weekly' = [weekly EXCEPT ![w].hearts = FALSE]
          BY <1>3, Zenon DEF WeekEvent
        <5> QED
          BY <5>1, Zenon
      <4> QED
        BY <3>3, <4>1, <4>2, <4>3, <4>4, Zenon
    <3> QED
      BY <3>6 DEF Grown
  <2>4. ASSUME NEW w \in Weeks
        PROVE  weekly'[w].bridged + slack'.events <= MaxWeekEvents
    BY <1>1, <2>2, <2>3
  <2>5. WeeksAreTyped'
    BY <2>1, <2>2, <2>3, <2>4 DEF HistoryIInv, WeeksAreTyped
  <2>6. instant' \in 1 .. LastInstant /\ instant <= instant'
    BY <1>1, <2>1
  <2>7. \A w \in Weeks : weekly'[w].runs = 0 => weekly[w].runs = 0
    BY <2>3
  <2> QED
    BY <2>1, <2>3, <2>5, <2>6, <2>7, WorldStays DEF HistoryIInv
<1> QED
  BY <1>2, <1>3

\* A refresh moves on, and what it holds is sound.
LEMMA SnapshotMoves ==
  ASSUME SnapshotsAreSound, NEW s \in Snapshots, NEW new,
         new \in SnapshotRecords, OneRowPerWeek(new.rows),
         \A k \in DOMAIN new.rows : RebuiltRow(new.rows[k], weekly),
         new.at = "append" =>
           new.now \in HistoryRows /\ new.now.kind = "live" /\ SoundRow(new.now, instant),
         new.at = "write" => flock'.by = s,
         flock.by \notin {Unseen, s} => flock'.by = flock.by,
         snapshot' = [snapshot EXCEPT ![s] = new], UNCHANGED <<instant, weekly>>
  PROVE  SnapshotsAreSound'
<1>1. snapshot \in [Snapshots -> SnapshotRecords]
  BY DEF SnapshotsAreSound
<1>2. /\ snapshot' \in [Snapshots -> SnapshotRecords] /\ snapshot'[s] = new
      /\ \A r \in Snapshots : r # s => snapshot'[r] = snapshot[r]
  BY <1>1
<1>3. ASSUME NEW r \in Snapshots
      PROVE  /\ OneRowPerWeek(snapshot'[r].rows)
             /\ \A k \in DOMAIN snapshot'[r].rows : RebuiltRow(snapshot'[r].rows[k], weekly')
             /\ snapshot'[r].at = "append" =>
                  /\ snapshot'[r].now \in HistoryRows /\ snapshot'[r].now.kind = "live"
                  /\ SoundRow(snapshot'[r].now, instant')
             /\ snapshot'[r].at = "write" => flock'.by = r
  <2>1. CASE r = s
    BY <1>2, <2>1
  <2>2. CASE r # s
    <3>1. snapshot[r].at = "write" => flock'.by = r
      <4>1. snapshot[r].at = "write" => flock.by = r /\ r # Unseen
        BY HistoryAssumption DEF SnapshotsAreSound
      <4> QED
        BY <2>2, <4>1
    <3> QED
      BY <1>2, <2>2, <3>1 DEF SnapshotsAreSound
  <2> QED
    BY <2>1, <2>2
<1> QED
  BY <1>2, <1>3 DEF SnapshotsAreSound

\* What a refresh holds.
LEMMA SnapshotFields ==
  ASSUME SnapshotsAreSound, NEW s \in Snapshots,
         NEW place \in {"none", "merge", "write", "calibrate", "measure", "append"}
  PROVE  /\ snapshot[s] \in SnapshotRecords /\ snapshot[s].rows \in Seq(HistoryRows)
         /\ snapshot[s].now \in HistoryRows \cup {Unseen}
         /\ [snapshot[s] EXCEPT !.at = place] \in SnapshotRecords
         /\ [snapshot[s] EXCEPT !.at = place].rows = snapshot[s].rows
         /\ [snapshot[s] EXCEPT !.at = place].now = snapshot[s].now
         /\ [snapshot[s] EXCEPT !.at = place].at = place
         /\ Goes(s, place) =>
              snapshot' = [snapshot EXCEPT ![s] = [snapshot[s] EXCEPT !.at = place]]
         /\ NoSnapshot \in SnapshotRecords
<1>1. snapshot \in [Snapshots -> SnapshotRecords]
  BY DEF SnapshotsAreSound
<1>2. snapshot[s] \in SnapshotRecords
  BY <1>1
<1>3. /\ snapshot[s].rows \in Seq(HistoryRows)
      /\ snapshot[s].now \in HistoryRows \cup {Unseen}
      /\ [snapshot[s] EXCEPT !.at = place] \in SnapshotRecords
      /\ [snapshot[s] EXCEPT !.at = place].rows = snapshot[s].rows
      /\ [snapshot[s] EXCEPT !.at = place].now = snapshot[s].now
      /\ [snapshot[s] EXCEPT !.at = place].at = place
  BY <1>2 DEF SnapshotRecords
<1>4. Goes(s, place) =>
        snapshot' = [snapshot EXCEPT ![s] = [snapshot[s] EXCEPT !.at = place]]
  BY <1>1 DEF Goes
<1>5. NoSnapshot \in SnapshotRecords
  BY DEF NoSnapshot, SnapshotRecords
<1> QED
  BY <1>2, <1>3, <1>4, <1>5

-----------------------------------------------------------------------------
(* One refresh                                                                *)

\* A week's row as a rebuild sees it.
LEMMA RebuiltIsSound ==
  ASSUME WeeksAreTyped, NEW w \in Weeks
  PROVE  RebuiltRow(Rebuilt(w), weekly) /\ Rebuilt(w).week = w
<1> DEFINE idle == IdleByDesign(w)
           loop == IF idle THEN Unseen ELSE weekly[w].bridged
           r == WeekRow(w, loop, idle)
<1>1. /\ weekly[w].bridged \in Nat /\ weekly[w].bridged <= MaxWeekEvents
      /\ MaxWeekEvents \in Nat
  <2>1. /\ weekly[w].bridged + slack.events <= MaxWeekEvents
        /\ weekly[w].bridged \in Nat /\ slack.events \in Nat
    BY DEF WeeksAreTyped
  <2> QED
    BY <2>1, WeekFacts
<1>2. /\ idle \in BOOLEAN /\ loop \in {Unseen} \cup 0 .. MaxWeekEvents
      /\ idle => loop = Unseen /\ (loop # Unseen => loop <= weekly[w].bridged)
  BY <1>1 DEF IdleByDesign
<1>3. loop # Unseen => loop <= weekly[w].bridged
  BY <1>1
<1>4. Rebuilt(w) = r
  BY DEF Rebuilt
<1> HIDE DEF idle, loop
<1>5. 0 \in 0 .. LastInstant
  BY WeekFacts
<1>6. /\ r \in HistoryRows /\ r.kind = "weekly" /\ r.ts = 0 /\ r.scout = Unseen
      /\ r.week = w /\ r.idle = idle /\ r.loop = loop
  BY <1>2, <1>5 DEF WeekRow, HistoryRows
<1> QED
  BY <1>2, <1>3, <1>4, <1>6 DEF RebuiltRow

\* What a rebuild found holds each week once.
LEMMA FoundIsSound ==
  ASSUME WeeksAreTyped, NEW found \in FoundWeeks
  PROVE  LET rows == [k \in DOMAIN found |-> Rebuilt(found[k])]
         IN /\ rows \in Seq(HistoryRows) /\ OneRowPerWeek(rows)
            /\ \A k \in DOMAIN rows : RebuiltRow(rows[k], weekly)
<1> DEFINE rows == [k \in DOMAIN found |-> Rebuilt(found[k])]
<1>1. PICK m \in Nat : found \in [1 .. m -> 1 .. ThisWeek]
  <2>1. ThisWeek \in Nat
    BY WeekFacts DEF WeeksAreTyped, ThisWeek
  <2>2. found \in SeqOf(1 .. ThisWeek, ThisWeek)
    BY DEF FoundWeeks
  <2> QED
    BY <2>1, <2>2 DEF SeqOf
<1>2. 1 .. ThisWeek \subseteq Weeks /\ 1 .. ThisWeek \subseteq Nat
  <2>1. ThisWeek \in Weeks
    BY WeekFacts DEF WeeksAreTyped, ThisWeek
  <2> QED
    BY <2>1, HistoryAssumption DEF Weeks
<1>3. ASSUME NEW k \in 1 .. m
      PROVE  found[k] \in Weeks /\ rows[k] = Rebuilt(found[k])
             /\ RebuiltRow(rows[k], weekly) /\ rows[k].week = found[k]
  <2>1. found[k] \in Weeks
    BY <1>1, <1>2
  <2>2. rows[k] = Rebuilt(found[k])
    BY <1>1
  <2> QED
    BY <2>1, <2>2, RebuiltIsSound
<1>4. DOMAIN rows = 1 .. m
  BY <1>1
<1>5. rows \in Seq(HistoryRows)
  <2>1. \A k \in 1 .. m : Rebuilt(found[k]) \in HistoryRows
    BY <1>3 DEF RebuiltRow
  <2>2. rows \in [1 .. m -> HistoryRows]
    BY <1>1, <2>1
  <2> HIDE DEF rows
  <2> QED
    BY <2>2
<1>6. OneRowPerWeek(rows)
  <2>1. ASSUME NEW i \in 1 .. m, NEW k \in 1 .. m, rows[i].week = rows[k].week PROVE i = k
    <3>1. found[i] = found[k] /\ found[i] \in Nat /\ i \in Nat /\ k \in Nat
      <4>1. found[i] = found[k]
        BY <1>3, <2>1
      <4>2. found[i] \in 1 .. ThisWeek
        BY <1>1
      <4> QED
        BY <1>2, <4>1, <4>2
    <3>2. DOMAIN found = 1 .. m
      BY <1>1
    <3>3. i < k => found[i] < found[k]
      BY <3>2 DEF FoundWeeks
    <3>4. k < i => found[k] < found[i]
      BY <3>2 DEF FoundWeeks
    <3> QED
      BY <3>1, <3>3, <3>4
  <2> HIDE DEF rows
  <2> QED
    BY <1>4, <2>1 DEF OneRowPerWeek
<1> QED
  BY <1>3, <1>4, <1>5, <1>6

\* What leaves the store and what is known of the weeks alone.
LEMMA StoreStays ==
  ASSUME StoreIsSound, UNCHANGED <<store, flock, instant, weekly, past>>
  PROVE  StoreIsSound'
BY DEF StoreIsSound, Whole

\* The steps that do not touch the store.
LEMMA UnwrittenSteps ==
  ASSUME HistoryIInv, NEW s \in Snapshots,
         ReadTelemetry(s) \/ KeepStore(s) \/ Calibrate(s) \/ Measure(s)
  PROVE  HistoryIInv'
<1>1. WeeksAreTyped /\ SnapshotsAreSound /\ StoreIsSound /\ fitted \in BOOLEAN
  BY DEF HistoryIInv, WeeksAreTyped
<1>2. UNCHANGED <<store, flock, instant, weekly, past>>
  BY DEF ReadTelemetry, KeepStore, Calibrate, Measure
<1>3. StoreIsSound'
  BY <1>1, <1>2, StoreStays
<1>4. /\ OneRowPerWeek(snapshot[s].rows)
      /\ \A k \in DOMAIN snapshot[s].rows : RebuiltRow(snapshot[s].rows[k], weekly)
  BY <1>1 DEF SnapshotsAreSound
<1>5. CASE ReadTelemetry(s)
  <2>1. PICK found \in FoundWeeks :
          /\ Len(found) < ThisWeek => slack.breaks > 0
          /\ slack' = [slack EXCEPT
                !.snapshots = @ - 1, !.breaks = IF Len(found) < ThisWeek THEN @ - 1 ELSE @]
          /\ snapshot' = [snapshot EXCEPT
               ![s] = [at |-> "merge", now |-> Unseen,
                       rows |-> [k \in DOMAIN found |-> Rebuilt(found[k])]]]
    BY <1>5 DEF ReadTelemetry
  <2>2. slack.snapshots > 0 /\ UNCHANGED fitted
    BY <1>5 DEF ReadTelemetry
  <2> DEFINE rows == [k \in DOMAIN found |-> Rebuilt(found[k])]
             new == [at |-> "merge", now |-> Unseen, rows |-> rows]
  <2>3. /\ rows \in Seq(HistoryRows) /\ OneRowPerWeek(rows)
        /\ \A k \in DOMAIN rows : RebuiltRow(rows[k], weekly)
    BY <1>1, FoundIsSound
  <2>4. snapshot' = [snapshot EXCEPT ![s] = new]
    BY <2>1
  <2> HIDE DEF rows
  <2>5. new \in SnapshotRecords /\ new.rows = rows /\ new.at = "merge"
    BY <2>3 DEF SnapshotRecords
  <2> HIDE DEF new
  <2>6. SnapshotsAreSound'
    BY <1>1, <1>2, <2>3, <2>4, <2>5, SnapshotMoves
  <2>7. /\ slack' \in [snapshots : Nat, events : Nat, breaks : Nat]
        /\ slack'.events = slack.events
    <3> DEFINE left == IF Len(found) < ThisWeek THEN slack.breaks - 1 ELSE slack.breaks
               first == [slack EXCEPT !.snapshots = @ - 1]
               second == [first EXCEPT !.breaks = left]
    <3>1. /\ slack \in [snapshots : Nat, events : Nat, breaks : Nat]
          /\ slack.snapshots \in Nat /\ slack.events \in Nat /\ slack.breaks \in Nat
      BY <1>1 DEF WeeksAreTyped
    <3>2. left \in Nat
      BY <2>1, <3>1
    <3>3. slack' = second
      BY <2>1, <3>1
    <3> HIDE DEF left
    <3>4. /\ first \in [snapshots : Nat, events : Nat, breaks : Nat]
          /\ first.events = slack.events
      BY <2>2, <3>1
    <3> HIDE DEF first
    <3> QED
      BY <3>2, <3>3, <3>4
  <2>8. WeeksAreTyped'
    BY <1>1, <1>2, <2>2, <2>7 DEF WeeksAreTyped
  <2> QED
    BY <1>3, <2>6, <2>8 DEF HistoryIInv
<1>6. CASE KeepStore(s) \/ Calibrate(s) \/ Measure(s)
  <2>1. fitted' \in BOOLEAN /\ UNCHANGED slack
    BY <1>1, <1>6 DEF KeepStore, Calibrate, Measure
  <2>2. WeeksAreTyped'
    BY <1>1, <1>2, <2>1 DEF WeeksAreTyped
  <2>3. SnapshotsAreSound'
    <3>1. ASSUME NEW place \in {"calibrate", "measure"}, Goes(s, place)
          PROVE  SnapshotsAreSound'
      <4> DEFINE new == [snapshot[s] EXCEPT !.at = place]
      <4>1. /\ new \in SnapshotRecords /\ new.rows = snapshot[s].rows /\ new.at = place
            /\ snapshot' = [snapshot EXCEPT ![s] = new]
        <5>1. place \in {"none", "merge", "write", "calibrate", "measure", "append"}
          OBVIOUS
        <5> QED
          BY <1>1, <3>1, <5>1, SnapshotFields
      <4> HIDE DEF new
      <4> QED
        BY <1>1, <1>2, <1>4, <4>1, SnapshotMoves
    <3>2. CASE Measure(s)
      <4>1. PICK scout \in {Unseen, instant} :
              snapshot' = [snapshot EXCEPT
                ![s].at = "append",
                ![s].now = LiveRow(instant, scout,
                                   IF IdleByDesign(ThisWeek) THEN Unseen
                                   ELSE weekly[ThisWeek].bridged)]
        BY <3>2 DEF Measure
      <4> DEFINE loop == IF IdleByDesign(ThisWeek) THEN Unseen ELSE weekly[ThisWeek].bridged
                 row == LiveRow(instant, scout, loop)
                 first == [snapshot[s] EXCEPT !.at = "append"]
                 new == [first EXCEPT !.now = row]
      <4>2. snapshot' = [snapshot EXCEPT ![s] = new]
        BY <1>1, <4>1 DEF SnapshotsAreSound
      <4>3. /\ instant \in 1 .. LastInstant /\ ThisWeek \in Weeks /\ ThisWeek = WeekOf(instant)
            /\ instant \in Nat /\ instant >= 1
        BY <1>1, WeekFacts DEF WeeksAreTyped, ThisWeek
      <4>4. loop \in {Unseen} \cup 0 .. MaxWeekEvents
        <5>1. weekly[ThisWeek].bridged \in 0 .. MaxWeekEvents
          <6>1. /\ weekly[ThisWeek].bridged + slack.events <= MaxWeekEvents
                /\ weekly[ThisWeek].bridged \in Nat /\ slack.events \in Nat
            BY <1>1, <4>3 DEF WeeksAreTyped
          <6> QED
            BY <6>1, WeekFacts
        <5> QED
          BY <5>1
      <4> HIDE DEF loop
      <4>5. /\ row \in HistoryRows /\ row.kind = "live" /\ row.ts = instant
            /\ row.week = WeekOf(instant) /\ row.scout = scout
        <5>1. instant \in 0 .. LastInstant /\ scout \in {Unseen} \cup 1 .. LastInstant
          BY <4>3
        <5> QED
          BY <4>3, <4>4, <5>1 DEF LiveRow, HistoryRows
      <4> HIDE DEF row
      <4>6. SoundRow(row, instant)
        BY <4>3, <4>5 DEF SoundRow
      <4>7. /\ first \in SnapshotRecords /\ first.rows = snapshot[s].rows
            /\ first.at = "append"
        BY <1>1, SnapshotFields
      <4> HIDE DEF first
      <4>8. /\ new \in SnapshotRecords /\ new.rows = snapshot[s].rows
            /\ new.at = "append" /\ new.now = row
        BY <4>5, <4>7 DEF SnapshotRecords
      <4> HIDE DEF new
      <4> QED
        BY <1>1, <1>2, <1>4, <4>2, <4>5, <4>6, <4>8, SnapshotMoves
    <3> QED
      BY <1>6, <3>1, <3>2 DEF KeepStore, Calibrate
  <2> QED
    BY <1>3, <2>2, <2>3 DEF HistoryIInv
<1> QED
  BY <1>5, <1>6

\* The store is read and merged.
LEMMA MergeStep ==
  ASSUME HistoryIInv, NEW s \in Snapshots, Merge(s)
  PROVE  HistoryIInv'
<1>1. WeeksAreTyped /\ SnapshotsAreSound /\ StoreIsSound
  BY DEF HistoryIInv
<1> DEFINE next == Merged(snapshot[s].rows, store)
           first == [snapshot[s] EXCEPT !.at = "write"]
           new == [first EXCEPT !.rows = << >>]
<1>2. /\ flock.by = Unseen /\ flock' = [by |-> s, prior |-> store, next |-> next]
      /\ store' = << >> /\ UNCHANGED <<instant, weekly, fitted, slack, past>>
  BY DEF Merge
<1>3. snapshot' = [snapshot EXCEPT ![s] = new]
  BY <1>1 DEF Merge, SnapshotsAreSound
<1>4. /\ OneRowPerWeek(snapshot[s].rows) /\ snapshot[s].rows \in Seq(HistoryRows)
      /\ \A k \in DOMAIN snapshot[s].rows : RebuiltRow(snapshot[s].rows[k], weekly)
  BY <1>1, SnapshotFields DEF SnapshotsAreSound
<1>5. SoundRows(store, instant, past.live)
  BY <1>1 DEF StoreIsSound
<1>6. /\ SoundRows(next, instant, past.live)
      /\ KeepsThePast(store, past, weekly) => Rewrites(store, next, past, weekly)
  BY <1>1, <1>4, <1>5, MergeIsSound
<1>7. ~past.torn => KeepsThePast(store, past, weekly)
  BY <1>1, <1>2 DEF StoreIsSound, Whole
<1> HIDE DEF next
<1>8. /\ first \in SnapshotRecords /\ first.at = "write"
  BY <1>1, SnapshotFields
<1> HIDE DEF first
<1>9. /\ new \in SnapshotRecords /\ new.at = "write" /\ new.rows = << >>
  <2> DEFINE none == << >>
  <2>1. none \in Seq(HistoryRows) /\ new = [first EXCEPT !.rows = none]
    OBVIOUS
  <2> HIDE DEF none, new
  <2>2. new \in SnapshotRecords /\ new.at = "write" /\ new.rows = none
    BY <1>8, <2>1 DEF SnapshotRecords
  <2> QED
    BY <2>2 DEF none
<1> HIDE DEF new
<1>10. SnapshotsAreSound'
  <2>1. OneRowPerWeek(new.rows) /\ \A k \in DOMAIN new.rows : RebuiltRow(new.rows[k], weekly)
    BY <1>9 DEF OneRowPerWeek
  <2>2. flock'.by = s
    BY <1>2
  <2> QED
    BY <1>1, <1>2, <1>3, <1>9, <2>1, <2>2, SnapshotMoves
<1>11. StoreIsSound'
  <2>1. SoundRows(<< >>, instant, past.live)
    BY DEF SoundRows, OneRowPerWeek
  <2>2. next \in Seq(HistoryRows) /\ store \in Seq(HistoryRows)
    BY <1>5, <1>6 DEF SoundRows
  <2>3. /\ flock' \in [by : {Unseen} \cup Snapshots, prior : Seq(HistoryRows),
                       next : Seq(HistoryRows)]
        /\ flock'.by = s /\ flock'.prior = store /\ flock'.next = next /\ s # Unseen
    BY <1>2, <2>2, HistoryAssumption
  <2> QED
    BY <1>2, <1>5, <1>6, <1>7, <2>1, <2>3 DEF StoreIsSound, Whole
<1>12. WeeksAreTyped'
  BY <1>1, <1>2 DEF WeeksAreTyped
<1> QED
  BY <1>10, <1>11, <1>12 DEF HistoryIInv

\* What a refresh that holds the lock has read and will write.
LEMMA HolderFacts ==
  ASSUME HistoryIInv, NEW s \in Snapshots, snapshot[s].at = "write"
  PROVE  /\ flock.by = s /\ flock.by # Unseen
         /\ SoundRows(flock.prior, instant, past.live)
         /\ SoundRows(flock.next, instant, past.live)
         /\ flock.prior \in Seq(HistoryRows) /\ flock.next \in Seq(HistoryRows)
         /\ ~past.torn => /\ KeepsThePast(flock.prior, past, weekly)
                          /\ Rewrites(flock.prior, flock.next, past, weekly)
<1>1. flock.by = s /\ s # Unseen
  BY HistoryAssumption DEF HistoryIInv, SnapshotsAreSound
<1> QED
  BY <1>1 DEF HistoryIInv, StoreIsSound, SoundRows

\* Of a store that was kept, what is written is kept.
LEMMA NotedIsKept ==
  ASSUME HistoryIInv, NEW s \in Snapshots, WriteStore(s), ~past.torn
  PROVE  KeepsThePast(flock.next, past', weekly)
<1> DEFINE next == flock.next
           prior == flock.prior
           of(w, these) ==
             {k \in DOMAIN these : these[k].kind = "weekly" /\ these[k].week = w}
<1>1. /\ SoundRows(prior, instant, past.live) /\ SoundRows(next, instant, past.live)
      /\ prior \in Seq(HistoryRows) /\ KeepsThePast(prior, past, weekly)
      /\ Rewrites(prior, next, past, weekly)
  BY HolderFacts DEF WriteStore
<1>2. past \in [torn : BOOLEAN, missed : SUBSET Weeks, live : Nat,
                scout : [Weeks -> {Unseen} \cup 1 .. LastInstant], idle : SUBSET Weeks]
  BY DEF HistoryIInv, WeeksAreTyped
<1>3. /\ past'.live = past.live
      /\ past'.missed = past.missed \cup {w \in Weeks : of(w, next) = {} /\ of(w, prior) # {}}
      /\ past'.scout = [w \in Weeks |->
                          IF past.scout[w] = Unseen /\ of(w, next) # {}
                            THEN next[CHOOSE k \in of(w, next) : TRUE].scout
                            ELSE past.scout[w]]
      /\ past'.idle = past.idle \cup {w \in Weeks : \E k \in of(w, next) : next[k].idle}
  BY <1>2 DEF WriteStore, Noted
<1>4. ASSUME NEW w \in Weeks \ past'.missed, of(w, prior) # {} PROVE of(w, next) # {}
  BY <1>3, <1>4
<1>5. ASSUME past'.live > 0
      PROVE  \E k \in DOMAIN next : next[k].kind = "live" /\ next[k].ts = past'.live
  BY <1>1, <1>3, <1>5 DEF Rewrites
<1>6. ASSUME NEW w \in Weeks \ past'.missed, past'.scout[w] # Unseen
      PROVE  \E k \in DOMAIN next :
               next[k].kind = "weekly" /\ next[k].week = w /\ next[k].scout = past'.scout[w]
  <2>1. CASE past.scout[w] = Unseen
    <3>1. past'.scout[w] = next[CHOOSE k \in of(w, next) : TRUE].scout /\ of(w, next) # {}
      BY <1>3, <1>6, <2>1
    <3>2. (CHOOSE k \in of(w, next) : TRUE) \in of(w, next)
      BY <3>1
    <3> QED
      BY <3>1, <3>2
  <2>2. CASE past.scout[w] # Unseen
    <3>1. past'.scout[w] = past.scout[w] /\ w \in Weeks \ past.missed
      BY <1>3, <2>2
    <3>2. PICK j \in DOMAIN prior : prior[j].kind = "weekly" /\ prior[j].week = w
                                    /\ prior[j].scout = past.scout[w]
      BY <1>1, <2>2, <3>1 DEF KeepsThePast
    <3>3. PICK k \in DOMAIN next : next[k].kind = "weekly" /\ next[k].week = w
      BY <1>4, <3>2
    <3>4. next[k].scout = Carried(prior, w)
      BY <1>1, <3>3 DEF Rewrites
    <3>5. Carried(prior, w) = prior[j].scout
      <4>1. /\ OneRowPerWeek(prior) /\ \A i \in DOMAIN prior : SoundRow(prior[i], instant)
            /\ instant \in 1 .. LastInstant
        BY <1>1 DEF SoundRows, HistoryIInv, WeeksAreTyped
      <4> QED
        BY <1>1, <2>2, <3>2, <4>1, CarriedIsOlder
    <3> QED
      BY <3>1, <3>2, <3>3, <3>4, <3>5
  <2> QED
    BY <2>1, <2>2
<1>7. ASSUME NEW w \in past'.idle \ past'.missed
      PROVE  /\ \E k \in DOMAIN next : next[k].kind = "weekly" /\ next[k].week = w
             /\ weekly[w].runs = 0 =>
                  \A k \in DOMAIN next :
                    next[k].kind = "weekly" /\ next[k].week = w => next[k].idle
  <2>1. CASE w \in past.idle
    <3>1. w \in past.idle \ past.missed /\ w \in Weeks \ past'.missed
      BY <1>2, <1>3, <2>1
    <3>2. of(w, prior) # {}
      BY <1>1, <3>1 DEF KeepsThePast
    <3> QED
      BY <1>1, <1>4, <3>1, <3>2 DEF Rewrites
  <2>2. CASE w \notin past.idle
    <3>1. PICK k \in of(w, next) : next[k].idle
      BY <1>3, <2>2
    <3>2. OneRowPerWeek(next)
      BY <1>1 DEF SoundRows
    <3> QED
      BY <3>1, <3>2 DEF OneRowPerWeek
  <2> QED
    BY <2>1, <2>2
<1> QED
  BY <1>5, <1>6, <1>7 DEF KeepsThePast

\* Of sound rows the first few are sound.
LEMMA RestoredIsSound ==
  ASSUME NEW rows, NEW now, NEW live, SoundRows(rows, now, live), NEW n \in 0 .. Len(rows)
  PROVE  SoundRows(SubSeq(rows, 1, n), now, live)
<1> DEFINE these == SubSeq(rows, 1, n)
<1>1. rows \in Seq(HistoryRows) /\ Len(rows) \in Nat /\ DOMAIN rows = 1 .. Len(rows)
  BY PlacesAreFinite DEF SoundRows
<1>2. /\ these \in Seq(HistoryRows) /\ Len(these) = n /\ DOMAIN these = 1 .. n
      /\ \A k \in 1 .. n : these[k] = rows[k] /\ k \in DOMAIN rows
  BY <1>1
<1> HIDE DEF these
<1>3. OneRowPerWeek(these)
  BY <1>2 DEF OneRowPerWeek, SoundRows
<1>4. ASSUME NEW k \in 2 .. Len(these), these[k].kind = "live"
      PROVE  these[k] # these[k - 1]
  <2>1. k \in 1 .. n /\ k - 1 \in 1 .. n /\ k \in 2 .. Len(rows)
    BY <1>1, <1>2
  <2>2. these[k] = rows[k] /\ these[k - 1] = rows[k - 1]
    BY <1>2, <2>1
  <2> QED
    BY <1>4, <2>1, <2>2 DEF SoundRows
<1>5. \A k \in DOMAIN these :
        SoundRow(these[k], now) /\ (these[k].kind = "live" => these[k].ts <= live)
  BY <1>2 DEF SoundRows
<1>6. SoundRows(these, now, live)
  BY <1>2, <1>3, <1>4, <1>5 DEF SoundRows
<1> QED
  BY <1>6 DEF these

\* The rows are written, or what was there goes back.
LEMMA WriteSteps ==
  ASSUME HistoryIInv, NEW s \in Snapshots, WriteStore(s) \/ WriteFails(s)
  PROVE  HistoryIInv'
<1>1. /\ WeeksAreTyped /\ SnapshotsAreSound /\ StoreIsSound /\ snapshot[s].at = "write"
      /\ flock' = Nobody /\ Goes(s, "calibrate") /\ UNCHANGED <<instant, weekly, fitted>>
  BY DEF HistoryIInv, WriteStore, WriteFails
<1>2. /\ flock.by = s /\ SoundRows(flock.prior, instant, past.live)
      /\ SoundRows(flock.next, instant, past.live) /\ flock.next \in Seq(HistoryRows)
      /\ ~past.torn => KeepsThePast(flock.prior, past, weekly)
  BY <1>1, HolderFacts
<1>3. /\ past \in [torn : BOOLEAN, missed : SUBSET Weeks, live : Nat,
                   scout : [Weeks -> {Unseen} \cup 1 .. LastInstant], idle : SUBSET Weeks]
      /\ slack \in [snapshots : Nat, events : Nat, breaks : Nat]
  BY <1>1 DEF WeeksAreTyped
<1>4. /\ Nobody \in [by : {Unseen} \cup Snapshots, prior : Seq(HistoryRows),
                     next : Seq(HistoryRows)]
      /\ Nobody.by = Unseen
  BY DEF Nobody
<1>5. SnapshotsAreSound'
  <2> DEFINE new == [snapshot[s] EXCEPT !.at = "calibrate"]
  <2>1. /\ new \in SnapshotRecords /\ new.rows = snapshot[s].rows /\ new.at = "calibrate"
        /\ snapshot' = [snapshot EXCEPT ![s] = new]
    BY <1>1, SnapshotFields
  <2> HIDE DEF new
  <2>2. /\ OneRowPerWeek(snapshot[s].rows)
        /\ \A k \in DOMAIN snapshot[s].rows : RebuiltRow(snapshot[s].rows[k], weekly)
    BY <1>1 DEF SnapshotsAreSound
  <2> QED
    BY <1>1, <1>2, <2>1, <2>2, SnapshotMoves
<1>6. CASE WriteStore(s)
  <2>1. store' = flock.next /\ past' = Noted(flock.next) /\ UNCHANGED slack
    BY <1>6 DEF WriteStore
  <2>2. /\ past' \in [torn : BOOLEAN, missed : SUBSET Weeks, live : Nat,
                      scout : [Weeks -> {Unseen} \cup 1 .. LastInstant],
                      idle : SUBSET Weeks]
        /\ past'.live = past.live /\ past'.torn = past.torn
    <3> DEFINE these(w) == {k \in DOMAIN flock.next :
                              flock.next[k].kind = "weekly" /\ flock.next[k].week = w}
               gone == {w \in Weeks :
                          these(w) = {} /\ {k \in DOMAIN flock.prior :
                                              flock.prior[k].kind = "weekly"
                                              /\ flock.prior[k].week = w} # {}}
               said == [w \in Weeks |->
                          IF past.scout[w] = Unseen /\ these(w) # {}
                            THEN flock.next[CHOOSE k \in these(w) : TRUE].scout
                            ELSE past.scout[w]]
               rests == {w \in Weeks : \E k \in these(w) : flock.next[k].idle}
               first == [past EXCEPT !.missed = @ \cup gone]
               second == [first EXCEPT !.scout = said]
               third == [second EXCEPT !.idle = past.idle \cup rests]
    <3>1. past' = third
      BY <1>3, <2>1 DEF Noted
    <3>2. said \in [Weeks -> {Unseen} \cup 1 .. LastInstant]
      <4>1. ASSUME NEW w \in Weeks, these(w) # {}
            PROVE  flock.next[CHOOSE k \in these(w) : TRUE].scout
                     \in {Unseen} \cup 1 .. LastInstant
        <5>1. (CHOOSE k \in these(w) : TRUE) \in DOMAIN flock.next
          BY <4>1
        <5> QED
          BY <1>2, <5>1, PlacesAreFinite, RowFields
      <4> QED
        BY <1>3, <4>1
    <3>3. gone \subseteq Weeks /\ rests \subseteq Weeks
      OBVIOUS
    <3> HIDE DEF gone, said, rests
    <3>4. /\ first \in [torn : BOOLEAN, missed : SUBSET Weeks, live : Nat,
                        scout : [Weeks -> {Unseen} \cup 1 .. LastInstant],
                        idle : SUBSET Weeks]
          /\ first.live = past.live /\ first.torn = past.torn
      BY <1>3, <3>3
    <3> HIDE DEF first
    <3>5. /\ second \in [torn : BOOLEAN, missed : SUBSET Weeks, live : Nat,
                         scout : [Weeks -> {Unseen} \cup 1 .. LastInstant],
                         idle : SUBSET Weeks]
          /\ second.live = past.live /\ second.torn = past.torn
      BY <3>2, <3>4
    <3> HIDE DEF second
    <3>6. past.idle \cup rests \subseteq Weeks
      BY <1>3, <3>3
    <3> QED
      BY <3>1, <3>5, <3>6
  <2>3. WeeksAreTyped'
    BY <1>1, <2>1, <2>2 DEF WeeksAreTyped
  <2>4. ~past.torn => KeepsThePast(flock.next, past', weekly)
    BY <1>6, NotedIsKept
  <2>5. StoreIsSound'
    BY <1>1, <1>2, <1>4, <2>1, <2>2, <2>4 DEF StoreIsSound, Whole
  <2> QED
    BY <1>5, <2>3, <2>5 DEF HistoryIInv
<1>7. CASE WriteFails(s)
  <2>1. /\ slack.breaks > 0 /\ slack' = [slack EXCEPT !.breaks = @ - 1]
        /\ \E n \in 0 .. Len(flock.prior) :
             /\ store' = SubSeq(flock.prior, 1, n)
             /\ past' = [past EXCEPT !.torn = @ \/ n < Len(flock.prior)]
    BY <1>7 DEF WriteFails
  <2> PICK n \in 0 .. Len(flock.prior) :
             /\ store' = SubSeq(flock.prior, 1, n)
             /\ past' = [past EXCEPT !.torn = @ \/ n < Len(flock.prior)]
    BY <2>1
  <2>2. /\ slack' \in [snapshots : Nat, events : Nat, breaks : Nat]
        /\ slack'.events = slack.events
    BY <1>3, <2>1
  <2>3. /\ past' \in [torn : BOOLEAN, missed : SUBSET Weeks, live : Nat,
                      scout : [Weeks -> {Unseen} \cup 1 .. LastInstant],
                      idle : SUBSET Weeks]
        /\ past'.live = past.live
        /\ ~past'.torn => past' = past /\ ~(n < Len(flock.prior))
    BY <1>3
  <2>4. WeeksAreTyped'
    BY <1>1, <2>2, <2>3 DEF WeeksAreTyped
  <2>5. SoundRows(store', instant, past.live)
    BY <1>2, RestoredIsSound
  <2>6. ~past'.torn => store' = flock.prior
    <3>1. flock.prior \in Seq(HistoryRows) /\ Len(flock.prior) \in Nat
      BY <1>2 DEF SoundRows
    <3>2. ~past'.torn => n = Len(flock.prior)
      BY <2>3, <3>1
    <3>3. SubSeq(flock.prior, 1, Len(flock.prior)) = flock.prior
      BY <3>1
    <3> QED
      BY <3>2, <3>3
  <2>7. StoreIsSound'
    BY <1>1, <1>2, <1>4, <2>3, <2>5, <2>6 DEF StoreIsSound, Whole
  <2> QED
    BY <1>5, <2>4, <2>7 DEF HistoryIInv
<1> QED
  BY <1>6, <1>7

\* What is measured now is added to the store, unless it already ends with it.
LEMMA AppendStep ==
  ASSUME HistoryIInv, NEW s \in Snapshots, AppendLive(s),
         store' = IF store # << >> /\ store[Len(store)] = snapshot[s].now
                    THEN store ELSE Append(store, snapshot[s].now)
  PROVE  HistoryIInv'
<1> DEFINE row == snapshot[s].now
           live == IF past.live < row.ts THEN row.ts ELSE past.live
           same == store # << >> /\ store[Len(store)] = row
<1>1. /\ WeeksAreTyped /\ SnapshotsAreSound /\ StoreIsSound /\ flock.by = Unseen
      /\ UNCHANGED <<flock, instant, weekly, fitted, slack>>
      /\ snapshot' = [snapshot EXCEPT ![s] = NoSnapshot]
      /\ store' = IF same THEN store ELSE Append(store, row)
      /\ past' = [past EXCEPT !.live = live]
  BY DEF HistoryIInv, AppendLive
<1>2. row \in HistoryRows /\ row.kind = "live" /\ SoundRow(row, instant)
  BY DEF HistoryIInv, SnapshotsAreSound, AppendLive
<1>3. /\ past \in [torn : BOOLEAN, missed : SUBSET Weeks, live : Nat,
                   scout : [Weeks -> {Unseen} \cup 1 .. LastInstant], idle : SUBSET Weeks]
      /\ past.live \in Nat /\ row.ts \in Nat
  BY <1>1, <1>2, RowFields DEF WeeksAreTyped
<1>4. live \in Nat /\ past.live <= live /\ row.ts <= live /\ live \in {past.live, row.ts}
  BY <1>3
<1>5. row.ts >= 1
  BY <1>2 DEF SoundRow
<1> HIDE DEF row, live
<1>6. /\ past' \in [torn : BOOLEAN, missed : SUBSET Weeks, live : Nat,
                    scout : [Weeks -> {Unseen} \cup 1 .. LastInstant], idle : SUBSET Weeks]
      /\ past'.live = live /\ past'.torn = past.torn /\ past'.missed = past.missed
      /\ past'.scout = past.scout /\ past'.idle = past.idle
  BY <1>1, <1>3, <1>4
<1>7. WeeksAreTyped'
  BY <1>1, <1>6 DEF WeeksAreTyped
<1>8. SnapshotsAreSound'
  <2>1. /\ NoSnapshot \in SnapshotRecords /\ NoSnapshot.rows = << >>
        /\ NoSnapshot.at = "none"
    BY <1>1, SnapshotFields DEF NoSnapshot
  <2>2. /\ OneRowPerWeek(NoSnapshot.rows)
        /\ \A k \in DOMAIN NoSnapshot.rows : RebuiltRow(NoSnapshot.rows[k], weekly)
    BY <2>1 DEF OneRowPerWeek
  <2> QED
    BY <1>1, <2>1, <2>2, SnapshotMoves
<1>9. SoundRows(store, instant, live)
  <2>1. instant \in Nat /\ instant <= instant /\ SoundRows(store, instant, past.live)
    <3>1. instant \in 1 .. LastInstant /\ SoundRows(store, instant, past.live)
      BY <1>1 DEF WeeksAreTyped, StoreIsSound
    <3> QED
      BY <3>1, WeekFacts
  <2> QED
    BY <1>3, <1>4, <2>1, SoundLater
<1>10. /\ store \in Seq(HistoryRows) /\ DOMAIN store = 1 .. Len(store) /\ Len(store) \in Nat
  BY <1>9, PlacesAreFinite DEF SoundRows
<1>11. ASSUME ~same
       PROVE  /\ store' \in Seq(HistoryRows) /\ Len(store') = Len(store) + 1
              /\ DOMAIN store' = 1 .. Len(store) + 1 /\ store'[Len(store) + 1] = row
              /\ \A k \in DOMAIN store : store'[k] = store[k] /\ k \in DOMAIN store'
              /\ \A k \in DOMAIN store' : k \in DOMAIN store \/ k = Len(store) + 1
  <2>1. store' = Append(store, row)
    BY <1>1, <1>11
  <2>2. /\ Append(store, row) \in Seq(HistoryRows)
        /\ Len(Append(store, row)) = Len(store) + 1
        /\ Append(store, row)[Len(store) + 1] = row
        /\ \A k \in 1 .. Len(store) : Append(store, row)[k] = store[k]
    BY <1>2, <1>10, AppendProperties
  <2>3. DOMAIN Append(store, row) = 1 .. Len(store) + 1
    BY <2>2, PlacesAreFinite
  <2> QED
    BY <1>10, <2>1, <2>2, <2>3
<1>12. SoundRows(store', instant, live)
  <2>1. CASE same
    BY <1>1, <1>9, <2>1
  <2>2. CASE ~same
    <3>1. OneRowPerWeek(store')
      <4>1. ASSUME NEW i \in DOMAIN store', NEW k \in DOMAIN store',
                   store'[i].kind = "weekly", store'[k].kind = "weekly",
                   store'[i].week = store'[k].week
            PROVE  i = k
        <5>1. i \in DOMAIN store /\ k \in DOMAIN store
          BY <1>2, <1>11, <2>2, <4>1
        <5>2. OneRowPerWeek(store) /\ store'[i] = store[i] /\ store'[k] = store[k]
          BY <1>9, <1>11, <2>2, <5>1 DEF SoundRows
        <5> QED
          BY <4>1, <5>1, <5>2 DEF OneRowPerWeek
      <4> QED
        BY <4>1 DEF OneRowPerWeek
    <3>2. ASSUME NEW k \in DOMAIN store'
          PROVE  /\ SoundRow(store'[k], instant)
                 /\ store'[k].kind = "live" => store'[k].ts <= live
      <4>1. CASE k \in DOMAIN store
        BY <1>9, <1>11, <2>2, <4>1 DEF SoundRows
      <4>2. CASE k = Len(store) + 1
        BY <1>2, <1>4, <1>11, <2>2, <4>2
      <4> QED
        BY <1>11, <2>2, <4>1, <4>2
    <3>3. ASSUME NEW k \in 2 .. Len(store'), store'[k].kind = "live"
          PROVE  store'[k] # store'[k - 1]
      <4>1. Len(store') = Len(store) + 1 /\ k \in Nat /\ 2 <= k /\ k <= Len(store) + 1
        <5>1. Len(store') = Len(store) + 1
          BY <1>11, <2>2
        <5> QED
          BY <1>10, <3>3, <5>1
      <4>2. CASE k = Len(store) + 1
        <5>1. k - 1 = Len(store) /\ k - 1 \in DOMAIN store /\ store # << >>
          BY <1>10, <4>1, <4>2
        <5>2. store'[k] = row /\ store'[k - 1] = store[Len(store)]
          BY <1>11, <2>2, <4>2, <5>1
        <5> QED
          BY <2>2, <5>1, <5>2
      <4>3. CASE k # Len(store) + 1
        <5>1. k \in 2 .. Len(store) /\ k \in DOMAIN store /\ k - 1 \in DOMAIN store
          BY <1>10, <4>1, <4>3
        <5>2. store'[k] = store[k] /\ store'[k - 1] = store[k - 1]
          BY <1>11, <2>2, <5>1
        <5> QED
          BY <1>9, <3>3, <5>1, <5>2 DEF SoundRows
      <4> QED
        BY <4>2, <4>3
    <3> QED
      BY <1>11, <2>2, <3>1, <3>2, <3>3 DEF SoundRows
  <2> QED
    BY <2>1, <2>2
<1>13. ASSUME KeepsThePast(store, past, weekly) PROVE KeepsThePast(store', past', weekly)
  <2>1. ASSUME NEW k \in DOMAIN store PROVE k \in DOMAIN store' /\ store'[k] = store[k]
    <3>1. CASE same
      BY <1>1, <3>1
    <3>2. CASE ~same
      BY <1>11, <3>2
    <3> QED
      BY <3>1, <3>2
  <2>2. \E k \in DOMAIN store' : store'[k] = row
    <3>1. CASE same
      <4>1. store # << >> /\ store[Len(store)] = row
        BY <3>1
      <4>2. Len(store) \in DOMAIN store
        BY <1>10, <4>1
      <4>3. store' = store
        BY <1>1, <3>1
      <4> QED
        BY <4>1, <4>2, <4>3
    <3>2. CASE ~same
      <4>1. Len(store) + 1 \in DOMAIN store'
        BY <1>10, <1>11, <3>2
      <4> QED
        BY <1>11, <3>2, <4>1
    <3> QED
      BY <3>1, <3>2
  <2>3. ASSUME NEW k \in DOMAIN store', store'[k].kind = "weekly" PROVE k \in DOMAIN store
    <3>1. CASE same
      BY <1>1, <3>1
    <3>2. CASE ~same
      BY <1>2, <1>11, <2>3, <3>2
    <3> QED
      BY <3>1, <3>2
  <2>4. ASSUME past'.live > 0
        PROVE  \E k \in DOMAIN store' : store'[k].kind = "live" /\ store'[k].ts = past'.live
    <3>1. CASE live = row.ts
      BY <1>2, <1>6, <2>2, <3>1
    <3>2. CASE live = past.live
      BY <1>6, <1>13, <2>1, <2>4, <3>2 DEF KeepsThePast
    <3> QED
      BY <1>4, <3>1, <3>2
  <2>5. ASSUME NEW w \in Weeks \ past'.missed, past'.scout[w] # Unseen
        PROVE  \E k \in DOMAIN store' : store'[k].kind = "weekly" /\ store'[k].week = w
                                        /\ store'[k].scout = past'.scout[w]
    BY <1>6, <1>13, <2>1, <2>5 DEF KeepsThePast
  <2>6. ASSUME NEW w \in past'.idle \ past'.missed
        PROVE  /\ \E k \in DOMAIN store' : store'[k].kind = "weekly" /\ store'[k].week = w
               /\ weekly[w].runs = 0 =>
                    \A k \in DOMAIN store' :
                      store'[k].kind = "weekly" /\ store'[k].week = w => store'[k].idle
    BY <1>6, <1>13, <2>1, <2>3 DEF KeepsThePast
  <2> QED
    BY <2>4, <2>5, <2>6 DEF KeepsThePast
<1>14. StoreIsSound'
  BY <1>1, <1>6, <1>12, <1>13 DEF StoreIsSound, Whole
<1> QED
  BY <1>7, <1>8, <1>14 DEF HistoryIInv

\* The row is not written, or cannot be read behind what a torn write left.
LEMMA LostStep ==
  ASSUME HistoryIInv, NEW s \in Snapshots, UNCHANGED store,
         AppendFails(s) \/ (AppendLive(s) /\ past.torn)
  PROVE  HistoryIInv'
<1>1. /\ WeeksAreTyped /\ SnapshotsAreSound /\ StoreIsSound /\ flock.by = Unseen
      /\ snapshot' = [snapshot EXCEPT ![s] = NoSnapshot]
      /\ UNCHANGED <<store, flock, instant, weekly, fitted>>
  BY DEF HistoryIInv, AppendFails, AppendLive
<1>2. /\ past \in [torn : BOOLEAN, missed : SUBSET Weeks, live : Nat,
                   scout : [Weeks -> {Unseen} \cup 1 .. LastInstant], idle : SUBSET Weeks]
      /\ slack \in [snapshots : Nat, events : Nat, breaks : Nat] /\ past.live \in Nat
  BY <1>1 DEF WeeksAreTyped
<1>3. /\ past' \in [torn : BOOLEAN, missed : SUBSET Weeks, live : Nat,
                    scout : [Weeks -> {Unseen} \cup 1 .. LastInstant], idle : SUBSET Weeks]
      /\ past'.torn /\ past'.live \in Nat /\ past.live <= past'.live
  <2>1. CASE AppendFails(s)
    <3>1. past' = [past EXCEPT !.torn = TRUE]
      BY <2>1 DEF AppendFails
    <3>2. past'.live = past.live /\ past.live <= past.live
      BY <1>2, <3>1
    <3> QED
      BY <1>2, <3>1, <3>2
  <2>2. CASE AppendLive(s) /\ past.torn
    <3> DEFINE ts == snapshot[s].now.ts
               live == IF past.live < ts THEN ts ELSE past.live
    <3>1. past' = [past EXCEPT !.live = live]
      BY <2>2 DEF AppendLive
    <3>2. snapshot[s].now \in HistoryRows
      BY <2>2 DEF HistoryIInv, SnapshotsAreSound, AppendLive
    <3>3. ts \in Nat
      BY <3>2, RowFields
    <3>4. live \in Nat /\ past.live <= live
      BY <1>2, <3>3
    <3> HIDE DEF live
    <3> QED
      BY <1>2, <2>2, <3>1, <3>4
  <2> QED
    BY <2>1, <2>2
<1>4. /\ slack' \in [snapshots : Nat, events : Nat, breaks : Nat]
      /\ slack'.events = slack.events
  <2>1. CASE AppendFails(s)
    BY <1>2, <2>1 DEF AppendFails
  <2>2. CASE AppendLive(s)
    BY <1>2, <2>2 DEF AppendLive
  <2> QED
    BY <2>1, <2>2
<1>5. WeeksAreTyped'
  BY <1>1, <1>3, <1>4 DEF WeeksAreTyped
<1>6. SnapshotsAreSound'
  <2>1. /\ NoSnapshot \in SnapshotRecords /\ NoSnapshot.rows = << >>
        /\ NoSnapshot.at = "none"
    BY <1>1, SnapshotFields DEF NoSnapshot
  <2>2. /\ OneRowPerWeek(NoSnapshot.rows)
        /\ \A k \in DOMAIN NoSnapshot.rows : RebuiltRow(NoSnapshot.rows[k], weekly)
    BY <2>1 DEF OneRowPerWeek
  <2> QED
    BY <1>1, <2>1, <2>2, SnapshotMoves
<1>7. SoundRows(store, instant, past'.live)
  <2>1. instant \in Nat /\ instant <= instant /\ SoundRows(store, instant, past.live)
    <3>1. instant \in 1 .. LastInstant /\ SoundRows(store, instant, past.live)
      BY <1>1 DEF WeeksAreTyped, StoreIsSound
    <3> QED
      BY <3>1, WeekFacts
  <2> QED
    BY <1>2, <1>3, <2>1, SoundLater
<1>8. StoreIsSound'
  BY <1>1, <1>3, <1>7 DEF StoreIsSound, Whole
<1> QED
  BY <1>5, <1>6, <1>8 DEF HistoryIInv

\* A refresh is killed.
LEMMA DeathStep ==
  ASSUME HistoryIInv, NEW s \in Snapshots, SnapshotDies(s)
  PROVE  HistoryIInv'
<1>1. /\ WeeksAreTyped /\ SnapshotsAreSound /\ StoreIsSound /\ slack.breaks > 0
      /\ slack' = [slack EXCEPT !.breaks = @ - 1]
      /\ snapshot' = [snapshot EXCEPT ![s] = NoSnapshot]
      /\ UNCHANGED <<store, instant, weekly, fitted>>
      /\ \/ flock.by = s /\ flock' = Nobody /\ past' = [past EXCEPT !.torn = TRUE]
         \/ flock.by # s /\ UNCHANGED <<flock, past>>
  BY DEF HistoryIInv, SnapshotDies
<1>2. /\ past \in [torn : BOOLEAN, missed : SUBSET Weeks, live : Nat,
                   scout : [Weeks -> {Unseen} \cup 1 .. LastInstant], idle : SUBSET Weeks]
      /\ slack \in [snapshots : Nat, events : Nat, breaks : Nat]
  BY <1>1 DEF WeeksAreTyped
<1>3. /\ past' \in [torn : BOOLEAN, missed : SUBSET Weeks, live : Nat,
                    scout : [Weeks -> {Unseen} \cup 1 .. LastInstant], idle : SUBSET Weeks]
      /\ past'.live = past.live
  BY <1>1, <1>2
<1>4. /\ slack' \in [snapshots : Nat, events : Nat, breaks : Nat]
      /\ slack'.events = slack.events
  BY <1>1, <1>2
<1>5. WeeksAreTyped'
  BY <1>1, <1>3, <1>4 DEF WeeksAreTyped
<1>6. SnapshotsAreSound'
  <2>1. /\ NoSnapshot \in SnapshotRecords /\ NoSnapshot.rows = << >>
        /\ NoSnapshot.at = "none"
    BY <1>1, SnapshotFields DEF NoSnapshot
  <2>2. /\ OneRowPerWeek(NoSnapshot.rows)
        /\ \A k \in DOMAIN NoSnapshot.rows : RebuiltRow(NoSnapshot.rows[k], weekly)
    BY <2>1 DEF OneRowPerWeek
  <2>3. flock.by \notin {Unseen, s} => flock'.by = flock.by
    BY <1>1
  <2> QED
    BY <1>1, <2>1, <2>2, <2>3, SnapshotMoves
<1>7. StoreIsSound'
  <2>1. CASE flock.by = s /\ flock' = Nobody /\ past' = [past EXCEPT !.torn = TRUE]
    <3>1. past'.torn
      BY <1>2, <2>1
    <3>2. /\ Nobody \in [by : {Unseen} \cup Snapshots, prior : Seq(HistoryRows),
                         next : Seq(HistoryRows)]
          /\ Nobody.by = Unseen
      BY DEF Nobody
    <3> QED
      BY <1>1, <1>3, <2>1, <3>1, <3>2 DEF StoreIsSound, Whole
  <2>2. CASE UNCHANGED <<flock, past>>
    BY <1>1, <2>2, StoreStays
  <2> QED
    BY <1>1, <2>1, <2>2
<1> QED
  BY <1>5, <1>6, <1>7 DEF HistoryIInv

-----------------------------------------------------------------------------

\* The first state.
LEMMA HistoryStarts ==
  ASSUME HistoryInit
  PROVE  HistoryIInv
<1>1. LastInstant \in Nat /\ MaxWeekEvents \in Nat /\ MaxBreaks \in Nat
      /\ MaxSnapshots \in Nat /\ LastInstant >= 1
  BY HistoryAssumption
<1>2. instant \in 1 .. LastInstant /\ fitted \in BOOLEAN
  <2>1. instant = 1
    BY DEF HistoryInit
  <2>2. fitted \in BOOLEAN
    BY DEF HistoryInit
  <2>3. instant \in 1 .. LastInstant
    BY <1>1, <2>1
  <2> QED
    BY <2>2, <2>3
<1>3. weekly \in [Weeks -> [runs : Nat, bridged : Nat, hearts : BOOLEAN]]
  BY DEF HistoryInit
<1>4. slack \in [snapshots : Nat, events : Nat, breaks : Nat]
  BY <1>1 DEF HistoryInit
<1>5. \A w \in Weeks : /\ weekly[w].bridged <= weekly[w].runs
                       /\ weekly[w].bridged + slack.events <= MaxWeekEvents
  BY <1>1 DEF HistoryInit
<1>6. past \in [torn : BOOLEAN, missed : SUBSET Weeks, live : Nat,
                scout : [Weeks -> {Unseen} \cup 1 .. LastInstant], idle : SUBSET Weeks]
  BY DEF HistoryInit
<1>7. WeeksAreTyped
  BY <1>2, <1>3, <1>4, <1>5, <1>6 DEF WeeksAreTyped
<1>8. SnapshotsAreSound
  <2>1. /\ NoSnapshot \in SnapshotRecords /\ NoSnapshot.rows = << >>
        /\ NoSnapshot.at = "none"
    BY DEF NoSnapshot, SnapshotRecords
  <2>2. snapshot \in [Snapshots -> SnapshotRecords]
    BY <2>1 DEF HistoryInit
  <2>3. \A s \in Snapshots : snapshot[s] = NoSnapshot
    BY DEF HistoryInit
  <2> QED
    BY <2>1, <2>2, <2>3 DEF SnapshotsAreSound, OneRowPerWeek
<1>9. StoreIsSound
  <2>1. SoundRows(store, instant, past.live)
    BY DEF SoundRows, OneRowPerWeek, HistoryInit
  <2>2. /\ flock \in [by : {Unseen} \cup Snapshots, prior : Seq(HistoryRows),
                      next : Seq(HistoryRows)]
        /\ flock.by = Unseen
    BY DEF Nobody, HistoryInit
  <2>3. KeepsThePast(store, past, weekly)
    BY DEF KeepsThePast, HistoryInit
  <2> QED
    BY <2>1, <2>2, <2>3 DEF StoreIsSound
<1> QED
  BY <1>7, <1>8, <1>9 DEF HistoryIInv

\* What a sound store promises.
LEMMA SoundStoreKeeps ==
  ASSUME HistoryIInv
  PROVE  HistoryInv
<1>1. /\ instant \in 1 .. LastInstant /\ fitted \in BOOLEAN /\ instant \in Nat
      /\ weekly \in [Weeks -> [runs : Nat, bridged : Nat, hearts : BOOLEAN]]
      /\ SoundRows(store, instant, past.live)
  BY WeekFacts DEF HistoryIInv, WeeksAreTyped, StoreIsSound
<1>2. ASSUME NEW k \in DOMAIN store
      PROVE  store[k] \in HistoryRows /\ SoundRow(store[k], instant)
  <2>1. store \in Seq(HistoryRows)
    BY <1>1 DEF SoundRows
  <2> QED
    BY <1>1, <2>1, PlacesAreFinite DEF SoundRows
<1>3. HistoryTypeOK
  <2>1. ASSUME NEW k \in DOMAIN store
        PROVE  /\ store[k].kind \in {"weekly", "live"} /\ store[k].week \in Weeks
               /\ store[k].ts \in 0 .. instant /\ store[k].idle \in BOOLEAN
               /\ store[k].scout \in {Unseen} \cup 1 .. instant
               /\ store[k].loop \in {Unseen} \cup 0 .. MaxWeekEvents
    <3> DEFINE r == store[k]
    <3>1. r \in HistoryRows /\ SoundRow(r, instant)
      BY <1>2
    <3> HIDE DEF r
    <3>2. /\ r.kind \in {"weekly", "live"} /\ r.week \in Weeks /\ r.ts \in Nat
          /\ r.idle \in BOOLEAN /\ r.scout \in {Unseen} \cup 1 .. LastInstant
          /\ r.loop \in {Unseen} \cup 0 .. MaxWeekEvents
      BY <3>1, RowFields
    <3>3. r.ts \in 0 .. instant
      BY <1>1, <3>1, <3>2 DEF SoundRow
    <3>4. r.scout \in {Unseen} \cup 1 .. instant
      <4>1. CASE r.scout # Unseen
        <5>1. r.scout \in 1 .. LastInstant /\ r.scout \in Nat /\ r.scout >= 1
          BY <3>2, <4>1, WeekFacts
        <5>2. r.scout <= instant
          BY <3>1, <3>2, <3>3, <4>1, <5>1 DEF SoundRow
        <5> QED
          BY <1>1, <5>1, <5>2
      <4> QED
        BY <4>1
    <3> QED
      BY <3>2, <3>3, <3>4 DEF r
  <2>2. flock.by \in {Unseen} \cup Snapshots
    BY DEF HistoryIInv, StoreIsSound
  <2>3. ASSUME NEW s \in Snapshots
        PROVE  snapshot[s].at \in {"none", "rebuild", "merge", "write", "calibrate",
                                   "measure", "append"}
    <3>1. snapshot[s] \in SnapshotRecords
      BY DEF HistoryIInv, SnapshotsAreSound
    <3> QED
      BY <3>1 DEF SnapshotRecords
  <2> QED
    BY <1>1, <2>1, <2>2, <2>3 DEF HistoryTypeOK
<1>4. NeverBackdated
  BY <1>2 DEF NeverBackdated, SoundRow
<1>5. Whole => KeepsThePast(store, past, weekly)
  BY DEF HistoryIInv, StoreIsSound
<1>6. NewestLiveStays
  BY <1>5 DEF NewestLiveStays, KeepsThePast
<1>7. CarriedStays
  BY <1>5 DEF CarriedStays, KeepsThePast, WeekRows
<1>8. IdleStays
  <2>1. ASSUME Whole, NEW w \in past.idle \ past.missed, weekly[w].runs = 0,
               NEW k \in WeekRows(w)
        PROVE  store[k].idle /\ store[k].loop = Unseen
    <3>1. k \in DOMAIN store /\ store[k].kind = "weekly" /\ store[k].week = w
      BY <2>1 DEF WeekRows
    <3>2. store[k].idle
      BY <1>5, <2>1, <3>1 DEF KeepsThePast
    <3> QED
      BY <1>2, <3>1, <3>2 DEF SoundRow
  <2> QED
    BY <2>1 DEF IdleStays
<1>9. NoTwins
  BY <1>1 DEF NoTwins, SoundRows
<1> QED
  BY <1>3, <1>4, <1>6, <1>7, <1>8, <1>9 DEF HistoryInv

\* However the refreshes overlap, fail and die, and whatever becomes known of a week
\* later: no week's row carries what was observed after its Monday; and unless a rewrite
\* was killed or could not put back what it had cut, or an append failed, the newest live
\* row survives every rewrite, what a week once carried it goes on carrying, and a week
\* recorded as idle is not graded unless a run was logged in it (backfill_history.py
\* and append_snapshot), for any number of refreshes, weeks, events and failures.
THEOREM PastIsKept ==
  HistorySpec => []HistoryInv
<1>1. HistoryInit => HistoryIInv
  BY HistoryStarts
<1>2. HistoryIInv /\ [HistoryNext]_historyVars => HistoryIInv'
  <2>1. CASE UNCHANGED historyVars
    BY <2>1 DEF historyVars, HistoryIInv, WeeksAreTyped, SnapshotsAreSound, StoreIsSound,
                Whole
  <2>2. ASSUME HistoryIInv, HistoryNext PROVE HistoryIInv'
    <3>1. ASSUME NEW s \in Snapshots, AppendLive(s) \/ AppendFails(s) PROVE HistoryIInv'
      BY <2>2, <3>1, AppendStep, LostStep DEF AppendLive, AppendFails
    <3> QED
      BY <2>2, <3>1, WorldSteps, UnwrittenSteps, MergeStep, WriteSteps, DeathStep
         DEF HistoryNext
  <2> QED
    BY <2>1, <2>2
<1>3. HistoryIInv => HistoryInv
  BY SoundStoreKeeps
<1> QED
  BY <1>1, <1>2, <1>3, PTL DEF HistorySpec

-----------------------------------------------------------------------------
(* What reaches the human                                                     *)

\* What a run of the notifier looks like.
NotifierRuns ==
  [at : {"queue", "lag", "fleet", "escalate", "doctor", "save"}, copy : Memory,
   quiet : SUBSET Signed, base : Memory, read : BOOLEAN]

Banners == [Channels -> [sig : Signatures \union {Silent}, day : Days \union {Never}]]

\* Nothing happened on a day to come.
NotAhead ==
  /\ \A k \in Channels : told[k].day # Never => told[k].day <= date
  /\ mailed # Never => mailed <= date
  /\ since # Never => since <= date

\* What is remembered as told was told, then or later.
Remembered(m, t) ==
  \A k \in Channels : m.at[k] # Never => t[k].day # Never /\ m.at[k] <= t[k].day

\* A channel has made less noise than saves were lost, or else the run knows what was
\* told today.
NoiseIsPaid(n, t, x, l, now) ==
  /\ \A k \in Channels : x[k] <= l
  /\ \A k \in Signed :
       t[k].sig # Silent /\ t[k].day = now =>
         x[k] < l \/ (n.copy.sig[k] = t[k].sig /\ n.copy.at[k] = now)
  /\ t["lag"].day = now => x["lag"] < l \/ n.copy.at["lag"] = now

\* Until a save is lost the run knows since when the job has failed and which incidents
\* were told; and when it raised a false alarm a digest went out meanwhile.
NothingIsLost(n, t, x, l, mail, from) ==
  l = 0 =>
    /\ n.copy.seen = from
    /\ \A k \in Signed : n.copy.sig[k] # Silent => t[k].sig # Silent
    /\ n.base.email # Never => mail # Never /\ n.base.email <= mail
    /\ x["alarm"] > 0 => n.base.email # Never /\ n.base.email < mail

Silences(n, t, l, now) ==
  \A k \in n.quiet : t[k].day = now /\ (l = 0 => t[k].sig # Silent)

\* A run is silent only about channels whose turn is over.
InTurn(n) ==
  /\ n.at = "queue" => n.quiet = {}
  /\ n.at \in {"lag", "fleet"} => n.quiet \subseteq {"queue"}
  /\ n.at \in {"escalate", "doctor"} => n.quiet \subseteq {"queue", "fleet"}

SoundRun(n, t, x, l, now, mail, from) ==
  /\ n \in NotifierRuns /\ n.copy.email = n.base.email
  /\ Remembered(n.copy, t)
  /\ NoiseIsPaid(n, t, x, l, now)
  /\ NothingIsLost(n, t, x, l, mail, from)
  /\ Silences(n, t, l, now)

\* A digest too many is paid by a loss, before it is sent.
MailIsPaid ==
  /\ extra["mail"] <= lost
  /\ lost = 0 => memory.email = mailed
  /\ mailer.at # "save" /\ mailed = date => extra["mail"] < lost \/ memory.email = date
  /\ mailer.at = "send" /\ mailed = mailer.today => extra["mail"] < lost
  /\ mailer # NotRunning =>
       /\ mailer.copy = mailer.base /\ Remembered(mailer.copy, told)
       /\ mailer.today <= date
       /\ mailed # Never => mailed <= mailer.today

\* A run that could not read the file has lost more than was ever told twice.
BlindIsPaid ==
  notifier.at = "queue" => lost # 0 /\ \A k \in Channels : extra[k] < lost

AlertsIInv ==
  /\ AlertsTypeOK /\ NotAhead /\ BlindIsPaid
  /\ Remembered(memory, told)
  /\ MailIsPaid
  /\ SoundRun(Run, told, extra, lost, date, mailed, since) /\ InTurn(Run)
  /\ AskedAboutFailingJobs

\* Banners only come later.
Later(t, u) ==
  \A k \in Channels : t[k].day # Never => u[k].day # Never /\ t[k].day <= u[k].day

\* Never is a number beyond every day.
LEMMA NeverIsNoDay == /\ LastDate \in Nat /\ Never \in Nat /\ Never \notin Days
                      /\ \A d \in Days : d \in Nat /\ d < Never
BY AlertsAssumption DEF Days, Never

\* What is remembered as told stays told.
LEMMA RememberedStays ==
  ASSUME NEW m \in Memory, NEW t \in Banners, NEW u \in Banners,
         Remembered(m, t), Later(t, u)
  PROVE  Remembered(m, u)
<1> SUFFICES ASSUME NEW k \in Channels, m.at[k] # Never
             PROVE  u[k].day # Never /\ m.at[k] <= u[k].day
  BY DEF Remembered
<1>1. t[k].day # Never /\ m.at[k] <= t[k].day /\ u[k].day # Never /\ t[k].day <= u[k].day
  BY DEF Remembered, Later
<1>2. m.at[k] \in Days /\ t[k].day \in Days /\ u[k].day \in Days
  BY <1>1 DEF Memory, Banners
<1> QED
  BY <1>1, <1>2, NeverIsNoDay

\* Run is the run under way, where there is one.
LEMMA RunIsRun == AlertsTypeOK => /\ Run \in NotifierRuns
                                  /\ notifier.at # "idle" => Run = notifier
<1> SUFFICES ASSUME AlertsTypeOK PROVE Run \in NotifierRuns /\ (notifier.at # "idle" => Run = notifier)
  OBVIOUS
<1>1. CASE notifier = NotRunning
  BY <1>1 DEF Run, NotifierRuns, Begun, AlertsTypeOK, NotRunning
<1>2. CASE notifier # NotRunning
  <2>1. notifier \in NotifierRuns
    BY <1>2 DEF AlertsTypeOK, NotifierRuns
  <2> QED
    BY <1>2, <2>1 DEF Run, NotifierRuns
<1> QED
  BY <1>1, <1>2

\* One banner, told or needless, in the history.
LEMMA TellsOne ==
  ASSUME told \in Banners, NEW k \in Channels, NEW sig \in Signatures \union {Silent},
         date \in Days, Tells(k, sig), \A j \in Channels : told[j].day # Never => told[j].day <= date
  PROVE  /\ told' \in Banners
         /\ told'[k].sig = sig /\ told'[k].day = date
         /\ \A j \in Channels : j # k => told'[j] = told[j]
         /\ Later(told, told')
<1>1. /\ told' \in Banners
      /\ told'[k].sig = sig /\ told'[k].day = date
      /\ \A j \in Channels : j # k => told'[j] = told[j]
  BY DEF Tells, Banners
<1>2. ASSUME NEW j \in Channels, told[j].day # Never
      PROVE  told'[j].day # Never /\ told[j].day <= told'[j].day
  <2>1. told[j].day \in Days
    BY <1>2 DEF Banners
  <2>2. CASE j = k
    BY <1>1, <1>2, <2>1, <2>2, NeverIsNoDay
  <2>3. CASE j # k
    BY <1>1, <1>2, <2>1, <2>3, NeverIsNoDay
  <2> QED
    BY <2>2, <2>3
<1> QED
  BY <1>1, <1>2 DEF Later

\* One more noise, counted when it is too many.
LEMMA CountsOne ==
  ASSUME extra \in [Noises -> Nat], NEW k \in Noises, NEW so \in BOOLEAN
  PROVE  /\ Needless(k, so) \in [Noises -> Nat]
         /\ Needless(k, so)[k] = IF so THEN extra[k] + 1 ELSE extra[k]
         /\ \A j \in Noises : j # k => Needless(k, so)[j] = extra[j]
BY DEF Needless

\* What the copy of a run becomes.
LEMMA AcknowledgedIs ==
  ASSUME NEW m \in Memory, NEW k \in Signed, cond \in [Signed -> Signatures \union {Silent}],
         date \in Days
  PROVE  LET c == Acknowledged(m, k)
         IN  /\ c \in Memory /\ c.seen = m.seen /\ c.email = m.email
             /\ c.sig[k] = cond[k] /\ c.at[k] = date
             /\ \A j \in Signed : j # k => c.sig[j] = m.sig[j]
             /\ \A j \in Channels : j # k => c.at[j] = m.at[j]
<1>1. k \in Channels
  BY DEF Channels
<1>2. Acknowledged(m, k) = [m EXCEPT !.sig = [m.sig EXCEPT ![k] = cond[k]],
                                     !.at = [m.at EXCEPT ![k] = date]]
  BY DEF Acknowledged
<1> DEFINE s == [m.sig EXCEPT ![k] = cond[k]]
           a == [m.at EXCEPT ![k] = date]
<1>3. /\ s \in [Signed -> Signatures \union {Silent}]
      /\ s[k] = cond[k] /\ \A j \in Signed : j # k => s[j] = m.sig[j]
  BY DEF Memory
<1>4. /\ a \in [Channels -> Days \union {Never}]
      /\ a[k] = date /\ \A j \in Channels : j # k => a[j] = m.at[j]
  BY <1>1 DEF Memory
<1> HIDE DEF s, a
<1> QED
  BY <1>2, <1>3, <1>4 DEF Memory, s, a

\* What a copy becomes when there is nothing to tell.
LEMMA ClearedIs ==
  ASSUME NEW m \in Memory, NEW k \in Signed
  PROVE  LET c == Cleared(m, k)
         IN  /\ c \in Memory /\ c.seen = m.seen /\ c.email = m.email
             /\ c.sig[k] = Silent /\ c.at = m.at
             /\ \A j \in Signed : j # k => c.sig[j] = m.sig[j]
<1>1. Cleared(m, k) = [m EXCEPT !.sig = [m.sig EXCEPT ![k] = Silent]]
  BY DEF Cleared
<1> DEFINE s == [m.sig EXCEPT ![k] = Silent]
<1>3. /\ s \in [Signed -> Signatures \union {Silent}]
      /\ s[k] = Silent /\ \A j \in Signed : j # k => s[j] = m.sig[j]
  BY DEF Memory
<1> HIDE DEF s
<1> QED
  BY <1>1, <1>3 DEF Memory, s

\* The step of one channel leaves a sound run sound.
ChannelTypes(n) ==
  /\ n \in NotifierRuns /\ told \in Banners /\ extra \in [Noises -> Nat]
  /\ cond \in [Signed -> Signatures \union {Silent}] /\ date \in Days /\ lost \in Nat
  /\ \A j \in Channels : told[j].day # Never => told[j].day <= date

ChannelKept(n, k, next) ==
  /\ SoundRun(notifier', told', extra', lost, date, mailed, since)
  /\ notifier'.at = next /\ notifier'.quiet \subseteq n.quiet \union {k}
  /\ told' \in Banners /\ Later(told, told') /\ extra' \in [Noises -> Nat]
  /\ \A j \in Channels : told'[j].day # Never => told'[j].day <= date
  /\ extra'["mail"] = extra["mail"] /\ notifier'.base = n.base

\* The lag banner has no signature; digests and false alarms are no channel.
LEMMA SignedChannels == /\ \A k \in Signed : k \in Channels /\ k # "lag"
                        /\ "lag" \in Channels
                        /\ \A k \in Channels : k \in Noises /\ k # "mail" /\ k # "alarm"
                        /\ "mail" \in Noises /\ "alarm" \in Noises
BY DEF Signed, Channels, Noises

\* A channel with nothing to tell.
LEMMA ChannelClears ==
  ASSUME NEW n, ChannelTypes(n), NEW k \in Signed, NEW next \in {"lag", "escalate", "save"},
         SoundRun(n, told, extra, lost, date, mailed, since), k \notin n.quiet,
         notifier' = [n EXCEPT !.at = next, !.copy = Cleared(n.copy, k)],
         told' = [told EXCEPT ![k].sig = Silent], extra' = extra
  PROVE  ChannelKept(n, k, next)
<1> DEFINE c == Cleared(n.copy, k)
<1>1. n.copy \in Memory
  BY DEF ChannelTypes, NotifierRuns
<1>2. /\ c \in Memory /\ c.seen = n.copy.seen /\ c.email = n.copy.email
      /\ c.sig[k] = Silent /\ c.at = n.copy.at
      /\ \A j \in Signed : j # k => c.sig[j] = n.copy.sig[j]
  BY <1>1, ClearedIs
<1> HIDE DEF c
<1>3. /\ notifier'.at = next /\ notifier'.copy = c /\ notifier'.base = n.base
      /\ notifier'.quiet = n.quiet /\ notifier' \in NotifierRuns
  BY <1>2 DEF c, ChannelTypes, NotifierRuns
<1>5. /\ told' \in Banners /\ told'[k].sig = Silent
      /\ \A j \in Channels : told'[j].day = told[j].day
      /\ \A j \in Channels : j # k => told'[j] = told[j]
  BY SignedChannels DEF ChannelTypes, Banners
<1>6. Later(told, told')
  <2> SUFFICES ASSUME NEW j \in Channels, told[j].day # Never
               PROVE  told'[j].day # Never /\ told[j].day <= told'[j].day
    BY DEF Later
  <2>1. told[j].day \in Days
    BY DEF ChannelTypes, Banners
  <2> QED
    BY <1>5, <2>1, NeverIsNoDay
<1>7. Remembered(notifier'.copy, told')
  BY <1>2, <1>3, <1>5 DEF SoundRun, Remembered
<1>8. NoiseIsPaid(notifier', told', extra', lost, date)
  BY <1>2, <1>3, <1>5, SignedChannels DEF SoundRun, NoiseIsPaid
<1>9. NothingIsLost(notifier', told', extra', lost, mailed, since)
  BY <1>2, <1>3, <1>5, SignedChannels DEF SoundRun, NothingIsLost
<1>10. Silences(notifier', told', lost, date)
  <2>1. n.quiet \subseteq Signed
    BY DEF ChannelTypes, NotifierRuns
  <2> QED
    BY <1>3, <1>5, <2>1, SignedChannels DEF SoundRun, Silences
<1>11. SoundRun(notifier', told', extra', lost, date, mailed, since)
  BY <1>2, <1>3, <1>7, <1>8, <1>9, <1>10 DEF SoundRun
<1>12. \A j \in Channels : told'[j].day # Never => told'[j].day <= date
  BY <1>5 DEF ChannelTypes
<1> QED
  BY <1>3, <1>5, <1>6, <1>11, <1>12, SignedChannels DEF ChannelKept, ChannelTypes

\* What is remembered as told today was told today.
LEMMA ChannelIsQuiet ==
  ASSUME NEW n, ChannelTypes(n), NEW k \in Signed, NEW next \in {"lag", "escalate", "save"},
         SoundRun(n, told, extra, lost, date, mailed, since),
         cond[k] # Silent, ~Due(n.copy, k),
         notifier' = [n EXCEPT !.at = next, !.quiet = @ \union {k}],
         told' = told, extra' = extra
  PROVE  ChannelKept(n, k, next)
<1>1. /\ n.copy.sig[k] = cond[k] /\ n.copy.at[k] # Never /\ ~(date > n.copy.at[k])
  BY DEF Due, ReminderDue
<1>2. /\ notifier'.at = next /\ notifier'.copy = n.copy /\ notifier'.base = n.base
      /\ notifier'.quiet = n.quiet \union {k} /\ notifier' \in NotifierRuns
  BY DEF ChannelTypes, NotifierRuns
<1>3. told[k].day = date
  <2>1. n.copy.at[k] \in Days /\ told[k].day \in Days \union {Never}
    BY <1>1, SignedChannels DEF ChannelTypes, NotifierRuns, Memory, Banners
  <2>2. told[k].day # Never /\ n.copy.at[k] <= told[k].day
    BY <1>1, SignedChannels DEF SoundRun, Remembered
  <2>3. told[k].day <= date
    BY <2>2, SignedChannels DEF ChannelTypes
  <2> QED
    BY <1>1, <2>1, <2>2, <2>3, NeverIsNoDay DEF ChannelTypes
<1>4. lost = 0 => told[k].sig # Silent
  BY <1>1 DEF SoundRun, NothingIsLost
<1>5. Silences(notifier', told', lost, date)
  BY <1>2, <1>3, <1>4 DEF SoundRun, Silences
<1>6. NoiseIsPaid(notifier', told', extra', lost, date)
  BY <1>2 DEF SoundRun, NoiseIsPaid
<1>7. NothingIsLost(notifier', told', extra', lost, mailed, since)
  BY <1>2 DEF SoundRun, NothingIsLost
<1>8. SoundRun(notifier', told', extra', lost, date, mailed, since)
  BY <1>2, <1>5, <1>6, <1>7 DEF SoundRun
<1>9. Later(told, told')
  <2>1. ASSUME NEW j \in Channels, told[j].day # Never PROVE told[j].day <= told[j].day
    BY <2>1, NeverIsNoDay DEF ChannelTypes, Banners
  <2> QED
    BY <2>1 DEF Later
<1> QED
  BY <1>2, <1>8, <1>9 DEF ChannelKept, ChannelTypes

\* A banner told twice in a day is told by a run that does not know the first.
LEMMA ChannelTells ==
  ASSUME NEW n, ChannelTypes(n), NEW k \in Signed, NEW next \in {"lag", "escalate", "save"},
         SoundRun(n, told, extra, lost, date, mailed, since), k \notin n.quiet,
         cond[k] # Silent, Due(n.copy, k),
         notifier' = [n EXCEPT !.at = next, !.copy = Acknowledged(n.copy, k)],
         Tells(k, cond[k]), extra' = Needless(k, ToldToday(k))
  PROVE  ChannelKept(n, k, next)
<1> DEFINE c == Acknowledged(n.copy, k)
<1>1. n.copy \in Memory
  BY DEF ChannelTypes, NotifierRuns
<1>2. /\ c \in Memory /\ c.seen = n.copy.seen /\ c.email = n.copy.email
      /\ c.sig[k] = cond[k] /\ c.at[k] = date
      /\ \A j \in Signed : j # k => c.sig[j] = n.copy.sig[j]
      /\ \A j \in Channels : j # k => c.at[j] = n.copy.at[j]
  BY <1>1, AcknowledgedIs DEF ChannelTypes
<1> HIDE DEF c
<1>3. /\ notifier'.at = next /\ notifier'.copy = c /\ notifier'.base = n.base
      /\ notifier'.quiet = n.quiet /\ notifier' \in NotifierRuns
  BY <1>2 DEF c, ChannelTypes, NotifierRuns
<1>4. cond[k] \in Signatures \union {Silent}
  BY DEF ChannelTypes
<1>5. /\ told' \in Banners
      /\ told'[k].sig = cond[k] /\ told'[k].day = date
      /\ \A j \in Channels : j # k => told'[j] = told[j]
      /\ Later(told, told')
  BY <1>4, TellsOne, SignedChannels DEF ChannelTypes
<1>6. /\ extra' \in [Noises -> Nat]
      /\ extra'[k] = IF ToldToday(k) THEN extra[k] + 1 ELSE extra[k]
      /\ \A j \in Noises : j # k => extra'[j] = extra[j]
  <2>1. ToldToday(k) \in BOOLEAN
    BY DEF ToldToday
  <2> QED
    BY <2>1, CountsOne, SignedChannels DEF ChannelTypes
<1>7. ToldToday(k) => extra[k] < lost
  <2> SUFFICES ASSUME ToldToday(k) PROVE extra[k] < lost
    OBVIOUS
  <2>1. told[k].sig = cond[k] /\ told[k].day = date
    BY DEF ToldToday
  <2>2. ~(n.copy.sig[k] = cond[k] /\ n.copy.at[k] = date)
    <3>1. date # Never /\ ~(date > date)
      BY NeverIsNoDay DEF ChannelTypes
    <3> QED
      BY <3>1 DEF Due, ReminderDue
  <2> QED
    BY <2>1, <2>2 DEF SoundRun, NoiseIsPaid
<1>8. Remembered(notifier'.copy, told')
  <2> SUFFICES ASSUME NEW j \in Channels, c.at[j] # Never
               PROVE  told'[j].day # Never /\ c.at[j] <= told'[j].day
    BY <1>3 DEF Remembered
  <2>1. CASE j = k
    BY <1>2, <1>5, <2>1, NeverIsNoDay DEF ChannelTypes
  <2>2. CASE j # k
    BY <1>2, <1>5, <2>2 DEF SoundRun, Remembered
  <2> QED
    BY <2>1, <2>2
<1>9. NoiseIsPaid(notifier', told', extra', lost, date)
  <2>1. \A j \in Channels : extra'[j] <= lost
    <3> SUFFICES ASSUME NEW j \in Channels PROVE extra'[j] <= lost
      OBVIOUS
    <3>1. extra[j] \in Nat /\ lost \in Nat /\ extra[j] <= lost
      BY SignedChannels DEF ChannelTypes, SoundRun, NoiseIsPaid
    <3> QED
      BY <1>6, <1>7, <3>1, SignedChannels
  <2>2. ASSUME NEW j \in Signed, told'[j].sig # Silent, told'[j].day = date
        PROVE  extra'[j] < lost \/ (c.sig[j] = told'[j].sig /\ c.at[j] = date)
    <3>1. CASE j = k
      BY <1>2, <1>5, <3>1
    <3>2. CASE j # k
      BY <1>2, <1>5, <1>6, <2>2, <3>2, SignedChannels DEF SoundRun, NoiseIsPaid
    <3> QED
      BY <3>1, <3>2
  <2>3. told'["lag"].day = date => extra'["lag"] < lost \/ c.at["lag"] = date
    BY <1>2, <1>5, <1>6, SignedChannels DEF SoundRun, NoiseIsPaid
  <2> QED
    BY <1>3, <2>1, <2>2, <2>3 DEF NoiseIsPaid
<1>10. NothingIsLost(notifier', told', extra', lost, mailed, since)
  BY <1>2, <1>3, <1>5, <1>6, SignedChannels DEF SoundRun, NothingIsLost
<1>11. Silences(notifier', told', lost, date)
  <2>1. n.quiet \subseteq Signed
    BY DEF ChannelTypes, NotifierRuns
  <2> QED
    BY <1>3, <1>5, <2>1, SignedChannels DEF SoundRun, Silences
<1>12. SoundRun(notifier', told', extra', lost, date, mailed, since)
  BY <1>2, <1>3, <1>8, <1>9, <1>10, <1>11 DEF SoundRun
<1>13. \A j \in Channels : told'[j].day # Never => told'[j].day <= date
  BY <1>5, NeverIsNoDay DEF ChannelTypes
<1> QED
  BY <1>3, <1>5, <1>6, <1>12, <1>13, SignedChannels DEF ChannelKept

\* Whatever becomes of its banner, a channel leaves a sound run sound.
LEMMA ChannelKeeps ==
  ASSUME NEW n, ChannelTypes(n), NEW k \in Signed, NEW next \in {"lag", "escalate", "save"},
         NEW failed, SoundRun(n, told, extra, lost, date, mailed, since), k \notin n.quiet,
         Channel(n, k, next, failed)
  PROVE  \/ ChannelKept(n, k, next)
         \/ notifier' = failed /\ told' = told /\ extra' = extra
<1>1. CASE /\ cond[k] = Silent
           /\ notifier' = [n EXCEPT !.at = next, !.copy = Cleared(n.copy, k)]
           /\ told' = [told EXCEPT ![k].sig = Silent]
           /\ UNCHANGED <<extra, mishaps>>
  BY <1>1, ChannelClears
<1>2. CASE /\ cond[k] # Silent /\ ~Due(n.copy, k)
           /\ notifier' = [n EXCEPT !.at = next, !.quiet = @ \union {k}]
           /\ UNCHANGED <<told, extra, mishaps>>
  BY <1>2, ChannelIsQuiet
<1>3. CASE /\ cond[k] # Silent /\ Due(n.copy, k)
           /\ notifier' = [n EXCEPT !.at = next, !.copy = Acknowledged(n.copy, k)]
           /\ Tells(k, cond[k]) /\ extra' = Needless(k, ToldToday(k))
  BY <1>3, ChannelTells
<1>4. CASE notifier' = failed /\ UNCHANGED <<told, extra>>
  BY <1>4
<1> QED
  BY <1>1, <1>2, <1>3, <1>4 DEF Channel

\* Nothing is told yet.
LEMMA AlertsStart == AlertsInit => AlertsIInv
<1> SUFFICES ASSUME AlertsInit PROVE AlertsIInv
  OBVIOUS
<1>1. NothingToldYet \in Memory
  BY DEF NothingToldYet, Memory
<1>2. AlertsTypeOK
  <2>1. date \in Days /\ NoRequest.day \in Days /\ NoRequest.failing \in Days
    BY NeverIsNoDay DEF AlertsInit, Days, NoRequest
  <2>2. told \in Banners
    BY DEF AlertsInit, Banners
  <2>3. changes \in 0 .. MaxChanges /\ mishaps \in 0 .. MaxMishaps
    BY AlertsAssumption DEF AlertsInit
  <2>4. request \in [status : {"none", "pending", "approved", "rejected", "expired",
                               "retired", "done"},
                     day : Days, failing : Days]
    BY <2>1 DEF AlertsInit, NoRequest
  <2> QED
    BY <1>1, <2>1, <2>2, <2>3, <2>4 DEF AlertsInit, AlertsTypeOK, Banners
<1>3. /\ Run = Begun /\ notifier = NotRunning /\ mailer = NotRunning
      /\ memory = NothingToldYet /\ lost = 0
      /\ mailed = Never /\ since = Never /\ request = NoRequest /\ date = 0
      /\ \A k \in Channels : told[k].sig = Silent /\ told[k].day = Never
      /\ \A k \in Noises : extra[k] = 0
  BY DEF AlertsInit, Run
<1>4. /\ \A k \in Channels : memory.at[k] = Never
      /\ \A k \in Signed : memory.sig[k] = Silent
      /\ memory.seen = Never /\ memory.email = Never
  BY <1>3 DEF NothingToldYet
<1>5. /\ Run \in NotifierRuns /\ Run.copy = memory /\ Run.base = memory /\ Run.quiet = {}
      /\ Run.at = "queue"
  BY <1>1, <1>3 DEF Begun, NotifierRuns
<1>6. Never # 0 /\ lost \in Nat
  BY <1>3, NeverIsNoDay DEF Never
<1>7. SoundRun(Run, told, extra, lost, date, mailed, since) /\ InTurn(Run)
  BY <1>3, <1>4, <1>5, <1>6, SignedChannels
     DEF SoundRun, Remembered, NoiseIsPaid, NothingIsLost, Silences, InTurn
<1>8. MailIsPaid
  BY <1>3, <1>4, <1>6, SignedChannels DEF MailIsPaid, NotRunning
<1>9. AskedAboutFailingJobs
  BY <1>3 DEF AskedAboutFailingJobs, NoRequest
<1>10. NotAhead /\ Remembered(memory, told) /\ BlindIsPaid
  BY <1>3, <1>4 DEF NotAhead, Remembered, BlindIsPaid, NotRunning
<1> QED
  BY <1>2, <1>7, <1>8, <1>9, <1>10 DEF AlertsIInv

\* A run that begins when more was lost than told twice, or when all is remembered.
FreshRun(m) ==
  [at |-> "queue", copy |-> m, base |-> m, quiet |-> {}, read |-> TRUE]

\* What a run makes of a loss is paid before it begins.
LEMMA FreshRunIsSound ==
  ASSUME NEW m \in Memory, NEW t, NEW x \in [Noises -> Nat], NEW l \in Nat, NEW now,
         NEW mail, NEW from,
         Remembered(m, t), l # 0, \A k \in Channels : x[k] < l
  PROVE  SoundRun(FreshRun(m), t, x, l, now, mail, from) /\ InTurn(FreshRun(m))
<1>1. /\ FreshRun(m) \in NotifierRuns /\ FreshRun(m).copy = m /\ FreshRun(m).base = m
      /\ FreshRun(m).quiet = {} /\ FreshRun(m).at = "queue"
  BY DEF FreshRun, NotifierRuns
<1>2. NoiseIsPaid(FreshRun(m), t, x, l, now)
  BY <1>1, SignedChannels DEF NoiseIsPaid
<1>3. NothingIsLost(FreshRun(m), t, x, l, mail, from) /\ Silences(FreshRun(m), t, l, now)
  BY <1>1 DEF NothingIsLost, Silences
<1> QED
  BY <1>1, <1>2, <1>3 DEF SoundRun, InTurn

\* What one more loss may cost it has paid.
LEMMA PaidForMore ==
  ASSUME NEW n, NEW t, NEW x \in [Noises -> Nat], NEW l \in Nat, NEW more \in Nat, NEW now,
         NEW mail, NEW from,
         more >= l, SoundRun(n, t, x, l, now, mail, from)
  PROVE  SoundRun(n, t, x, more, now, mail, from)
<1>1. more = 0 => l = 0
  OBVIOUS
<1>2. \A j \in Channels : x[j] \in Nat
  BY SignedChannels
<1>3. NoiseIsPaid(n, t, x, more, now)
  BY <1>2, SignedChannels DEF SoundRun, NoiseIsPaid
<1>4. NothingIsLost(n, t, x, more, mail, from) /\ Silences(n, t, more, now)
  BY <1>1 DEF SoundRun, NothingIsLost, Silences
<1> QED
  BY <1>3, <1>4 DEF SoundRun

\* What the channel lemmas need of the state.
LEMMA TypesOfAlerts == AlertsTypeOK /\ NotAhead => ChannelTypes(Run)
BY RunIsRun DEF AlertsTypeOK, NotAhead, ChannelTypes, Banners

\* What a step of the notifier has to show.
LEMMA NotifierKeeps ==
  ASSUME AlertsIInv, UNCHANGED <<date, mailer, unrest, mailed, changes, memory>>,
         told' \in Banners, Later(told, told'), extra' \in [Noises -> Nat],
         extra'["mail"] = extra["mail"],
         \A j \in Channels : told'[j].day # Never => told'[j].day <= date,
         lost' \in Nat, lost' >= lost, mishaps' \in 0 .. MaxMishaps,
         cond' \in [Signed -> Signatures \union {Silent}],
         request' \in [status : {"none", "pending", "approved", "rejected", "expired",
                                 "retired", "done"},
                       day : Days, failing : Days],
         since' \in Days \union {Never}, since' # Never => since' <= date,
         notifier' = NotRunning \/ (notifier' \in NotifierRuns /\ notifier'.at # "queue"),
         SoundRun(Run', told', extra', lost', date, mailed, since'), InTurn(Run'),
         AskedAboutFailingJobs'
  PROVE  AlertsIInv'
<1>1. AlertsTypeOK'
  <2>1. notifier' # NotRunning => notifier' \in NotifierRuns
    OBVIOUS
  <2> QED
    BY <2>1 DEF AlertsIInv, AlertsTypeOK, Banners, NotifierRuns
<1>2. memory \in Memory /\ told \in Banners /\ extra["mail"] \in Nat /\ lost \in Nat
  BY SignedChannels DEF AlertsIInv, AlertsTypeOK, Banners
<1>3. Remembered(memory', told')
  BY <1>2, RememberedStays DEF AlertsIInv
<1>4. MailIsPaid'
  <2>1. mailer # NotRunning => Remembered(mailer.copy, told')
    <3> SUFFICES ASSUME mailer # NotRunning PROVE Remembered(mailer.copy, told')
      OBVIOUS
    <3>1. mailer.copy \in Memory
      BY DEF AlertsIInv, AlertsTypeOK
    <3> QED
      BY <1>2, <3>1, RememberedStays DEF AlertsIInv, MailIsPaid
  <2>2. /\ lost' = 0 => lost = 0
        /\ extra["mail"] < lost => extra'["mail"] < lost'
        /\ extra["mail"] <= lost => extra'["mail"] <= lost'
    BY <1>2
  <2> QED
    BY <2>1, <2>2 DEF AlertsIInv, MailIsPaid
<1>5. NotAhead' /\ BlindIsPaid'
  BY DEF AlertsIInv, NotAhead, BlindIsPaid, NotRunning
<1> QED
  BY <1>1, <1>3, <1>4, <1>5 DEF AlertsIInv

\* A history is no sooner than itself.
LEMMA NoSooner == \A t \in Banners : Later(t, t)
<1> SUFFICES ASSUME NEW t \in Banners, NEW k \in Channels, t[k].day # Never
             PROVE  t[k].day <= t[k].day
  BY DEF Later
<1> QED
  BY NeverIsNoDay DEF Banners

\* A step of one channel.
LEMMA ChannelStep ==
  ASSUME AlertsIInv, NEW k \in Signed, NEW next \in {"lag", "escalate", "save"}, NEW failed,
         k \notin Run.quiet, Channel(Run, k, next, failed),
         UNCHANGED <<cond, memory, request, since, lost>>, OnlyNotifier,
         next = "lag" => Run.quiet = {} /\ k = "queue",
         next = "escalate" => Run.quiet \subseteq {"queue"} /\ k = "fleet",
         \/ failed = NotRunning /\ notifier.at \in {"idle", "queue"}
         \/ failed = [notifier EXCEPT !.at = next] /\ notifier # NotRunning
  PROVE  AlertsIInv'
<1> USE DEF OnlyNotifier
<1>1. /\ ChannelTypes(Run) /\ Run \in NotifierRuns
      /\ SoundRun(Run, told, extra, lost, date, mailed, since)
  BY TypesOfAlerts, RunIsRun DEF AlertsIInv
<1>2. mishaps' \in 0 .. MaxMishaps
  BY AlertsAssumption DEF AlertsIInv, AlertsTypeOK, Channel, Mishap
<1>3. \/ ChannelKept(Run, k, next)
      \/ notifier' = failed /\ told' = told /\ extra' = extra
  BY <1>1, ChannelKeeps
<1>4. /\ told \in Banners /\ extra \in [Noises -> Nat] /\ lost \in Nat
      /\ cond \in [Signed -> Signatures \union {Silent}] /\ memory \in Memory
      /\ request \in [status : {"none", "pending", "approved", "rejected", "expired",
                                "retired", "done"},
                      day : Days, failing : Days]
      /\ since \in Days \union {Never}
      /\ since # Never => since <= date
      /\ \A j \in Channels : told[j].day # Never => told[j].day <= date
  BY DEF AlertsIInv, AlertsTypeOK, Banners, NotAhead
<1>5. AskedAboutFailingJobs'
  BY DEF AlertsIInv, AskedAboutFailingJobs
<1>6. CASE ChannelKept(Run, k, next)
  <2>1. notifier'.at = next /\ notifier' \in NotifierRuns /\ notifier'.at # "queue"
    BY <1>6 DEF ChannelKept, SoundRun
  <2>2. Run' = notifier'
    BY <2>1 DEF Run, NotRunning
  <2>3. InTurn(Run')
    BY <1>6, <2>1, <2>2 DEF ChannelKept, InTurn
  <2> QED
    BY <1>2, <1>4, <1>5, <1>6, <2>1, <2>2, <2>3, NotifierKeeps DEF ChannelKept
<1>7. CASE notifier' = failed /\ told' = told /\ extra' = extra /\ notifier = NotRunning
  <2>1. notifier' = NotRunning /\ Run' = Run
    BY <1>7 DEF Run, Begun, NotRunning
  <2>2. /\ SoundRun(Run', told', extra', lost', date, mailed, since')
        /\ InTurn(Run') /\ lost' >= lost /\ lost' \in Nat
    BY <1>1, <1>4, <1>7, <2>1 DEF AlertsIInv
  <2> QED
    BY <1>2, <1>4, <1>5, <1>7, <2>1, <2>2, NoSooner, NotifierKeeps
<1>8. CASE notifier' = failed /\ told' = told /\ extra' = extra /\ notifier # NotRunning
           /\ failed = [notifier EXCEPT !.at = next]
  <2>1. Run = notifier
    BY <1>8 DEF Run
  <2>2. failed = [Run EXCEPT !.at = next]
    BY <1>8, <2>1
  <2>3. /\ notifier' \in NotifierRuns /\ notifier'.at = next /\ notifier'.copy = Run.copy
        /\ notifier'.base = Run.base /\ notifier'.quiet = Run.quiet
    BY <1>1, <1>8, <2>2 DEF NotifierRuns
  <2>4. Run' = notifier'
    BY <2>3 DEF Run, NotRunning
  <2>5. SoundRun(Run', told', extra', lost', date, mailed, since')
    BY <1>1, <1>8, <2>3, <2>4 DEF SoundRun, NoiseIsPaid, NothingIsLost, Silences
  <2>6. InTurn(Run')
    BY <2>3, <2>4 DEF InTurn
  <2> QED
    BY <1>2, <1>4, <1>5, <1>8, <2>3, <2>5, <2>6, NoSooner, NotifierKeeps
<1>9. CASE notifier' = NotRunning /\ told' = told /\ extra' = extra /\ notifier.at = "queue"
  <2>1. Run' = FreshRun(memory)
    BY <1>9 DEF Run, Begun, FreshRun
  <2>2. lost # 0 /\ \A j \in Channels : extra[j] < lost
    BY <1>9 DEF AlertsIInv, BlindIsPaid
  <2>3. SoundRun(FreshRun(memory), told, extra, lost, date, mailed, since)
        /\ InTurn(FreshRun(memory))
    BY <1>4, <2>2, FreshRunIsSound DEF AlertsIInv
  <2>4. /\ SoundRun(Run', told', extra', lost', date, mailed, since') /\ InTurn(Run')
        /\ lost' >= lost /\ lost' \in Nat
    BY <1>4, <1>9, <2>1, <2>3
  <2> QED
    BY <1>2, <1>4, <1>5, <1>9, <2>4, NoSooner, NotifierKeeps
<1>10. notifier.at \in {"idle", "queue"} => notifier = NotRunning \/ notifier.at = "queue"
  <2>1. notifier # NotRunning => notifier.at # "idle"
    BY <1>4 DEF AlertsIInv, AlertsTypeOK
  <2> QED
    BY <2>1
<1> QED
  BY <1>3, <1>6, <1>7, <1>8, <1>9, <1>10

\* A run that begins is at the queue.
LEMMA FirstOfAll ==
  ASSUME AlertsIInv, notifier.at \in {"idle", "queue"} PROVE Run.at = "queue"
<1>1. notifier # NotRunning => notifier.at # "idle"
  BY DEF AlertsIInv, AlertsTypeOK
<1> QED
  BY <1>1 DEF Run, Begun

\* A run begins with the queue.
LEMMA QueueStep == AlertsIInv /\ NotifyQueue => AlertsIInv'
<1> SUFFICES ASSUME AlertsIInv, NotifyQueue PROVE AlertsIInv'
  OBVIOUS
<1>1. /\ notifier.at \in {"idle", "queue"} /\ Channel(Run, "queue", "lag", NotRunning)
      /\ UNCHANGED <<cond, memory, request, since, lost>> /\ OnlyNotifier
  BY DEF NotifyQueue
<1>2. Run.quiet = {}
  BY <1>1, FirstOfAll DEF AlertsIInv, InTurn
<1>3. "queue" \in Signed
  BY DEF Signed
<1> QED
  BY <1>1, <1>2, <1>3, ChannelStep

\* The turn of the fleet and of the doctor.
LEMMA NotifyChannelStep ==
  ASSUME AlertsIInv, NEW k, NEW next, NotifyChannel(k, next),
         \/ k = "fleet" /\ next = "escalate"
         \/ k = "doctor" /\ next = "save"
  PROVE  AlertsIInv'
<1>1. /\ notifier.at = k /\ Channel(notifier, k, next, [notifier EXCEPT !.at = next])
      /\ UNCHANGED <<cond, memory, request, since, lost>> /\ OnlyNotifier
  BY DEF NotifyChannel
<1>2. notifier # NotRunning /\ Run = notifier
  BY <1>1 DEF Run, NotRunning
<1>3. k \in Signed /\ next \in {"lag", "escalate", "save"} /\ next # "lag"
  BY DEF Signed
<1>4. k \notin Run.quiet /\ (next = "escalate" => Run.quiet \subseteq {"queue"} /\ k = "fleet")
  BY <1>1, <1>2 DEF AlertsIInv, InTurn
<1>5. Channel(Run, k, next, [notifier EXCEPT !.at = next])
  BY <1>1, <1>2
<1> HIDE DEF NotifyChannel
<1> QED
  BY <1>1, <1>2, <1>3, <1>4, <1>5, ChannelStep

\* The row of the queue.
LEMMA RequestTypes == AlertsTypeOK =>
  request \in [status : {"none", "pending", "approved", "rejected", "expired",
                        "retired", "done"},
              day : Days, failing : Days]
BY DEF AlertsTypeOK

\* What cannot be read is one more loss.
LEMMA MoreIsLost ==
  ASSUME AlertsIInv, Unreadable
  PROVE  /\ lost' = lost + 1 /\ lost' \in Nat /\ lost' >= lost /\ lost' # 0
         /\ mishaps' \in 0 .. MaxMishaps
         /\ \A k \in Channels : extra[k] < lost'
         /\ \A k \in Channels : extra[k] \in Nat /\ extra[k] <= lost
<1>1. /\ AlertsTypeOK /\ lost \in Nat /\ extra \in [Noises -> Nat] /\ Mishap
      /\ lost' = lost + 1 /\ NoiseIsPaid(Run, told, extra, lost, date)
  BY DEF AlertsIInv, AlertsTypeOK, Unreadable, SoundRun
<1>2. \A k \in Channels : extra[k] \in Nat /\ extra[k] <= lost
  BY <1>1, SignedChannels DEF NoiseIsPaid
<1>3. mishaps' \in 0 .. MaxMishaps
  BY <1>1, AlertsAssumption DEF AlertsTypeOK, Mishap
<1> QED
  BY <1>1, <1>2, <1>3

\* A run that cannot read the file knows nothing.
LEMMA BlindStep == AlertsIInv /\ NotifyBlind => AlertsIInv'
<1> SUFFICES ASSUME AlertsIInv, NotifyBlind PROVE AlertsIInv'
  OBVIOUS
<1>1. /\ notifier = NotRunning /\ Unreadable
      /\ notifier' = [Begun EXCEPT !.copy = NothingToldYet, !.base = NothingToldYet,
                                  !.read = FALSE]
      /\ UNCHANGED <<cond, memory, request, told, since, extra>>
      /\ UNCHANGED <<date, mailer, unrest, mailed, changes>>
  BY DEF NotifyBlind, OnlyNotifier
<1>2. /\ lost' = lost + 1 /\ lost' \in Nat /\ lost' # 0 /\ mishaps' \in 0 .. MaxMishaps
      /\ \A k \in Channels : extra[k] < lost'
      /\ \A k \in Channels : extra[k] <= lost'
  BY <1>1, MoreIsLost
<1>3. /\ AlertsTypeOK /\ lost \in Nat /\ extra \in [Noises -> Nat] /\ extra["mail"] \in Nat
  BY SignedChannels DEF AlertsIInv, AlertsTypeOK
<1>4. NothingToldYet \in Memory /\ \A k \in Channels : NothingToldYet.at[k] = Never
  BY DEF NothingToldYet, Memory
<1>5. /\ notifier' \in NotifierRuns /\ notifier'.at = "queue"
      /\ notifier'.copy = NothingToldYet /\ notifier'.base = NothingToldYet
      /\ notifier'.quiet = {}
  BY <1>1, <1>3, <1>4 DEF Begun, NotifierRuns, AlertsTypeOK
<1>6. Run' = notifier'
  BY <1>5 DEF Run, NotRunning
<1>7. AlertsTypeOK'
  BY <1>1, <1>2, <1>3, <1>5 DEF AlertsTypeOK, NotifierRuns
<1>8. NoiseIsPaid(notifier', told, extra, lost', date)
  BY <1>2, SignedChannels DEF NoiseIsPaid
<1>9. /\ NothingIsLost(notifier', told, extra, lost', mailed, since)
      /\ Silences(notifier', told, lost', date) /\ Remembered(NothingToldYet, told)
  BY <1>2, <1>4, <1>5 DEF NothingIsLost, Silences, Remembered
<1>10. SoundRun(Run', told', extra', lost', date', mailed', since') /\ InTurn(Run')
  BY <1>1, <1>5, <1>6, <1>8, <1>9 DEF SoundRun, InTurn
<1>11. MailIsPaid'
  BY <1>1, <1>2, <1>3 DEF AlertsIInv, MailIsPaid
<1>12. NotAhead' /\ BlindIsPaid' /\ AskedAboutFailingJobs' /\ Remembered(memory', told')
  BY <1>1, <1>2 DEF AlertsIInv, NotAhead, BlindIsPaid, AskedAboutFailingJobs
<1> QED
  BY <1>7, <1>10, <1>11, <1>12 DEF AlertsIInv

\* A queue that cannot be read is one loss.
LEMMA UnreadStep == AlertsIInv /\ NotifyUnread => AlertsIInv'
<1> SUFFICES ASSUME AlertsIInv, NotifyUnread PROVE AlertsIInv'
  OBVIOUS
<1>1. /\ notifier.at \in {"idle", "queue"} /\ Unreadable
      /\ notifier' = [Run EXCEPT !.at = "lag", !.copy = Cleared(Run.copy, "queue")]
      /\ UNCHANGED <<cond, memory, request, told, since, extra>>
      /\ UNCHANGED <<date, mailer, unrest, mailed, changes>>
  BY DEF NotifyUnread, OnlyNotifier
<1>2. /\ told \in Banners /\ extra \in [Noises -> Nat] /\ lost \in Nat /\ memory \in Memory
      /\ cond \in [Signed -> Signatures \union {Silent}]
      /\ since \in Days \union {Never} /\ (since # Never => since <= date)
      /\ \A j \in Channels : told[j].day # Never => told[j].day <= date
      /\ AlertsTypeOK
  BY DEF AlertsIInv, AlertsTypeOK, Banners, NotAhead
<1>3. /\ lost' \in Nat /\ lost' >= lost /\ lost' # 0 /\ mishaps' \in 0 .. MaxMishaps
      /\ \A k \in Channels : extra[k] < lost'
      /\ \A k \in Channels : extra[k] <= lost'
  BY <1>1, MoreIsLost
<1>4. /\ Run \in NotifierRuns /\ Run.copy \in Memory /\ Run.quiet = {}
      /\ SoundRun(Run, told, extra, lost, date, mailed, since)
  BY <1>1, <1>2, RunIsRun, FirstOfAll DEF AlertsIInv, InTurn, NotifierRuns
<1> DEFINE c == Cleared(Run.copy, "queue")
<1>5. /\ c \in Memory /\ c.email = Run.copy.email /\ c.at = Run.copy.at
  <2>1. "queue" \in Signed
    BY DEF Signed
  <2> QED
    BY <1>4, <2>1, ClearedIs
<1> HIDE DEF c
<1>6. /\ notifier' \in NotifierRuns /\ notifier'.at = "lag" /\ notifier'.copy = c
      /\ notifier'.base = Run.base /\ notifier'.quiet = {}
  BY <1>1, <1>5, <1>4 DEF NotifierRuns, c
<1>7. Run' = notifier'
  BY <1>6 DEF Run, NotRunning
<1>8. NoiseIsPaid(notifier', told, extra, lost', date)
  BY <1>3, SignedChannels DEF NoiseIsPaid
<1>9. /\ NothingIsLost(notifier', told, extra, lost', mailed, since)
      /\ Silences(notifier', told, lost', date)
  BY <1>3, <1>6 DEF NothingIsLost, Silences
<1>10. Remembered(c, told)
  BY <1>5, <1>4 DEF SoundRun, Remembered
<1>11. SoundRun(Run', told', extra', lost', date, mailed, since') /\ InTurn(Run')
  BY <1>1, <1>5, <1>6, <1>7, <1>8, <1>9, <1>10, <1>4 DEF SoundRun, InTurn
<1>12. AskedAboutFailingJobs'
  BY <1>3 DEF AskedAboutFailingJobs
<1> QED
  BY <1>3, <1>1, <1>2, <1>6, <1>11, <1>12, RequestTypes, NoSooner, NotifierKeeps

\* An alarm is false when a digest went out that the run has not heard of.
LEMMA LagStep == AlertsIInv /\ NotifyLag => AlertsIInv'
<1> SUFFICES ASSUME AlertsIInv, NotifyLag PROVE AlertsIInv'
  OBVIOUS
<1>1. /\ notifier.at = "lag"
      /\ UNCHANGED <<cond, memory, request, since, lost>>
      /\ UNCHANGED <<date, mailer, unrest, mailed, changes>>
  BY DEF NotifyLag, OnlyNotifier
<1>2. notifier # NotRunning /\ Run = notifier
  BY <1>1 DEF Run, NotRunning
<1>3. /\ told \in Banners /\ extra \in [Noises -> Nat] /\ lost \in Nat /\ memory \in Memory
      /\ cond \in [Signed -> Signatures \union {Silent}] /\ date \in Days
      /\ since \in Days \union {Never} /\ (since # Never => since <= date)
      /\ mailed \in Days \union {Never}
      /\ \A j \in Channels : told[j].day # Never => told[j].day <= date
      /\ AlertsTypeOK
  BY DEF AlertsIInv, AlertsTypeOK, Banners, NotAhead
<1>4. mishaps' \in 0 .. MaxMishaps
  BY AlertsAssumption DEF AlertsIInv, AlertsTypeOK, NotifyLag, Mishap
<1>5. /\ SoundRun(notifier, told, extra, lost, date, mailed, since) /\ InTurn(notifier)
      /\ notifier \in NotifierRuns
  BY <1>2, RunIsRun DEF AlertsIInv
<1>6. AskedAboutFailingJobs'
  BY <1>1 DEF AlertsIInv, AskedAboutFailingJobs
<1>7. lost' \in Nat /\ lost' >= lost
  BY <1>1, <1>3
<1>8. CASE notifier' = [notifier EXCEPT !.at = "fleet"] /\ UNCHANGED <<told, extra>>
  <2>1. /\ notifier' \in NotifierRuns /\ notifier'.at = "fleet" /\ notifier'.copy = notifier.copy
        /\ notifier'.base = notifier.base /\ notifier'.quiet = notifier.quiet
    BY <1>5, <1>8 DEF NotifierRuns
  <2>2. Run' = notifier'
    BY <2>1 DEF Run, NotRunning
  <2>3. SoundRun(Run', told', extra', lost', date, mailed, since')
    BY <1>1, <1>5, <1>8, <2>1, <2>2 DEF SoundRun, NoiseIsPaid, NothingIsLost, Silences
  <2>4. InTurn(Run')
    BY <1>1, <1>5, <2>1, <2>2 DEF InTurn
  <2> QED
    BY <1>1, <1>3, <1>4, <1>6, <1>7, <1>8, <2>1, <2>3, <2>4, RequestTypes, NoSooner,
       NotifierKeeps
<1>9. CASE /\ DigestLags(notifier)
           /\ notifier' = [notifier EXCEPT !.at = "fleet", !.copy.at["lag"] = date]
           /\ Tells("lag", Silent)
           /\ extra' = [Needless("lag", told["lag"].day = date) EXCEPT
                !["alarm"] = @ + IF date <= mailed + EmailLag THEN 1 ELSE 0]
  <2> DEFINE a == [notifier.copy.at EXCEPT !["lag"] = date]
             c == [notifier.copy EXCEPT !.at = a]
             x == Needless("lag", told["lag"].day = date)
  <2>1. /\ a \in [Channels -> Days \union {Never}] /\ a["lag"] = date
        /\ \A j \in Channels : j # "lag" => a[j] = notifier.copy.at[j]
    BY <1>3, <1>5, SignedChannels DEF NotifierRuns, Memory
  <2> HIDE DEF a
  <2>2. /\ c \in Memory /\ c.at = a /\ c.sig = notifier.copy.sig
        /\ c.seen = notifier.copy.seen /\ c.email = notifier.copy.email
    BY <1>5, <2>1 DEF NotifierRuns, Memory
  <2>3. notifier' = [notifier EXCEPT !.at = "fleet", !.copy = c]
    BY <1>9 DEF a
  <2> HIDE DEF c
  <2>4. /\ notifier' \in NotifierRuns /\ notifier'.at = "fleet" /\ notifier'.copy = c
        /\ notifier'.base = notifier.base /\ notifier'.quiet = notifier.quiet
    BY <1>5, <2>2, <2>3 DEF NotifierRuns
  <2>5. Run' = notifier'
    BY <2>4 DEF Run, NotRunning
  <2>6. /\ told' \in Banners
        /\ told'["lag"].sig = Silent /\ told'["lag"].day = date
        /\ \A j \in Channels : j # "lag" => told'[j] = told[j]
        /\ Later(told, told')
    BY <1>3, <1>9, TellsOne, SignedChannels
  <2>7. /\ x \in [Noises -> Nat]
        /\ x["lag"] = IF told["lag"].day = date THEN extra["lag"] + 1 ELSE extra["lag"]
        /\ \A j \in Noises : j # "lag" => x[j] = extra[j]
    <3> DEFINE twice == told["lag"].day = date
    <3>1. twice \in BOOLEAN /\ "lag" \in Noises
      BY SignedChannels
    <3>2. x = Needless("lag", twice)
      OBVIOUS
    <3> HIDE DEF twice, x
    <3>3. /\ x \in [Noises -> Nat]
          /\ x["lag"] = IF twice THEN extra["lag"] + 1 ELSE extra["lag"]
          /\ \A j \in Noises : j # "lag" => x[j] = extra[j]
      BY <1>3, <3>1, <3>2, CountsOne
    <3> QED
      BY <3>3 DEF twice
  <2> HIDE DEF x
  <2>8. /\ extra' \in [Noises -> Nat]
        /\ \A j \in Noises : j # "alarm" => extra'[j] = x[j]
        /\ extra'["alarm"] = x["alarm"] + IF date <= mailed + EmailLag THEN 1 ELSE 0
    BY <1>9, <2>7, SignedChannels DEF x
  <2>9. /\ notifier.copy.email # Never /\ date > notifier.copy.email + EmailLag
        /\ notifier.copy.at["lag"] = Never \/ date > notifier.copy.at["lag"]
    BY <1>9 DEF DigestLags, ReminderDue
  <2>10. told["lag"].day = date => extra["lag"] < lost
    <3>1. date # Never /\ ~(date > date)
      BY <1>3, NeverIsNoDay
    <3> QED
      BY <1>5, <2>9, <3>1 DEF SoundRun, NoiseIsPaid
  <2>11. Remembered(c, told')
    <3> SUFFICES ASSUME NEW j \in Channels, c.at[j] # Never
                 PROVE  told'[j].day # Never /\ c.at[j] <= told'[j].day
      BY DEF Remembered
    <3>1. CASE j = "lag"
      BY <1>3, <2>1, <2>2, <2>6, <3>1, NeverIsNoDay
    <3>2. CASE j # "lag"
      BY <1>5, <2>1, <2>2, <2>6, <3>2 DEF SoundRun, Remembered
    <3> QED
      BY <3>1, <3>2
  <2>12. NoiseIsPaid(notifier', told', extra', lost, date)
    <3>1. \A j \in Channels : extra'[j] <= lost
      <4> SUFFICES ASSUME NEW j \in Channels PROVE extra'[j] <= lost
        OBVIOUS
      <4>1. extra[j] \in Nat /\ extra[j] <= lost
        BY <1>3, <1>5, SignedChannels DEF SoundRun, NoiseIsPaid
      <4> QED
        BY <1>3, <2>7, <2>8, <2>10, <4>1, SignedChannels
    <3>2. ASSUME NEW j \in Signed, told'[j].sig # Silent, told'[j].day = date
          PROVE  extra'[j] < lost \/ (c.sig[j] = told'[j].sig /\ c.at[j] = date)
      BY <1>5, <2>1, <2>2, <2>6, <2>7, <2>8, <3>2, SignedChannels DEF SoundRun, NoiseIsPaid
    <3> QED
      BY <2>1, <2>2, <2>4, <3>1, <3>2 DEF NoiseIsPaid
  <2>13. NothingIsLost(notifier', told', extra', lost, mailed, since)
    <3> SUFFICES ASSUME lost = 0 PROVE NothingIsLost(notifier', told', extra', lost, mailed, since)
      BY DEF NothingIsLost
    <3>1. /\ notifier.copy.email = notifier.base.email
          /\ mailed # Never /\ notifier.base.email <= mailed
      BY <1>5, <2>9 DEF SoundRun, NothingIsLost
    <3>2. notifier.base.email \in Nat /\ mailed \in Nat /\ date \in Nat /\ EmailLag \in Nat
      BY <1>3, <1>5, NeverIsNoDay, AlertsAssumption DEF NotifierRuns, Memory
    <3>3. extra["alarm"] > 0 => notifier.base.email < mailed
      BY <1>5 DEF SoundRun, NothingIsLost
    <3>4. extra["alarm"] \in Nat /\ x["alarm"] = extra["alarm"]
      BY <1>3, <2>7, SignedChannels
    <3>5. extra'["alarm"] > 0 => notifier.base.email < mailed
      BY <2>8, <2>9, <3>1, <3>2, <3>3, <3>4
    <3>6. \A j \in Signed : c.sig[j] # Silent => told'[j].sig # Silent
      BY <1>5, <2>2, <2>6, SignedChannels DEF SoundRun, NothingIsLost
    <3> QED
      BY <1>5, <2>2, <2>4, <2>9, <3>1, <3>5, <3>6 DEF SoundRun, NothingIsLost
  <2>14. Silences(notifier', told', lost, date)
    <3>1. notifier.quiet \subseteq Signed
      BY <1>5 DEF NotifierRuns
    <3> QED
      BY <1>5, <2>4, <2>6, <3>1, SignedChannels DEF SoundRun, Silences
  <2>15. SoundRun(Run', told', extra', lost', date, mailed, since')
    BY <1>1, <1>5, <2>2, <2>4, <2>5, <2>11, <2>12, <2>13, <2>14 DEF SoundRun
  <2>16. InTurn(Run')
    BY <1>1, <1>5, <2>4, <2>5 DEF InTurn
  <2>17. extra'["mail"] = extra["mail"]
    BY <2>7, <2>8, SignedChannels
  <2>18. \A j \in Channels : told'[j].day # Never => told'[j].day <= date
    BY <1>3, <2>6, NeverIsNoDay
  <2> QED
    BY <1>1, <1>3, <1>4, <1>6, <1>7, <2>4, <2>6, <2>8, <2>15, <2>16, <2>17, <2>18,
       RequestTypes, NotifierKeeps
<1> QED
  BY <1>8, <1>9 DEF NotifyLag

\* What a sweep does to the question about the job.
LEMMA SweepKeeps ==
  ASSUME AlertsTypeOK, SweepRequest
  PROVE  /\ request' \in [status : {"none", "pending", "approved", "rejected", "expired",
                                     "retired", "done"},
                           day : Days, failing : Days]
         /\ request'.failing = request.failing
         /\ request.status = "none" => request'.status = "none"
         /\ cond' \in [Signed -> Signatures \union {Silent}]
         /\ mishaps' \in 0 .. MaxMishaps
<1>1. /\ date \in Days /\ mishaps \in 0 .. MaxMishaps
      /\ cond \in [Signed -> Signatures \union {Silent}]
  BY DEF AlertsTypeOK
<1>2. mishaps < MaxMishaps => mishaps + 1 \in 0 .. MaxMishaps
  BY <1>1, AlertsAssumption
<1>3. ASSUME NEW status \in {"done", "retired", "expired"},
             request' = [request EXCEPT !.status = status, !.day = date]
      PROVE  /\ request' \in [status : {"none", "pending", "approved", "rejected", "expired",
                                     "retired", "done"},
                               day : Days, failing : Days]
             /\ request'.failing = request.failing /\ request'.status # "none"
  BY <1>1, <1>3, RequestTypes
<1>4. ASSUME NEW status \in {"done", "retired"}, Disables(status), request.status # "none"
      PROVE  /\ request' \in [status : {"none", "pending", "approved", "rejected", "expired",
                                     "retired", "done"},
                               day : Days, failing : Days]
             /\ request'.failing = request.failing
             /\ cond' \in [Signed -> Signatures \union {Silent}]
             /\ mishaps' \in 0 .. MaxMishaps
  <2>1. CASE /\ request' = [request EXCEPT !.status = status, !.day = date]
             /\ cond' = [cond EXCEPT !["fleet"] = Silent] /\ UNCHANGED mishaps
    BY <1>1, <1>3, <2>1
  <2>2. CASE Mishap /\ UNCHANGED <<request, cond>>
    BY <1>1, <1>2, <2>2, RequestTypes DEF Mishap
  <2> QED
    BY <1>4, <2>1, <2>2 DEF Disables
<1>5. CASE request.status = "approved" /\ Disables("done")
  BY <1>4, <1>5
<1>6. CASE Overdue /\ Disables("retired")
  <2>1. request.status # "none"
    BY <1>6 DEF Overdue
  <2> QED
    BY <1>4, <1>6, <2>1
<1>7. CASE /\ Overdue
           /\ request' = [request EXCEPT !.status = "expired", !.day = date]
           /\ UNCHANGED <<cond, mishaps>>
  <2>1. request.status # "none"
    BY <1>7 DEF Overdue
  <2> QED
    BY <1>1, <1>3, <1>7, <2>1
<1>8. CASE UNCHANGED <<request, cond, mishaps>>
  BY <1>1, <1>8, RequestTypes
<1> QED
  BY <1>5, <1>6, <1>7, <1>8 DEF SweepRequest

\* How long something has lasted.
LEMMA LongEnough ==
  ASSUME NEW d \in Days, NEW s \in Days, s <= d
  PROVE  d - s \in Days /\ \A l \in Nat : d >= s + l => d - s >= l
<1>1. d \in Nat /\ s \in Nat /\ d <= LastDate /\ LastDate \in Nat
  BY AlertsAssumption DEF Days
<1>2. d - s \in Nat /\ d - s <= LastDate /\ \A l \in Nat : d >= s + l => d - s >= l
  BY <1>1
<1> QED
  BY <1>1, <1>2 DEF Days

\* Until a save is lost the run dates the job's failing as every probe did.
LEMMA EscalatesStep == AlertsIInv /\ NotifyEscalates => AlertsIInv'
<1> SUFFICES ASSUME AlertsIInv, NotifyEscalates PROVE AlertsIInv'
  OBVIOUS
<1> DEFINE seen == FirstSeen(notifier.copy.seen)
<1>1. /\ notifier.at = "escalate"
      /\ UNCHANGED <<memory, told, extra, lost>>
      /\ UNCHANGED <<date, mailer, unrest, mailed, changes>>
  BY DEF NotifyEscalates, OnlyNotifier
<1>2. notifier # NotRunning /\ Run = notifier
  BY <1>1 DEF Run, NotRunning
<1>3. /\ told \in Banners /\ extra \in [Noises -> Nat] /\ lost \in Nat /\ memory \in Memory
      /\ cond \in [Signed -> Signatures \union {Silent}] /\ date \in Days
      /\ since \in Days \union {Never} /\ (since # Never => since <= date)
      /\ \A j \in Channels : told[j].day # Never => told[j].day <= date
      /\ mishaps \in 0 .. MaxMishaps /\ AlertsTypeOK
  BY DEF AlertsIInv, AlertsTypeOK, Banners, NotAhead
<1>4. /\ SoundRun(notifier, told, extra, lost, date, mailed, since) /\ InTurn(notifier)
      /\ notifier \in NotifierRuns /\ AskedAboutFailingJobs
  BY <1>2, RunIsRun DEF AlertsIInv
<1>5. lost' \in Nat /\ lost' >= lost
  BY <1>1, <1>3
<1>6. CASE /\ notifier' = [notifier EXCEPT !.at = "doctor"] /\ UNCHANGED since
           /\ SweepRequest \/ (Mishap /\ UNCHANGED <<request, cond>>)
  <2>1. /\ notifier' \in NotifierRuns /\ notifier'.at = "doctor" /\ notifier'.copy = notifier.copy
        /\ notifier'.base = notifier.base /\ notifier'.quiet = notifier.quiet
    BY <1>4, <1>6 DEF NotifierRuns
  <2>2. Run' = notifier'
    BY <2>1 DEF Run, NotRunning
  <2>3. SoundRun(Run', told', extra', lost', date, mailed, since')
    BY <1>1, <1>4, <1>6, <2>1, <2>2 DEF SoundRun, NoiseIsPaid, NothingIsLost, Silences
  <2>4. InTurn(Run')
    BY <1>1, <1>4, <2>1, <2>2 DEF InTurn
  <2>5. /\ request' \in [status : {"none", "pending", "approved", "rejected", "expired",
                                   "retired", "done"},
                         day : Days, failing : Days]
        /\ request'.failing = request.failing
        /\ request.status = "none" => request'.status = "none"
        /\ cond' \in [Signed -> Signatures \union {Silent}]
        /\ mishaps' \in 0 .. MaxMishaps
    <3>1. CASE SweepRequest
      BY <1>3, <3>1, SweepKeeps
    <3>2. CASE Mishap /\ UNCHANGED <<request, cond>>
      BY <1>3, <3>2, RequestTypes, AlertsAssumption DEF Mishap
    <3> QED
      BY <1>6, <3>1, <3>2
  <2>6. AskedAboutFailingJobs'
    BY <1>1, <1>4, <2>5 DEF AskedAboutFailingJobs
  <2>7. since' \in Days \union {Never} /\ (since' # Never => since' <= date)
    BY <1>3, <1>6
  <2> QED
    BY <1>1, <1>3, <1>5, <2>1, <2>3, <2>4, <2>5, <2>6, <2>7, NoSooner, NotifierKeeps
<1>7. CASE /\ notifier' = [notifier EXCEPT !.at = "doctor", !.copy.seen = seen]
           /\ since' = ProbedFailingSince
           /\ IF Raises(seen)
              THEN /\ request' = [status |-> "pending", day |-> date,
                                  failing |-> date - since']
                   /\ UNCHANGED <<cond, mishaps>>
              ELSE SweepRequest
  <2> DEFINE c == [notifier.copy EXCEPT !.seen = seen]
  <2>1. notifier.copy \in Memory
    BY <1>4 DEF NotifierRuns
  <2>2. seen \in Days \union {Never}
    BY <1>3, <2>1 DEF FirstSeen, Memory
  <2>3. /\ c \in Memory /\ c.at = notifier.copy.at /\ c.sig = notifier.copy.sig
        /\ c.seen = seen /\ c.email = notifier.copy.email
    BY <2>1, <2>2 DEF Memory
  <2>4. notifier' = [notifier EXCEPT !.at = "doctor", !.copy = c]
    BY <1>7
  <2> HIDE DEF c
  <2>5. /\ notifier' \in NotifierRuns /\ notifier'.at = "doctor" /\ notifier'.copy = c
        /\ notifier'.base = notifier.base /\ notifier'.quiet = notifier.quiet
    BY <1>4, <2>3, <2>4 DEF NotifierRuns
  <2>6. Run' = notifier'
    BY <2>5 DEF Run, NotRunning
  <2>7. /\ since' \in Days \union {Never} /\ (since' # Never => since' <= date)
        /\ Failing => since' \in Days
    <3>1. date <= date
      BY <1>3, NeverIsNoDay
    <3> QED
      BY <1>3, <1>7, <3>1, NeverIsNoDay DEF ProbedFailingSince
  <2>8. lost = 0 => seen = since'
    <3>1. lost = 0 => notifier.copy.seen = since
      BY <1>4 DEF SoundRun, NothingIsLost
    <3> QED
      BY <1>7, <3>1 DEF FirstSeen, ProbedFailingSince
  <2> HIDE DEF seen
  <2>9. NothingIsLost(notifier', told', extra', lost, mailed, since')
    BY <1>1, <1>4, <2>3, <2>5, <2>8 DEF SoundRun, NothingIsLost
  <2>10. SoundRun(Run', told', extra', lost', date, mailed, since')
    BY <1>1, <1>4, <2>3, <2>5, <2>6, <2>9 DEF SoundRun, Remembered, NoiseIsPaid, Silences
  <2>11. InTurn(Run')
    BY <1>1, <1>4, <2>5, <2>6 DEF InTurn
  <2>12. /\ request' \in [status : {"none", "pending", "approved", "rejected", "expired",
                                    "retired", "done"},
                          day : Days, failing : Days]
         /\ cond' \in [Signed -> Signatures \union {Silent}]
         /\ mishaps' \in 0 .. MaxMishaps /\ AskedAboutFailingJobs'
    <3>1. CASE Raises(seen)
      <4>1. Failing /\ date >= seen + HitlDay
        BY <3>1 DEF Raises
      <4>2. since' \in Nat /\ since' <= date /\ date \in Nat /\ date <= LastDate
        BY <1>3, <2>7, <4>1, NeverIsNoDay DEF Days
      <4>3. date - since' \in Days
        BY <1>3, <2>7, <4>1, <4>2, LongEnough
      <4>4. /\ request' = [status |-> "pending", day |-> date, failing |-> date - since']
            /\ UNCHANGED <<cond, mishaps>>
        BY <1>7, <3>1
      <4>5. lost = 0 => date - since' >= HitlDay
        BY <1>3, <2>7, <2>8, <4>1, <4>2, LongEnough, AlertsAssumption
      <4> QED
        BY <1>1, <1>3, <4>3, <4>4, <4>5 DEF AskedAboutFailingJobs
    <3>2. CASE ~Raises(seen)
      <4>1. SweepRequest
        BY <1>7, <3>2
      <4> QED
        BY <1>1, <1>3, <1>4, <4>1, SweepKeeps DEF AskedAboutFailingJobs
    <3> QED
      BY <3>1, <3>2
  <2> QED
    BY <1>1, <1>3, <1>5, <2>5, <2>7, <2>10, <2>11, <2>12, NoSooner, NotifierKeeps
<1> QED
  BY <1>6, <1>7 DEF NotifyEscalates

\* A run that ends with a loss, whatever it leaves in the file.
LEMMA LostSave ==
  ASSUME AlertsIInv, memory' \in Memory, Remembered(memory', told), lost' = lost + 1,
         notifier' = NotRunning, mishaps' \in 0 .. MaxMishaps,
         UNCHANGED <<cond, request, told, since, extra, date, mailer, unrest, mailed, changes>>
  PROVE  AlertsIInv'
<1>1. AlertsTypeOK'
  <2>1. lost \in Nat
    BY DEF AlertsIInv, AlertsTypeOK
  <2> QED
    BY <2>1 DEF AlertsIInv, AlertsTypeOK
<1>2. lost \in Nat /\ extra \in [Noises -> Nat] /\ extra["mail"] \in Nat
  BY SignedChannels DEF AlertsIInv, AlertsTypeOK
<1>3. NotAhead' /\ BlindIsPaid'
  BY DEF AlertsIInv, NotAhead, BlindIsPaid, NotRunning
<1>4. MailIsPaid'
  BY <1>2 DEF AlertsIInv, MailIsPaid
<1>5. Run' = FreshRun(memory')
  BY DEF Run, Begun, FreshRun
<1>6. SoundRun(Run', told', extra', lost', date', mailed', since') /\ InTurn(Run')
  <2>1. \A k \in Channels : extra[k] \in Nat /\ extra[k] <= lost
    BY <1>2, SignedChannels DEF AlertsIInv, SoundRun, NoiseIsPaid
  <2>2. lost' \in Nat /\ lost' # 0 /\ \A k \in Channels : extra[k] < lost'
    BY <1>2, <2>1
  <2>3. SoundRun(FreshRun(memory'), told, extra, lost', date, mailed, since)
        /\ InTurn(FreshRun(memory'))
    BY <1>2, <2>2, FreshRunIsSound
  <2> QED
    BY <1>5, <2>3
<1>7. AskedAboutFailingJobs'
  BY <1>2 DEF AskedAboutFailingJobs
<1> QED
  BY <1>1, <1>3, <1>4, <1>6, <1>7 DEF AlertsIInv

\* A mishap among those that are allowed.
LEMMA MishapIsAllowed == AlertsTypeOK /\ Mishap => mishaps' \in 0 .. MaxMishaps
BY AlertsAssumption DEF AlertsTypeOK, Mishap

\* A save that takes nothing back leaves what the run knew; any other is lost.
LEMMA SavesStep == AlertsIInv /\ NotifySaves => AlertsIInv'
<1> SUFFICES ASSUME AlertsIInv, NotifySaves PROVE AlertsIInv'
  OBVIOUS
<1>1. /\ notifier.at = "save" /\ notifier' = NotRunning
      /\ UNCHANGED <<cond, request, told, since, extra, date, mailer, unrest, mailed, changes>>
  BY DEF NotifySaves, OnlyNotifier
<1>2. notifier # NotRunning /\ Run = notifier
  BY <1>1 DEF Run, NotRunning
<1>3. /\ told \in Banners /\ extra \in [Noises -> Nat] /\ lost \in Nat /\ memory \in Memory
      /\ mishaps \in 0 .. MaxMishaps /\ AlertsTypeOK /\ Remembered(memory, told)
      /\ mailed \in Days \union {Never}
  BY DEF AlertsIInv, AlertsTypeOK, Banners
<1>4. /\ SoundRun(notifier, told, extra, lost, date, mailed, since)
      /\ notifier \in NotifierRuns /\ notifier.copy \in Memory /\ notifier.base \in Memory
  BY <1>2, RunIsRun DEF AlertsIInv, NotifierRuns
<1>5. CASE SaveFails
  BY <1>1, <1>3, <1>5, LostSave, MishapIsAllowed DEF SaveFails
<1>6. CASE memory' = notifier.copy /\ memory # notifier.base /\ lost' = lost + 1
           /\ UNCHANGED mishaps
  BY <1>1, <1>3, <1>4, <1>6, LostSave DEF SoundRun
<1>7. CASE memory' = notifier.copy /\ memory = notifier.base /\ lost' = lost
           /\ UNCHANGED mishaps
  <2>1. memory'.email = memory.email
    BY <1>4, <1>7 DEF SoundRun
  <2>2. AlertsTypeOK'
    BY <1>1, <1>4, <1>7 DEF AlertsIInv, AlertsTypeOK
  <2>3. NotAhead' /\ BlindIsPaid' /\ AskedAboutFailingJobs'
    BY <1>1, <1>7 DEF AlertsIInv, NotAhead, BlindIsPaid, AskedAboutFailingJobs, NotRunning
  <2>4. MailIsPaid'
    BY <1>1, <1>7, <2>1 DEF AlertsIInv, MailIsPaid
  <2>5. Run' = FreshRun(memory')
    BY <1>1 DEF Run, Begun, FreshRun
  <2>6. /\ FreshRun(memory') \in NotifierRuns /\ FreshRun(memory').copy = notifier.copy
        /\ FreshRun(memory').base = notifier.copy /\ FreshRun(memory').quiet = {}
        /\ FreshRun(memory').at = "queue"
    BY <1>4, <1>7 DEF FreshRun, NotifierRuns
  <2>7. notifier.copy.email = notifier.base.email
    BY <1>4 DEF SoundRun
  <2>8. SoundRun(Run', told', extra', lost', date', mailed', since')
    BY <1>1, <1>4, <1>7, <2>5, <2>6, <2>7
       DEF SoundRun, NoiseIsPaid, NothingIsLost, Silences
  <2>9. InTurn(Run')
    BY <2>5, <2>6 DEF InTurn
  <2>10. Remembered(memory', told')
    BY <1>1, <1>4, <1>7 DEF SoundRun
  <2> QED
    BY <2>2, <2>3, <2>4, <2>8, <2>9, <2>10 DEF AlertsIInv
<1>8. CASE SavesNothing
  BY <1>1, <1>3, <1>8, LostSave DEF SavesNothing
<1>9. Saves(notifier.copy, notifier.base) =>
        /\ memory' = notifier.copy
        /\ \/ memory = notifier.base /\ lost' = lost
           \/ memory # notifier.base /\ lost' = lost + 1
  BY <1>3 DEF Saves
<1> QED
  BY <1>5, <1>6, <1>7, <1>8, <1>9 DEF NotifySaves

\* A death is a loss.
LEMMA NotifierDiesStep == AlertsIInv /\ NotifierDies => AlertsIInv'
<1> SUFFICES ASSUME AlertsIInv, NotifierDies PROVE AlertsIInv'
  OBVIOUS
<1>1. /\ notifier' = NotRunning /\ Mishap /\ lost' = lost + 1 /\ memory' = memory
      /\ UNCHANGED <<cond, request, told, since, extra, date, mailer, unrest, mailed, changes>>
  BY DEF NotifierDies, SaveFails, OnlyNotifier
<1>2. memory \in Memory /\ Remembered(memory, told) /\ AlertsTypeOK
  BY DEF AlertsIInv, AlertsTypeOK
<1> QED
  BY <1>1, <1>2, LostSave, MishapIsAllowed

\* What a step of the world leaves alone.
LEMMA WorldKeeps ==
  ASSUME AlertsIInv, OnlyWorld, date' = date, changes' \in 0 .. MaxChanges,
         cond' \in [Signed -> Signatures \union {Silent}],
         request' \in [status : {"none", "pending", "approved", "rejected", "expired",
                                 "retired", "done"},
                       day : Days, failing : Days],
         request'.failing = request.failing,
         request.status = "none" => request'.status = "none"
  PROVE  AlertsIInv'
<1> USE DEF OnlyWorld, heard
<1>1. AlertsTypeOK'
  BY DEF AlertsIInv, AlertsTypeOK
<1>2. NotAhead' /\ BlindIsPaid' /\ AskedAboutFailingJobs'
  BY DEF AlertsIInv, NotAhead, BlindIsPaid, AskedAboutFailingJobs
<1>3. MailIsPaid'
  BY DEF AlertsIInv, MailIsPaid
<1>4. Run' = Run
  BY DEF Run, Begun
<1> QED
  BY <1>1, <1>2, <1>3, <1>4 DEF AlertsIInv

\* What there is to tell may change.
LEMMA ChangeStep == ASSUME AlertsIInv, NEW k \in Signed, Changes(k) PROVE AlertsIInv'
<1>1. cond \in [Signed -> Signatures \union {Silent}] /\ changes \in 0 .. MaxChanges
  BY DEF AlertsIInv, AlertsTypeOK
<1>2. cond' \in [Signed -> Signatures \union {Silent}]
  BY <1>1 DEF Changes
<1>3. changes' \in 0 .. MaxChanges
  BY <1>1, AlertsAssumption DEF Changes
<1>4. date' = date /\ request' = request /\ OnlyWorld
  BY DEF Changes
<1>5. AlertsTypeOK
  BY DEF AlertsIInv
<1> QED
  BY <1>2, <1>3, <1>4, <1>5, WorldKeeps, RequestTypes

\* The human decides on a row that is there.
LEMMA HumanStep == AlertsIInv /\ HumanDecides => AlertsIInv'
<1> SUFFICES ASSUME AlertsIInv, HumanDecides PROVE AlertsIInv'
  OBVIOUS
<1>1. /\ request.status = "pending" /\ OnlyWorld /\ UNCHANGED <<date, cond, changes>>
  BY DEF HumanDecides
<1>2. AlertsTypeOK /\ cond \in [Signed -> Signatures \union {Silent}]
      /\ changes \in 0 .. MaxChanges /\ date \in Days
  BY DEF AlertsIInv, AlertsTypeOK
<1>3. PICK status \in {"approved", "rejected"} :
        request' = [request EXCEPT !.status = status, !.day = date]
  BY DEF HumanDecides
<1>4. /\ request' \in [status : {"none", "pending", "approved", "rejected", "expired",
                                 "retired", "done"},
                       day : Days, failing : Days]
      /\ request'.failing = request.failing
  BY <1>2, <1>3, RequestTypes
<1> QED
  BY <1>1, <1>2, <1>4, WorldKeeps

\* Nothing happened yet on a new day.
LEMMA DateStep == AlertsIInv /\ DatePasses => AlertsIInv'
<1> SUFFICES ASSUME AlertsIInv, DatePasses PROVE AlertsIInv'
  OBVIOUS
<1>1. /\ notifier = NotRunning /\ date < LastDate /\ date' = date + 1
      /\ UNCHANGED <<cond, request, changes, memory, notifier, mailer, unrest, told, mailed,
                     since, extra, lost, mishaps>>
  BY DEF DatePasses, OnlyWorld, heard
<1>2. /\ told \in Banners /\ date \in Days /\ mailed \in Days \union {Never}
      /\ since \in Days \union {Never} /\ AlertsTypeOK /\ NotAhead
  BY DEF AlertsIInv, AlertsTypeOK, Banners
<1>3. date \in Nat /\ date' \in Days /\ date' \in Nat
  BY <1>1, <1>2, AlertsAssumption DEF Days
<1>4. \A d \in Days \union {Never} : (d # Never => d <= date) =>
        d # date' /\ (d # Never => d <= date')
  BY <1>1, <1>2, <1>3, NeverIsNoDay
<1>5. AlertsTypeOK'
  BY <1>1, <1>2, <1>3 DEF AlertsTypeOK
<1>6. \A k \in Channels : told[k].day \in Days \union {Never} /\ told[k].day # date'
  BY <1>2, <1>4 DEF NotAhead, Banners
<1>7. NotAhead'
  BY <1>1, <1>2, <1>4, <1>6 DEF NotAhead
<1>8. mailed # date'
  BY <1>2, <1>4 DEF NotAhead
<1>9. MailIsPaid'
  <2>1. mailer # NotRunning => mailer.today <= date'
    <3>1. mailer # NotRunning => mailer.today \in Days /\ mailer.today <= date
      BY <1>2 DEF AlertsIInv, MailIsPaid, AlertsTypeOK
    <3>2. \A d \in Days : d <= date => d <= date'
      BY <1>1, <1>3, NeverIsNoDay
    <3> QED
      BY <3>1, <3>2
  <2> QED
    BY <1>1, <1>8, <2>1 DEF AlertsIInv, MailIsPaid
<1>10. Run' = Run /\ Run.quiet = {} /\ Run.at = "queue"
  BY <1>1 DEF Run, Begun
<1>11. SoundRun(Run', told', extra', lost', date', mailed', since')
  BY <1>1, <1>6, <1>10, SignedChannels
     DEF AlertsIInv, SoundRun, NoiseIsPaid, NothingIsLost, Silences
<1>12. InTurn(Run') /\ Remembered(memory', told') /\ AskedAboutFailingJobs' /\ BlindIsPaid'
  BY <1>1, <1>10 DEF AlertsIInv, AskedAboutFailingJobs, BlindIsPaid
<1> QED
  BY <1>5, <1>7, <1>9, <1>11, <1>12 DEF AlertsIInv

\* A digest is sent when the file remembers none of that day, or cannot be read.
LEMMA MailBeginsStep == AlertsIInv /\ (MailBegins \/ MailBeginsBlind) => AlertsIInv'
<1> SUFFICES ASSUME AlertsIInv, MailBegins \/ MailBeginsBlind PROVE AlertsIInv'
  OBVIOUS
<1>1. PICK copy \in {memory, NothingToldYet}, read \in BOOLEAN :
        /\ mailer = NotRunning
        /\ mailer' = [at |-> "send", copy |-> copy, base |-> copy, today |-> date,
                      read |-> read]
        /\ UNCHANGED <<memory, mailed, extra>>
        /\ UNCHANGED <<date, cond, notifier, request, unrest, told, since, changes>>
        /\ \/ copy = memory /\ memory.email # date /\ UNCHANGED <<lost, mishaps>>
           \/ Unreadable
  BY DEF MailBegins, MailBeginsBlind, MailBeginsWith, DigestIsDue, OnlyMailer
<1>2. /\ memory \in Memory /\ date \in Days /\ mailed \in Days \union {Never} /\ date <= date
      /\ AlertsTypeOK /\ lost \in Nat /\ extra["mail"] \in Nat
      /\ extra \in [Noises -> Nat]
      /\ SoundRun(Run, told, extra, lost, date, mailed, since) /\ InTurn(Run)
  <2>1. date \in Days /\ AlertsTypeOK
    BY DEF AlertsIInv, AlertsTypeOK
  <2> QED
    BY <2>1, NeverIsNoDay, SignedChannels DEF AlertsIInv, AlertsTypeOK
<1>3. NothingToldYet \in Memory /\ Remembered(NothingToldYet, told)
  BY DEF NothingToldYet, Memory, Remembered
<1>4. /\ mailer'.at = "send" /\ mailer'.copy = copy /\ mailer'.base = copy
      /\ mailer'.today = date
      /\ copy \in Memory /\ Remembered(copy, told) /\ mailer' # NotRunning
  BY <1>1, <1>2, <1>3 DEF AlertsIInv, NotRunning
<1>5. /\ lost' \in Nat /\ lost' >= lost /\ mishaps' \in 0 .. MaxMishaps
      /\ \/ copy = memory /\ memory.email # date /\ lost' = lost
         \/ lost' = lost + 1
  BY <1>1, <1>2, MoreIsLost DEF AlertsTypeOK
<1>6. AlertsTypeOK'
  BY <1>1, <1>2, <1>4, <1>5 DEF AlertsTypeOK
<1>7. NotAhead' /\ AskedAboutFailingJobs' /\ Remembered(memory', told')
  BY <1>1, <1>2, <1>5 DEF AlertsIInv, NotAhead, AskedAboutFailingJobs
<1>8. mailer.at # "save"
  BY <1>1 DEF NotRunning
<1>9. MailIsPaid'
  BY <1>1, <1>2, <1>4, <1>5, <1>8 DEF AlertsIInv, MailIsPaid, NotAhead
<1>10. BlindIsPaid'
  <2>1. \A k \in Channels : extra[k] \in Nat
    BY <1>2, SignedChannels
  <2> QED
    BY <1>1, <1>2, <1>5, <2>1 DEF AlertsIInv, BlindIsPaid
<1>11. Run' = Run
  BY <1>1 DEF Run, Begun
<1>12. SoundRun(Run', told', extra', lost', date', mailed', since') /\ InTurn(Run')
  BY <1>1, <1>2, <1>5, <1>11, PaidForMore
<1> QED
  BY <1>6, <1>7, <1>9, <1>10, <1>12 DEF AlertsIInv

\* A digest too many is sent on a day whose digest was forgotten.
LEMMA MailSendsStep == AlertsIInv /\ MailSends => AlertsIInv'
<1> SUFFICES ASSUME AlertsIInv, MailSends PROVE AlertsIInv'
  OBVIOUS
<1>1. /\ mailer.at = "send" /\ UNCHANGED <<memory, mailed, lost>>
      /\ UNCHANGED <<date, cond, notifier, request, unrest, told, since, changes>>
  BY DEF MailSends, OnlyMailer
<1>2. /\ AlertsTypeOK /\ extra \in [Noises -> Nat] /\ lost \in Nat /\ extra["mail"] \in Nat
      /\ SoundRun(Run, told, extra, lost, date, mailed, since) /\ InTurn(Run)
  BY SignedChannels DEF AlertsIInv, AlertsTypeOK
<1>3. /\ mailer \in [at : {"send", "save"}, copy : Memory, base : Memory, today : Days,
                     read : BOOLEAN]
      /\ mailer # NotRunning
  BY <1>1, <1>2 DEF AlertsTypeOK, NotRunning
<1>4. Run' = Run
  BY <1>1 DEF Run, Begun
<1>5. NotAhead' /\ AskedAboutFailingJobs' /\ Remembered(memory', told')
  BY <1>1 DEF AlertsIInv, NotAhead, AskedAboutFailingJobs
<1>6. (\A j \in Channels : extra'[j] = extra[j]) => BlindIsPaid'
  BY <1>1 DEF AlertsIInv, BlindIsPaid
<1>7. CASE Mishap /\ mailer' = NotRunning /\ UNCHANGED extra
  <2>1. AlertsTypeOK'
    BY <1>1, <1>2, <1>7, MishapIsAllowed DEF AlertsTypeOK
  <2>2. MailIsPaid'
    BY <1>1, <1>7 DEF AlertsIInv, MailIsPaid, NotRunning
  <2> QED
    BY <1>1, <1>2, <1>4, <1>5, <1>7, <1>6, <2>1, <2>2 DEF AlertsIInv
<1>8. CASE /\ mailer' = [mailer EXCEPT !.at = "save"]
           /\ extra' = Needless("mail", mailed = mailer.today)
           /\ UNCHANGED mishaps
  <2>1. /\ extra' \in [Noises -> Nat]
        /\ extra'["mail"] = IF mailed = mailer.today THEN extra["mail"] + 1
                                                     ELSE extra["mail"]
        /\ \A j \in Noises : j # "mail" => extra'[j] = extra[j]
    BY <1>2, <1>8, CountsOne, SignedChannels
  <2>2. /\ mailer' \in [at : {"send", "save"}, copy : Memory, base : Memory, today : Days,
                        read : BOOLEAN]
        /\ mailer'.at = "save" /\ mailer'.copy = mailer.copy /\ mailer'.base = mailer.base
        /\ mailer'.today = mailer.today
    BY <1>3, <1>8
  <2>3. AlertsTypeOK'
    BY <1>1, <1>2, <1>8, <2>1, <2>2 DEF AlertsTypeOK
  <2>4. extra'["mail"] <= lost
    BY <1>1, <1>2, <2>1 DEF AlertsIInv, MailIsPaid
  <2>5. MailIsPaid'
    BY <1>1, <1>3, <2>2, <2>4 DEF AlertsIInv, MailIsPaid
  <2>6. \A j \in Channels : extra'[j] = extra[j]
    BY <2>1, SignedChannels
  <2>7. extra'["alarm"] = extra["alarm"]
    BY <2>1, SignedChannels
  <2>8. SoundRun(Run', told', extra', lost', date', mailed', since')
    BY <1>1, <1>2, <1>4, <2>6, <2>7, SignedChannels
       DEF SoundRun, NoiseIsPaid, NothingIsLost
  <2> QED
    BY <1>2, <1>4, <1>5, <1>6, <2>3, <2>5, <2>6, <2>8 DEF AlertsIInv
<1> QED
  BY <1>7, <1>8 DEF MailSends

\* A digest is remembered, or is lost.
LEMMA MailSavesStep == AlertsIInv /\ MailSaves => AlertsIInv'
<1> SUFFICES ASSUME AlertsIInv, MailSaves PROVE AlertsIInv'
  OBVIOUS
<1> DEFINE c == [mailer.copy EXCEPT !.email = mailer.today]
<1>1. /\ mailer.at = "save" /\ mailer' = NotRunning /\ mailed' = mailer.today
      /\ UNCHANGED extra
      /\ UNCHANGED <<date, cond, notifier, request, unrest, told, since, changes>>
      /\ \/ Saves(c, mailer.base) /\ UNCHANGED mishaps
         \/ SaveFails
         \/ SavesNothing
  BY DEF MailSaves, OnlyMailer
<1>2. /\ AlertsTypeOK /\ extra \in [Noises -> Nat] /\ lost \in Nat /\ extra["mail"] \in Nat
      /\ SoundRun(Run, told, extra, lost, date, mailed, since) /\ InTurn(Run) /\ Run \in NotifierRuns
      /\ memory \in Memory /\ mailed \in Days \union {Never} /\ Remembered(memory, told)
      /\ mishaps \in 0 .. MaxMishaps
  BY SignedChannels, RunIsRun DEF AlertsIInv, AlertsTypeOK
<1>3. /\ mailer \in [at : {"send", "save"}, copy : Memory, base : Memory, today : Days,
                     read : BOOLEAN]
      /\ mailer # NotRunning
  BY <1>1, <1>2 DEF AlertsTypeOK, NotRunning
<1>4. /\ mailer.copy = mailer.base /\ Remembered(mailer.copy, told) /\ mailer.today <= date
      /\ mailed # Never => mailed <= mailer.today
  BY <1>3 DEF AlertsIInv, MailIsPaid
<1>5. /\ c \in Memory /\ c.at = mailer.copy.at /\ c.sig = mailer.copy.sig
      /\ c.seen = mailer.copy.seen /\ c.email = mailer.today
  BY <1>3 DEF Memory
<1> HIDE DEF c
<1>6. /\ memory' \in Memory /\ Remembered(memory', told) /\ lost' \in Nat /\ lost' >= lost
      /\ mishaps' \in 0 .. MaxMishaps
      /\ \/ lost' = lost + 1
         \/ lost' = lost /\ memory' = c /\ memory = mailer.copy
  <2>1. Remembered(c, told)
    BY <1>4, <1>5 DEF Remembered
  <2>2. CASE SaveFails
    BY <1>2, <2>2, MishapIsAllowed DEF SaveFails
  <2>3. CASE Saves(c, mailer.base) /\ UNCHANGED mishaps
    BY <1>2, <1>4, <1>5, <2>1, <2>3 DEF Saves
  <2>4. CASE SavesNothing
    BY <1>2, <2>4 DEF SavesNothing
  <2> QED
    BY <1>1, <2>2, <2>3, <2>4
<1>7. AlertsTypeOK'
  BY <1>1, <1>2, <1>3, <1>6 DEF AlertsTypeOK
<1>8. NotAhead' /\ AskedAboutFailingJobs' /\ BlindIsPaid'
  <2>1. lost' = 0 => lost = 0
    BY <1>2, <1>6
  <2>2. \A k \in Channels : extra[k] \in Nat
    BY <1>2, SignedChannels
  <2> QED
    BY <1>1, <1>2, <1>4, <1>6, <2>1, <2>2
       DEF AlertsIInv, NotAhead, AskedAboutFailingJobs, BlindIsPaid
<1>9. extra["mail"] <= lost
  BY DEF AlertsIInv, MailIsPaid
<1>10. MailIsPaid'
  <2>1. CASE lost' = lost + 1
    BY <1>1, <1>2, <1>9, <2>1 DEF MailIsPaid, NotRunning
  <2>2. CASE lost' = lost /\ memory' = c /\ memory = mailer.copy
    BY <1>1, <1>2, <1>5, <1>9, <2>2 DEF MailIsPaid, NotRunning
  <2> QED
    BY <1>6, <2>1, <2>2
<1>11. SoundRun(Run', told', extra', lost', date', mailed', since') /\ InTurn(Run')
  <2>1. CASE notifier # NotRunning
    <3>1. Run' = Run
      BY <1>1, <2>1 DEF Run
    <3>2. SoundRun(Run, told, extra, lost', date, mailed, since)
      BY <1>2, <1>6, PaidForMore
    <3>3. mailer.today \in Days /\ Run.base.email \in Days \union {Never}
      BY <1>2, <1>3 DEF NotifierRuns, Memory
    <3>4. /\ mailer.today # Never
          /\ Run.base.email # Never /\ mailed # Never /\ Run.base.email <= mailed =>
               Run.base.email <= mailer.today
          /\ Run.base.email # Never /\ mailed # Never /\ Run.base.email < mailed =>
               Run.base.email < mailer.today
      BY <1>2, <1>4, <3>3, NeverIsNoDay
    <3>5. NothingIsLost(Run, told, extra, lost', mailer.today, since)
      BY <3>2, <3>4 DEF SoundRun, NothingIsLost
    <3> QED
      BY <1>1, <1>2, <3>1, <3>2, <3>5 DEF SoundRun
  <2>2. CASE notifier = NotRunning
    <3>1. Run' = FreshRun(memory') /\ Run = FreshRun(memory)
      BY <1>1, <2>2 DEF Run, Begun, FreshRun
    <3>2. CASE lost' = lost + 1
      <4>1. \A k \in Channels : extra[k] \in Nat /\ extra[k] <= lost
        BY <1>2, SignedChannels DEF SoundRun, NoiseIsPaid
      <4>2. lost' # 0 /\ \A k \in Channels : extra[k] < lost'
        BY <1>2, <3>2, <4>1
      <4>3. SoundRun(FreshRun(memory'), told, extra, lost', date, mailer.today, since)
            /\ InTurn(FreshRun(memory'))
        BY <1>2, <1>6, <4>2, FreshRunIsSound
      <4> QED
        BY <1>1, <3>1, <4>3
    <3>3. CASE lost' = lost /\ memory' = c /\ memory = mailer.copy
      <4>1. /\ Run' \in NotifierRuns /\ Run'.copy = c /\ Run'.base = c /\ Run'.quiet = {}
            /\ Run'.at = "queue"
        BY <1>5, <3>1, <3>3 DEF FreshRun, NotifierRuns
      <4>2. Run.copy = memory /\ Run.base = memory
        BY <3>1 DEF FreshRun
      <4>3. NoiseIsPaid(Run', told, extra, lost', date)
        BY <1>2, <1>5, <3>3, <4>1, <4>2 DEF SoundRun, NoiseIsPaid
      <4>4. NothingIsLost(Run', told, extra, lost', mailer.today, since)
        <5> SUFFICES ASSUME lost = 0
                     PROVE  NothingIsLost(Run', told, extra, lost', mailer.today, since)
          BY <3>3 DEF NothingIsLost
        <5>1. memory.email = mailed
          BY DEF AlertsIInv, MailIsPaid
        <5>2. ~(extra["alarm"] > 0)
          BY <1>2, <4>2, <5>1, NeverIsNoDay DEF SoundRun, NothingIsLost
        <5>3. mailer.today # Never /\ mailer.today <= mailer.today
          BY <1>3, NeverIsNoDay
        <5> QED
          BY <1>2, <1>5, <3>3, <4>1, <4>2, <5>2, <5>3 DEF SoundRun, NothingIsLost
      <4>5. Remembered(Run'.copy, told) /\ Silences(Run', told, lost', date)
        BY <1>6, <3>3, <4>1 DEF Silences
      <4> QED
        BY <1>1, <4>1, <4>3, <4>4, <4>5 DEF SoundRun, InTurn
    <3> QED
      BY <1>6, <3>2, <3>3
  <2> QED
    BY <2>1, <2>2
<1> QED
  BY <1>1, <1>6, <1>7, <1>8, <1>10, <1>11 DEF AlertsIInv

\* Every step keeps the invariant.
LEMMA AlertsStays == AlertsIInv /\ [AlertsNext]_alertsVars => AlertsIInv'
<1> SUFFICES ASSUME AlertsIInv, [AlertsNext]_alertsVars PROVE AlertsIInv'
  OBVIOUS
<1>1. ASSUME NEW k \in Signed, Changes(k) PROVE AlertsIInv'
  BY <1>1, ChangeStep
<1>2. CASE NotifierStep
  <2>1. CASE NotifyChannel("fleet", "escalate")
    BY <2>1, NotifyChannelStep
  <2>2. CASE NotifyChannel("doctor", "save")
    BY <2>2, NotifyChannelStep
  <2> QED
    BY <1>2, <2>1, <2>2, BlindStep, QueueStep, UnreadStep, LagStep, EscalatesStep,
       SavesStep
       DEF NotifierStep
<1>3. CASE UNCHANGED alertsVars
  <2>1. AlertsTypeOK'
    BY <1>3 DEF AlertsIInv, AlertsTypeOK, alertsVars, heard
  <2>2. NotAhead' /\ AskedAboutFailingJobs' /\ MailIsPaid' /\ BlindIsPaid'
    BY <1>3 DEF AlertsIInv, NotAhead, AskedAboutFailingJobs, MailIsPaid, BlindIsPaid,
                alertsVars, heard
  <2>3. Run' = Run
    BY <1>3 DEF Run, Begun, alertsVars, heard
  <2> QED
    BY <1>3, <2>1, <2>2, <2>3 DEF AlertsIInv, alertsVars, heard
<1> QED
  BY <1>1, <1>2, <1>3, DateStep, HumanStep, NotifierDiesStep, MailBeginsStep, MailSendsStep,
     MailSavesStep DEF AlertsNext

\* At rest a false alarm contradicts what is known until a save is lost.
LEMMA AlertsImplies == AlertsIInv => AlertsInv
<1> SUFFICES ASSUME AlertsIInv PROVE AlertsInv
  OBVIOUS
<1>1. /\ AlertsTypeOK /\ SoundRun(Run, told, extra, lost, date, mailed, since)
      /\ lost \in Nat /\ MailIsPaid /\ (memory.email = Never \/ memory.email \in Nat)
  <2>1. memory.email \in Days \union {Never}
    BY DEF AlertsIInv, AlertsTypeOK, Memory
  <2> QED
    BY <2>1, NeverIsNoDay DEF AlertsIInv, AlertsTypeOK
<1>2. \A k \in Noises \ {"alarm"} : extra[k] <= lost
  BY <1>1 DEF SoundRun, NoiseIsPaid, MailIsPaid, Noises
<1>3. notifier = NotRunning /\ extra["alarm"] > 0 => lost > 0
  <2>0. lost \in Nat
    BY <1>1
  <2> SUFFICES ASSUME notifier = NotRunning, extra["alarm"] > 0, lost = 0 PROVE FALSE
    BY <2>0
  <2>1. Run.base = memory
    BY DEF Run, Begun
  <2>2. memory.email = mailed /\ memory.email # Never /\ memory.email < mailed
    BY <1>1, <2>1 DEF SoundRun, NothingIsLost, MailIsPaid
  <2> QED
    BY <1>1, <2>2
<1>4. QuietIsEarned
  BY <1>1 DEF QuietIsEarned, SoundRun, Silences, Run
<1> QED
  BY <1>1, <1>2, <1>3, <1>4 DEF AlertsIInv, AlertsInv, NoiseIsBounded

\* Nobody is told again more often than loads and saves were lost, no silence is unearned,
\* and the human is asked about failing jobs (bin/hitl_alerts.py, --notify and --email).
THEOREM AlertsAreSound == AlertsSpec => []AlertsInv
BY AlertsStart, AlertsStays, AlertsImplies, PTL DEF AlertsSpec
=================================================================================
