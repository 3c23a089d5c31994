------------------------------- MODULE Efficacy -------------------------------
(* What the runs of one skill are worth: the headline of remediation.py (three  *)
(* tiers of evidence over the exec log, the telemetry and the snapshots of the  *)
(* metrics it is the remedy of), the magnitude of remediation_delta.py, the     *)
(* cooldown multiplier of skill_efficacy.py, the grant maturity.py makes of the *)
(* same grades, and the findings of reflex_eureka.py.  All are read from logs   *)
(* that only grow, but for the snapshots a backfill adds to the past.           *)
EXTENDS Integers, Sequences, FiniteSets, SequencesExt

CONSTANTS
  Metrics,       \* the metrics of which the skill is the remedy
  LastTick,      \* bound: the clock
  MaxEntries,    \* bound: rows, snapshots and emits in all
  Bad, Healthy,  \* values of a metric, of which more is better; Bad is flagged
  NoValue,       \* no snapshot
  Samples,       \* 3: the snapshots a delta needs on either side
  RunWindow,     \* _WINDOW
  Warmup,        \* _WARMUP_RUNS
  MinRuns,       \* _MIN_RUNS of reflex_eureka.py
  FruitlessRuns,     \* _SKILL_INEFFECTIVE_MIN_RUNS
  AgingTicks,    \* _AGING_DAYS
  HeadlineTicks  \* window_days

ASSUME EfficacyAssumption ==
  /\ {LastTick, MaxEntries, AgingTicks, HeadlineTicks} \subseteq Nat
  /\ {Samples, RunWindow, Warmup, MinRuns, FruitlessRuns} \subseteq Nat \ {0}
  /\ Warmup <= MinRuns /\ MinRuns <= FruitlessRuns /\ FruitlessRuns <= RunWindow
  /\ Bad \subseteq Int /\ Healthy \subseteq Int
  /\ \A b \in Bad, h \in Healthy : b < h

VARIABLES
  runLog,      \* exec_log.jsonl, the newest last
  rejudged,    \* exec_log_rejudge.jsonl: the rows it upgrades
  emitted,     \* telemetry: when the one session that used the skill was emitted
  snap,        \* metrics_history.jsonl: each metric at each tick
  tick,        \* the clock
  verdictTier, \* REMEDIATION_ENGINE_VERDICT is not switched off
  backfilled   \* history: a snapshot of the past came later

efficacyVars == <<runLog, rejudged, emitted, snap, tick, verdictTier, backfilled>>

Ticks == 0 .. LastTick
Values == Bad \cup Healthy

-----------------------------------------------------------------------------
(* The rows                                                                   *)

LogRow(status, improved, move) ==
  [by |-> "reflex", reader |-> FALSE, propose |-> FALSE,
   status |-> status, improved |-> improved, move |-> move]

\* A run of the engine, measured or not; of a read-only mechanism; one in a worktree,
\* which the readers still know though no code here marks a row so; one from before
\* the engine judged its runs; one logged for an operator.
EngineRows ==
  {LogRow("done", "yes", "up"), LogRow("done", "no", "flat"),
   LogRow("done", "yes", "none"), LogRow("done", "no", "none"),
   LogRow("error", "no", "up"), LogRow("error", "no", "none")}
ReaderRows ==
  {[r EXCEPT !.reader = TRUE] :
     r \in {LogRow("done", "no", "none"), LogRow("done", "no", "up"),
            LogRow("error", "no", "none")}}
ProposalRows ==
  {[LogRow("done", "no", m) EXCEPT !.propose = TRUE] : m \in {"up", "none"}}
UngradedRow == LogRow("done", "unsaid", "none")
OperatorRow == [UngradedRow EXCEPT !.by = "human"]

LogRows ==
  EngineRows \cup ReaderRows \cup ProposalRows \cup {UngradedRow, OperatorRow}

\* The rows of the history.
SnapTicks == {t \in Ticks : \E m \in Metrics : snap[m][t] # NoValue}

\* Room for one more entry of any log.
Room ==
  Len(runLog) + Cardinality(emitted) + Cardinality(SnapTicks) < MaxEntries

EfficacyInit ==
  /\ runLog = << >> /\ rejudged = {} /\ emitted = {}
  /\ snap = [m \in Metrics |-> [t \in Ticks |-> NoValue]] /\ tick = 0
  /\ verdictTier \in BOOLEAN /\ backfilled = FALSE

TheRow(i) == runLog[i].row

RunIsLogged(r) ==
  /\ Room
  /\ runLog' = Append(runLog, [row |-> r, at |-> tick])
  /\ UNCHANGED <<rejudged, emitted, snap, tick, verdictTier, backfilled>>

\* The sidecar names a row by its hash, some time after the run: one, for a bound.
IsRejudged(i) ==
  /\ rejudged = {} /\ TheRow(i).improved = "no" /\ runLog[i].at < tick
  /\ rejudged' = rejudged \cup {i}
  /\ UNCHANGED <<runLog, emitted, snap, tick, verdictTier, backfilled>>

\* The session that used the skill ends, or ends again after it was resumed.
SessionIsEmitted ==
  /\ Room /\ tick \notin emitted /\ emitted' = emitted \cup {tick}
  /\ UNCHANGED <<runLog, rejudged, snap, tick, verdictTier, backfilled>>

\* A row has some of the metrics.
SnapshotRows ==
  {v \in [Metrics -> Values \cup {NoValue}] : \E m \in Metrics : v[m] # NoValue}
RowAdded(t, v) ==
  /\ Room /\ t \notin SnapTicks
  /\ snap' = [m \in Metrics |-> [snap[m] EXCEPT ![t] = v[m]]]

\* Later than what was logged before it.
SnapshotTaken(v) ==
  /\ RowAdded(tick, v)
  /\ tick \notin emitted /\ \A i \in DOMAIN runLog : runLog[i].at < tick
  /\ UNCHANGED <<runLog, rejudged, emitted, tick, verdictTier, backfilled>>

\* backfill_history.py makes up a row of a week that has gone by.
HistoryBackfilled(t, v) ==
  /\ RowAdded(t, v) /\ t < tick /\ backfilled' = TRUE
  /\ UNCHANGED <<runLog, rejudged, emitted, tick, verdictTier>>

TimePasses ==
  /\ tick < LastTick /\ tick' = tick + 1
  /\ UNCHANGED <<runLog, rejudged, emitted, snap, verdictTier, backfilled>>

EfficacyNext ==
  \/ \E r \in LogRows : RunIsLogged(r)
  \/ \E i \in DOMAIN runLog : IsRejudged(i)
  \/ SessionIsEmitted \/ TimePasses
  \/ \E v \in SnapshotRows :
       SnapshotTaken(v) \/ \E t \in Ticks : HistoryBackfilled(t, v)

EfficacySpec == EfficacyInit /\ [][EfficacyNext]_efficacyVars

-----------------------------------------------------------------------------
(* remediation.efficacy()                                                     *)

\* Mutant: an unsettled run is judged by the `improved` it was born with.
VerdictOfAny(r) ==
  /\ verdictTier /\ r.by = "reflex"
  /\ r.improved # "unsaid"

\* The engine's own verdict, on a run that settled and was not measured.
HasVerdict(r) ==
  /\ verdictTier /\ r.by = "reflex"
  /\ r.status \in {"done", "no_change"} /\ r.improved # "unsaid"
  /\ r.move = "none"

IsAutonomous(r) == r.by = "reflex" /\ ~r.propose /\ ~r.reader

Attempts == {i \in DOMAIN runLog : IsAutonomous(TheRow(i))}

\* The three tiers, by the rows they take.
FireTime == {i \in DOMAIN runLog : TheRow(i).move # "none" /\ ~TheRow(i).reader}
VerdictRuns ==
  {i \in DOMAIN runLog : HasVerdict(TheRow(i)) /\ IsAutonomous(TheRow(i))}
Correlated ==
  {i \in DOMAIN runLog :
     LET r == TheRow(i) IN r.status = "done" /\ r.move = "none" /\ ~HasVerdict(r)}

\* What ran in a worktree is counted apart.
LiveFireTime == {i \in FireTime : ~TheRow(i).propose}

\* A row the sidecar upgrades is one the engine judged a failure.
ImprovedDirect ==
  {i \in LiveFireTime : TheRow(i).move = "up"}
  \cup {i \in VerdictRuns : TheRow(i).improved = "yes" \/ i \in rejudged}

LeastOf(S) == CHOOSE t \in S : \A u \in S : t <= u
LatestOf(S) == CHOOSE t \in S : \A u \in S : u <= t

\* One use of each session, at its earliest emit; one of each run no tier judged.
SkillUses ==
  {[at |-> LeastOf(e), actor |-> "human"] : e \in {emitted} \ {{}}}
  \cup {[at |-> runLog[i].at, actor |-> TheRow(i).by] : i \in Correlated}

FlaggedBefore(m, u) == {t \in Ticks : t <= u.at /\ snap[m][t] \in Bad}
SnapsAfter(m, u) == {t \in Ticks : t > u.at /\ snap[m][t] # NoValue}
Bracketed(m) ==
  {u \in SkillUses : FlaggedBefore(m, u) # {} /\ SnapsAfter(m, u) # {}}
WindowAround(m, u) == <<LatestOf(FlaggedBefore(m, u)), LeastOf(SnapsAfter(m, u))>>

\* The windows of a metric in which a use falls: each is one event, and the engine's
\* if it has a use there.  A use falls in a window of every metric.
Windows(m) == {WindowAround(m, u) : u \in Bracketed(m)}
UsesIn(m, w) == {u \in Bracketed(m) : w = WindowAround(m, u)}
ReflexUsesIn(m, w) == {u \in UsesIn(m, w) : u.actor = "reflex"}
ReflexWindows(m) == {w \in Windows(m) : ReflexUsesIn(m, w) # {}}

ImprovedWindows(m) == {w \in ReflexWindows(m) : snap[m][w[2]] > snap[m][w[1]]}

\* What the direct events and the windows of one metric add up to.
ImprovedWith(m) == Cardinality(ImprovedDirect) + Cardinality(ImprovedWindows(m))

\* What lies in the window of the headline.
Recent(t) == t >= tick - HeadlineTicks
AttemptedNow == Cardinality({i \in Attempts : Recent(runLog[i].at)})
ImprovedNowWith(m) ==
  Cardinality({i \in ImprovedDirect : Recent(runLog[i].at)})
  + Cardinality({w \in ImprovedWindows(m) :
                   Recent(LeastOf({u.at : u \in ReflexUsesIn(m, w)}))})

-----------------------------------------------------------------------------
(* remediation_delta.compute(), of a run and the metric it was for             *)

SnapsBy(m, i) == {t \in Ticks : t <= runLog[i].at /\ snap[m][t] # NoValue}
SnapsSince(m, i) == {t \in Ticks : t > runLog[i].at /\ snap[m][t] # NoValue}

ScoreStatus(m, i) ==
  CASE Cardinality(SnapsBy(m, i)) < Samples -> "unscoreable"
    [] /\ Cardinality(SnapsBy(m, i)) >= Samples
       /\ Cardinality(SnapsSince(m, i)) < Samples -> "pending"
    [] OTHER -> "ok"

Newest(S) == {t \in S : Cardinality({u \in S : u > t}) < Samples}
Oldest(S) == {t \in S : Cardinality({u \in S : u < t}) < Samples}

SnapsOf(m, S) == [t \in S |-> snap[m][t]]

\* Twice the median, so that it stays whole.
Median2(value) ==
  LET Before(t, u) == value[t] < value[u] \/ (value[t] = value[u] /\ t < u)
      s == SetToSortSeq(DOMAIN value, Before)
      n == Len(s)
  IN  IF n % 2 = 1 THEN 2 * value[s[(n + 1) \div 2]]
      ELSE value[s[n \div 2]] + value[s[(n \div 2) + 1]]

Delta2(m, i) ==
  Median2(SnapsOf(m, Oldest(SnapsSince(m, i))))
  - Median2(SnapsOf(m, Newest(SnapsBy(m, i))))

-----------------------------------------------------------------------------
(* skill_efficacy.compute(), of what it reads: the log, the sidecar, the clock *)

Read == [log |-> runLog, up |-> rejudged, now |-> tick]

\* A reader is graded by its exit, under a key of its own.
Key(e) == IF e.row.reader THEN "mechanism" ELSE "skill"
Graded(e) == Key(e) = "mechanism" \/ e.row.improved # "unsaid"
Passed(e) ==
  IF Key(e) = "mechanism" THEN e.row.status = "done" ELSE e.row.improved = "yes"

\* The rows of a key that carry a verdict and are not too old.
FreshRows(k, x) ==
  {i \in DOMAIN x.log : LET e == x.log[i]
                        IN  Key(e) = k /\ Graded(e) /\ e.at >= x.now - AgingTicks}

\* Mutant: rows without a verdict fill the cap.
CapOfAll(k, x) ==
  {i \in FreshRows(k, x) :
     Cardinality({j \in DOMAIN x.log : j > i /\ Key(x.log[j]) = k}) < RunWindow}

\* The newest of them.
Counted(k, x) ==
  LET fresh == FreshRows(k, x)
  IN  {i \in fresh : Cardinality({j \in fresh : j > i}) < RunWindow}

Tally(k, x) ==
  LET rows == Counted(k, x)
      Good(i) == Passed(x.log[i]) \/ (k = "skill" /\ i \in x.up)
  IN  [total |-> Cardinality(rows), good |-> Cardinality({i \in rows : Good(i)})]

\* Of the cooldown, in quarters: 0.25, 3 below 30 per cent, or 1.
Multiplier(k, x) ==
  LET n == Tally(k, x)
  IN  CASE n.total < Warmup -> 1
        [] n.total >= Warmup /\ 10 * n.good < 3 * n.total -> 12
        [] OTHER -> 4

-----------------------------------------------------------------------------
(* maturity.resolve_maturity(): the grant a metric has from its seed and the   *)
(* grades of its mechanism, or of its skill when it has none                    *)

\* What backs a metric, and the key its grades are under.
Backings == {"skill", "mechanism", "reader"}
GradedBy(b) == IF b = "reader" THEN "mechanism" ELSE "skill"

StatusOf(b, n) ==
  CASE b = "skill" -> "no_mechanism"
    [] b # "skill" /\ n.total < MinRuns -> "ungraded"
    [] b # "skill" /\ n.total >= MinRuns /\ n.good = 0 -> "error"
    [] b # "skill" /\ n.total >= MinRuns /\ n.good > 0 /\ 10 * n.good < 3 * n.total
         -> "graded_gotcha"
    [] b # "skill" /\ n.total >= MinRuns /\ 10 * n.good >= 7 * n.total
         -> "graded_rule"
    [] OTHER -> "graded_neutral"

\* What its mechanism is worth, whether it is proven not to help, and what becomes
\* of the seeds OBSERVE, DRY-RUN-GRADED and APPLY, which are 0, 1 and 2.
Grant(b, x) ==
  LET n == Tally(GradedBy(b), x)
      status == StatusOf(b, n)
      fruitless == b = "skill" /\ n.total >= FruitlessRuns /\ n.good = 0
      demoted == fruitless \/ status \in {"graded_gotcha", "error"}
  IN  [status |-> status, total |-> n.total, demoted |-> demoted,
       maturity |-> CASE demoted -> <<0, 0, 0>>
                      [] status = "graded_rule" -> <<2, 2, 2>>
                      [] status = "ungraded" -> <<1, 1, 2>>
                      [] OTHER -> <<0, 1, 2>>]

-----------------------------------------------------------------------------
(* reflex_eureka.analyze(): the engine's runs of the metric, stale or not, and *)
(* the exit code where no verdict was written                                   *)

EngineRuns == {i \in DOMAIN runLog : TheRow(i).by = "reflex"}
WasEffective(r) ==
  IF r.reader \/ r.improved = "unsaid" THEN r.status = "done"
  ELSE r.improved = "yes"
EffectiveRuns == {i \in EngineRuns : WasEffective(TheRow(i))}

Finding(class) ==
  LET total == Cardinality(EngineRuns)
      good == Cardinality(EffectiveRuns)
  IN  /\ total >= MinRuns
      /\ CASE class = "GOTCHA" -> 10 * good < 3 * total
           [] class = "RULE" -> 10 * good >= 7 * total
           [] class = "CONTEXT" -> 10 * good >= 3 * total /\ 10 * good < 7 * total

-----------------------------------------------------------------------------
(* Properties                                                                 *)

EfficacyTypeOK ==
  /\ \A i \in DOMAIN runLog : runLog[i].at \in Ticks
  /\ rejudged \subseteq DOMAIN runLog /\ emitted \subseteq Ticks
  /\ snap \in [Metrics -> [Ticks -> Values \cup {NoValue}]]

\* One run is evidence in one tier at most, whatever it carries: "counted exactly
\* once" (agentica_core/remediation.py:98-131).
OneTierPerRun ==
  /\ FireTime \cap VerdictRuns = {} /\ FireTime \cap Correlated = {}
  /\ VerdictRuns \cap Correlated = {}

\* The direct events and the windows of one metric never outnumber the attempts,
\* lifetime or within the window, though the three are counted from different places
\* (agentica_core/remediation.py:141-156); with the engine's verdicts switched off they
\* may, and so may the windows of several metrics together, since a run that no tier judged
\* is a use in a window of each (271-282).
ImprovedWasAttempted ==
  verdictTier =>
    \A m \in Metrics : /\ ImprovedNowWith(m) <= AttemptedNow
                       /\ ImprovedWith(m) <= Cardinality(Attempts)

\* The brake and the grant, which two files compute from the same grades, agree:
\* what is demoted on evidence is penalised too, and a mechanism that has earned its
\* grant is not (agentica_core/maturity.py:65-73, skill_efficacy.py:203-213).
BrakeFollowsGrant ==
  \A b \in Backings :
    LET g == Grant(b, Read)
        brake == Multiplier(GradedBy(b), Read)
    IN  /\ g.demoted => brake = 12
        /\ g.status = "graded_rule" => brake = 4

\* Every pair with enough runs has one finding, one without a success too, which is
\* a rate of 0.0 and not of nothing (agentica_core/reflex_eureka.py:172-183).
OneFinding ==
  Cardinality(EngineRuns) >= MinRuns
    => Cardinality({c \in {"GOTCHA", "RULE", "CONTEXT"} : Finding(c)}) = 1

EfficacyInv ==
  EfficacyTypeOK /\ OneTierPerRun /\ ImprovedWasAttempted /\ BrakeFollowsGrant
  /\ OneFinding

Scales == {"skill", "mechanism"}
ReadNext == [log |-> runLog', up |-> rejudged', now |-> tick']

\* A run nobody graded moves no cooldown; a graded one only its own, and a failure
\* never shortens it.  Beyond its warm-up a skill is penalised only by a failure or
\* by its successes growing old (agentica_core/skill_efficacy.py:93-142).
CooldownIsEarned ==
  Len(runLog') > Len(runLog) =>
    LET e == Last(runLog')
    IN  \A k \in Scales :
          LET was == Multiplier(k, Read)
              is == Multiplier(k, ReadNext)
          IN  IF ~Graded(e) \/ k # Key(e) THEN is = was
              ELSE IF Passed(e) THEN is = 12 => was = 12
              ELSE is >= was

\* Once its mechanism has the runs to be graded a metric is not demoted by a success
\* nor promoted by a failure; one success restores a skill without a mechanism; and
\* what no one graded moves no grant (agentica_core/maturity.py:65-73, 167-203).
GrantIsEarned ==
  Len(runLog') > Len(runLog) =>
    LET e == Last(runLog')
    IN  \A b \in Backings :
          LET was == Grant(b, Read)
              is == Grant(b, ReadNext)
          IN  IF ~Graded(e) \/ GradedBy(b) # Key(e) THEN is = was
              ELSE /\ was.total >= MinRuns => \A seed \in 1 .. 3 :
                        IF Passed(e) THEN is.maturity[seed] >= was.maturity[seed]
                        ELSE is.maturity[seed] <= was.maturity[seed]
                   /\ b = "skill" /\ Passed(e) => is.maturity = <<0, 1, 2>>

\* A late re-judgment takes no success away, lengthens no cooldown, lowers no grant
\* and leaves what was measured alone (agentica_core/remediation.py:12-20).
RejudgedHelps ==
  rejudged' # rejudged =>
    /\ \A m \in Metrics : ImprovedWith(m)' >= ImprovedWith(m)
    /\ \A k \in Scales : Multiplier(k, ReadNext) <= Multiplier(k, Read)
    /\ \A b \in Backings, seed \in 1 .. 3 :
         Grant(b, ReadNext).maturity[seed] >= Grant(b, Read).maturity[seed]
    /\ (ImprovedDirect \cap FireTime)' = ImprovedDirect \cap FireTime

\* As history accrues a scored delta stays what it is and what is unscoreable stays
\* so (agentica_core/remediation_delta.py:14-24); a backfill changes both.
ScoresStay ==
  ~backfilled' =>
    \A m \in Metrics, i \in DOMAIN runLog :
      /\ ScoreStatus(m, i) = "unscoreable" => ScoreStatus(m, i)' = "unscoreable"
      /\ ScoreStatus(m, i) = "ok" =>
           ScoreStatus(m, i)' = "ok" /\ Delta2(m, i)' = Delta2(m, i)

\* What one more entry of a log, one more re-judgment or the clock may change.
EfficacySteps ==
  [][CooldownIsEarned /\ GrantIsEarned /\ RejudgedHelps /\ ScoresStay]_efficacyVars
=============================================================================
