------------------------------ MODULE Thresholds ------------------------------
(* The guard of one metric: its hand-set warn and fail values (METRIC_CONFIG),  *)
(* what calibrate.py derives from the history, the tighter of the two under     *)
(* which a process grades (insights.py), and the trail of what it was           *)
(* (threshold_audit.py).  Snapshot runs of refresh_dashboard.py may overlap.    *)
EXTENDS Integers, Sequences

CONSTANTS
  Audits,      \* snapshot runs
  Direction,   \* "lower": lower is better; "higher"
  Limits,      \* the values a limit may have
  Readings,    \* the values the metric may have
  NoRule,      \* the metric is not graded: removed, or back to OBSERVE
  MaxAudits,   \* bound: snapshot runs started
  MaxEdits,    \* bound: edits of METRIC_CONFIG
  MaxDeaths    \* bound: snapshot runs that die

\* How far a value is on the harmful side.
Harm(v) == IF Direction = "lower" THEN v ELSE -v

Ordered(band) == Harm(band.warn) <= Harm(band.fail)
Bands == {band \in [warn : Limits, fail : Limits] : Ordered(band)}

ASSUME ThresholdsAssumption ==
  /\ Direction \in {"lower", "higher"}
  /\ Limits \subseteq Int /\ Readings \subseteq Int
  /\ NoRule \notin Bands
  /\ {MaxAudits, MaxEdits, MaxDeaths} \subseteq Nat

VARIABLES
  manual,      \* METRIC_CONFIG in the source
  calibrated,  \* thresholds.json; NoRule when it has no entry or cannot be read
  trail,       \* threshold_audit.jsonl: what each entry says is new
  baseline,    \* threshold_snapshot.json
  audit,       \* per snapshot run: where it is and what it holds
  seeds,       \* what was written as the first baseline, without an entry
  jumble,      \* history: two runs compared at once, or one died at it
  leeway       \* what is left of the bounds

thresholdsVars == <<manual, calibrated, trail, baseline, audit, seeds, jumble, leeway>>

Rules == Bands \union {NoRule}
NoAudit == [at |-> "none", hand |-> NoRule, rule |-> NoRule]

ThresholdsTypeOK ==
  /\ manual \in Rules /\ calibrated \in Rules /\ seeds \subseteq Rules
  /\ trail \in Seq(Rules) /\ jumble \in BOOLEAN
  /\ baseline \in [is : {"absent", "torn", "whole"}, rule : Rules]
  /\ audit \in [Audits -> [at : {"none", "recalibrate", "fill", "compare", "append",
                                 "cut", "save"}, hand : Rules, rule : Rules]]
  /\ leeway \in [audits : 0 .. MaxAudits, edits : 0 .. MaxEdits, deaths : 0 .. MaxDeaths]

ThresholdsInit ==
  /\ manual \in Bands /\ calibrated = NoRule
  /\ trail = << >> /\ baseline = [is |-> "absent", rule |-> NoRule]
  /\ audit = [p \in Audits |-> NoAudit]
  /\ seeds = {} /\ jumble = FALSE
  /\ leeway = [audits |-> MaxAudits, edits |-> MaxEdits, deaths |-> MaxDeaths]

-----------------------------------------------------------------------------
(* What a value is worth under a guard                                       *)

\* Mutant: what the data say, however lax.
CalWins(hand, cal) == cal

\* _clamp_threshold(): the tighter of each pair.
Clamp(hand, cal) ==
  LET Tighter(a, b) == IF Harm(a) <= Harm(b) THEN a ELSE b
  IN [warn |-> Tighter(cal.warn, hand.warn), fail |-> Tighter(cal.fail, hand.fail)]

\* The anchors of _health(): 0 inside warn, 1 past it, 2 low enough to be flagged
\* (health below 60), 3 at fail (a FAIL of grade D), 4 past fail (grade F).
Level(v, band) ==
  LET x == Harm(v)
      w == Harm(band.warn)
      f == Harm(band.fail)
  IN IF x <= w THEN 0
     ELSE IF x > f THEN 4
     ELSE IF x = f THEN 3
     ELSE IF 3 * x > 2 * f + w THEN 2
     ELSE 1

-----------------------------------------------------------------------------
(* Edits and calibration                                                     *)

\* The operator edits METRIC_CONFIG.
Edit ==
  /\ leeway.edits > 0
  /\ leeway' = [leeway EXCEPT !.edits = @ - 1]
  /\ manual' \in Rules \ {manual}
  /\ UNCHANGED <<calibrated, trail, baseline, audit, seeds, jumble>>

\* A snapshot run imports insights: its rule is fixed from here on.
Import(p) ==
  /\ audit[p].at = "none" /\ leeway.audits > 0
  /\ leeway' = [leeway EXCEPT !.audits = @ - 1]
  /\ audit' = [audit EXCEPT ![p] =
       [at |-> "recalibrate", hand |-> manual,
        rule |-> IF NoRule \in {manual, calibrated} THEN manual
                 ELSE Clamp(manual, calibrated)]]
  /\ UNCHANGED <<manual, calibrated, trail, baseline, seeds, jumble>>

\* calibrate() writes thresholds.json in place, for runs to come.
Recalibrate(p) ==
  /\ audit[p].at = "recalibrate"
  /\ calibrated' = NoRule
  /\ audit' = [audit EXCEPT ![p].at = "fill"]
  /\ UNCHANGED <<manual, trail, baseline, seeds, jumble, leeway>>

\* Eight weeks with a spread give a band, fewer none.
Recalibrated(p) ==
  /\ audit[p].at = "fill"
  /\ calibrated' \in {b \in Bands : b.warn # b.fail} \union {NoRule}
  /\ audit' = [audit EXCEPT ![p].at = "compare"]
  /\ UNCHANGED <<manual, trail, baseline, seeds, jumble, leeway>>

-----------------------------------------------------------------------------
(* audit_threshold_changes()                                                 *)

\* An entry is due: threshold, added or removed.
Changed(old, new) == old # new

Comparing == {"append", "cut", "save"}

\* Is there a baseline, and what does it say?  A torn one says that there was no rule.
Compare(p) ==
  /\ audit[p].at = "compare"
  /\ audit' = [audit EXCEPT ![p].at =
       IF baseline.is # "absent" /\ Changed(baseline.rule, audit[p].rule)
         THEN "append" ELSE "cut"]
  /\ seeds' = IF baseline.is = "absent" THEN seeds \union {audit[p].rule} ELSE seeds
  /\ jumble' = (jumble \/ \E q \in Audits \ {p} : audit[q].at \in Comparing)
  /\ UNCHANGED <<manual, calibrated, trail, baseline, leeway>>

AppendEntry(p) ==
  /\ audit[p].at = "append"
  /\ trail' = Append(trail, audit[p].rule)
  /\ audit' = [audit EXCEPT ![p].at = "cut"]
  /\ UNCHANGED <<manual, calibrated, baseline, seeds, jumble, leeway>>

\* The baseline is written in place.
CutBaseline(p) ==
  /\ audit[p].at = "cut"
  /\ baseline' = [is |-> "torn", rule |-> NoRule]
  /\ audit' = [audit EXCEPT ![p].at = "save"]
  /\ UNCHANGED <<manual, calibrated, trail, seeds, jumble, leeway>>

SaveBaseline(p) ==
  /\ audit[p].at = "save"
  /\ baseline' = [is |-> "whole", rule |-> audit[p].rule]
  /\ audit' = [audit EXCEPT ![p] = NoAudit]
  /\ UNCHANGED <<manual, calibrated, trail, seeds, jumble, leeway>>

AuditDies(p) ==
  /\ audit[p].at # "none" /\ leeway.deaths > 0
  /\ leeway' = [leeway EXCEPT !.deaths = @ - 1]
  /\ jumble' = (jumble \/ audit[p].at \in Comparing)
  /\ audit' = [audit EXCEPT ![p] = NoAudit]
  /\ UNCHANGED <<manual, calibrated, trail, baseline, seeds>>

ThresholdsNext ==
  \/ Edit
  \/ \E p \in Audits :
       \/ Import(p) \/ Recalibrate(p) \/ Recalibrated(p) \/ Compare(p)
       \/ AppendEntry(p) \/ CutBaseline(p) \/ SaveBaseline(p) \/ AuditDies(p)

ThresholdsSpec == ThresholdsInit /\ [][ThresholdsNext]_thresholdsVars

-----------------------------------------------------------------------------
(* What is promised of a guard                                               *)

\* However far the data drift, no run grades a value better than the hand-set guard
\* did when the run began: calibration may only tighten (insights.py:337-340).
CalibrationTightens ==
  \A p \in Audits : audit[p].rule # NoRule =>
    \A v \in Readings : Level(v, audit[p].rule) >= Level(v, audit[p].hand)

\* A rule becomes the baseline only after an entry said so, or as a first one, however
\* the runs overlap or die; but a baseline left torn hides that a metric was dropped.
BaselineIsOnTrail ==
  baseline.is = "whole" =>
    \/ baseline.rule \in seeds \union {trail[i] : i \in DOMAIN trail}
    \/ baseline.rule = NoRule

\* Who reads the entries in order ends at the baseline (threshold_audit.py:6-8), as
\* long as no two runs compared at once and none died between comparing and saving.
TrailEndsAtBaseline ==
  (baseline.is = "whole" /\ ~jumble /\ \A p \in Audits : audit[p].at \notin Comparing) =>
    IF trail = << >> THEN seeds = {baseline.rule} ELSE trail[Len(trail)] = baseline.rule

ThresholdsInv ==
  /\ ThresholdsTypeOK
  /\ CalibrationTightens /\ BaselineIsOnTrail /\ TrailEndsAtBaseline
=============================================================================
