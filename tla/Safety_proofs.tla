------------------------------ MODULE Safety_proofs ------------------------------
(* Theorems about the parts whose promises are safety alone, each for any values   *)
(* of its constants: calibration and its trail (Thresholds), the cards of a pillar *)
(* (Cards), the patch lanes (PatchReview), the package upgrade (PipUpgrade), what  *)
(* the runs of a skill are worth (Efficacy); and about MCSafety, which puts these, *)
(* the parts of Records_proofs and the installer of Installer_proofs side by side. *)
EXTENDS MCSafety, Records_proofs, Installer_proofs

-----------------------------------------------------------------------------
(* Calibration: no guard gets laxer                                          *)

\* Both limits of a are at least as strict as those of b.
NoLaxer(a, b) == Harm(a.warn) <= Harm(b.warn) /\ Harm(a.fail) <= Harm(b.fail)

\* A run grades by a band no laxer than the hand-set one it has read.
Strict(r) ==
  /\ r.rule \in Rules /\ r.hand \in Rules
  /\ r.rule # NoRule => r.hand # NoRule /\ NoLaxer(r.rule, r.hand)

\* The inductive invariant: what Clamp combines are bands, and no run is laxer.
StrictInv ==
  /\ manual \in Rules /\ calibrated \in Rules
  /\ \A p \in Audits : Strict(audit[p])
  /\ DOMAIN audit = Audits

-----------------------------------------------------------------------------

\* The limits of a band are integers.
LEMMA BandLimits ==
  ASSUME NEW b \in Bands
  PROVE  b.warn \in Int /\ b.fail \in Int /\ Harm(b.warn) \in Int /\ Harm(b.fail) \in Int
         /\ Harm(b.warn) <= Harm(b.fail)
<1>1. b \in [warn : Limits, fail : Limits] /\ Ordered(b)
  BY DEF Bands
<1>2. b.warn \in Int /\ b.fail \in Int
  BY <1>1, ThresholdsAssumption
<1>3. Harm(b.warn) \in Int /\ Harm(b.fail) \in Int
  BY <1>2 DEF Harm
<1> QED
  BY <1>1, <1>2, <1>3 DEF Ordered

\* What a stricter band makes of a value is never better.
LEMMA StricterGradesHarder ==
  ASSUME NEW a \in Bands, NEW b \in Bands, NoLaxer(a, b), NEW v \in Int
  PROVE  Level(v, a) >= Level(v, b)
<1> DEFINE x == Harm(v)
           wa == Harm(a.warn)
           fa == Harm(a.fail)
           wb == Harm(b.warn)
           fb == Harm(b.fail)
<1>1. x \in Int /\ wa \in Int /\ fa \in Int /\ wb \in Int /\ fb \in Int
  BY BandLimits DEF Harm
<1>2. wa <= wb /\ fa <= fb /\ wa <= fa /\ wb <= fb
  BY BandLimits DEF NoLaxer
<1>3. /\ Level(v, a) = IF x <= wa THEN 0 ELSE IF x > fa THEN 4 ELSE IF x = fa THEN 3
                       ELSE IF 3 * x > 2 * fa + wa THEN 2 ELSE 1
      /\ Level(v, b) = IF x <= wb THEN 0 ELSE IF x > fb THEN 4 ELSE IF x = fb THEN 3
                       ELSE IF 3 * x > 2 * fb + wb THEN 2 ELSE 1
  BY DEF Level
<1> HIDE DEF x, wa, fa, wb, fb
<1> QED
  BY <1>1, <1>2, <1>3

\* The tighter of two bands is a band, and laxer than neither.
LEMMA ClampTightens ==
  ASSUME NEW hand \in Bands, NEW cal \in Bands
  PROVE  Clamp(hand, cal) \in Bands /\ NoLaxer(Clamp(hand, cal), hand)
<1>1. Clamp(hand, cal) \in [warn : Limits, fail : Limits]
  BY DEF Clamp, Bands
<1>2. NoLaxer(Clamp(hand, cal), hand)
  BY BandLimits DEF Clamp, NoLaxer
<1>3. Ordered(Clamp(hand, cal))
  <2>1. /\ Harm(hand.warn) <= Harm(hand.fail) /\ Harm(cal.warn) <= Harm(cal.fail)
        /\ Harm(hand.warn) \in Int /\ Harm(hand.fail) \in Int
        /\ Harm(cal.warn) \in Int /\ Harm(cal.fail) \in Int
    BY BandLimits
  <2> QED
    BY <2>1 DEF Clamp, Ordered
<1> QED
  BY <1>1, <1>2, <1>3 DEF Bands

-----------------------------------------------------------------------------

\* No run has begun.
LEMMA InitIsStrict == ThresholdsInit => StrictInv
  BY DEF ThresholdsInit, StrictInv, Strict, NoAudit, Rules

\* A run that takes a step keeps the two rules it holds, or lets go of them.
LEMMA StepKeepsRules ==
  ASSUME StrictInv, NEW p \in Audits, NEW r, audit' = [audit EXCEPT ![p] = r], Strict(r),
         manual' \in Rules, calibrated' \in Rules
  PROVE  StrictInv'
  BY DEF StrictInv, Strict

\* A run is given its rule once, by the clamp.
LEMMA NextIsStrict == StrictInv /\ [ThresholdsNext]_thresholdsVars => StrictInv'
<1> SUFFICES ASSUME StrictInv, [ThresholdsNext]_thresholdsVars
             PROVE  StrictInv'
  OBVIOUS
<1>none. Strict(NoAudit)
  BY DEF Strict, NoAudit, Rules
<1>1. CASE Edit
  BY <1>1 DEF Edit, StrictInv, Strict
<1>2. ASSUME NEW p \in Audits, Import(p)
      PROVE  StrictInv'
  <2> DEFINE r == [at |-> "recalibrate", hand |-> manual,
                   rule |-> IF NoRule \in {manual, calibrated} THEN manual
                            ELSE Clamp(manual, calibrated)]
  <2>1. audit' = [audit EXCEPT ![p] = r] /\ UNCHANGED <<manual, calibrated>>
    BY <1>2 DEF Import
  <2>2. Strict(r)
    <3>1. CASE NoRule \in {manual, calibrated}
      <4>1. r.rule = manual /\ r.hand = manual
        BY <3>1
      <4>2. manual # NoRule => NoLaxer(manual, manual)
        BY BandLimits DEF StrictInv, Rules, NoLaxer
      <4> QED
        BY <4>1, <4>2 DEF Strict, StrictInv
    <3>2. CASE NoRule \notin {manual, calibrated}
      <4>1. manual \in Bands /\ calibrated \in Bands
        BY <3>2 DEF StrictInv, Rules
      <4>2. r.rule = Clamp(manual, calibrated) /\ r.hand = manual
        BY <3>2
      <4> QED
        BY <3>2, <4>1, <4>2, ClampTightens DEF Strict, Rules
    <3> QED
      BY <3>1, <3>2
  <2> QED
    BY <2>1, <2>2, StepKeepsRules DEF StrictInv
<1>3. ASSUME NEW p \in Audits, NEW at, audit' = [audit EXCEPT ![p].at = at],
             manual' \in Rules, calibrated' \in Rules
      PROVE  StrictInv'
  BY <1>3 DEF StrictInv, Strict
<1>4. ASSUME NEW p \in Audits, audit' = [audit EXCEPT ![p] = NoAudit],
             manual' \in Rules, calibrated' \in Rules
      PROVE  StrictInv'
  BY <1>4, <1>none, StepKeepsRules
<1>5. manual \in Rules /\ calibrated \in Rules /\ NoRule \in Rules
  BY DEF StrictInv, Rules
<1>6. ASSUME NEW p \in Audits, Recalibrate(p)
      PROVE  StrictInv'
  BY <1>3, <1>5, <1>6 DEF Recalibrate
<1>7. ASSUME NEW p \in Audits, Recalibrated(p)
      PROVE  StrictInv'
  BY <1>3, <1>5, <1>7 DEF Recalibrated, Rules
<1>8. ASSUME NEW p \in Audits, Compare(p)
      PROVE  StrictInv'
  BY <1>3, <1>5, <1>8 DEF Compare
<1>9. ASSUME NEW p \in Audits, AppendEntry(p)
      PROVE  StrictInv'
  BY <1>3, <1>5, <1>9 DEF AppendEntry
<1>10. ASSUME NEW p \in Audits, CutBaseline(p)
       PROVE  StrictInv'
  BY <1>3, <1>5, <1>10 DEF CutBaseline
<1>11. ASSUME NEW p \in Audits, SaveBaseline(p)
       PROVE  StrictInv'
  BY <1>4, <1>5, <1>11 DEF SaveBaseline
<1>12. ASSUME NEW p \in Audits, AuditDies(p)
       PROVE  StrictInv'
  BY <1>4, <1>5, <1>12 DEF AuditDies
<1>13. CASE UNCHANGED thresholdsVars
  BY <1>13 DEF thresholdsVars, StrictInv, Strict
<1> QED
  BY <1>1, <1>2, <1>6, <1>7, <1>8, <1>9, <1>10, <1>11, <1>12, <1>13 DEF ThresholdsNext

\* A run that is no laxer grades no better.
LEMMA StrictNeverLaxer == StrictInv => CalibrationTightens
<1> SUFFICES ASSUME StrictInv, NEW p \in Audits, audit[p].rule # NoRule, NEW v \in Readings
             PROVE  Level(v, audit[p].rule) >= Level(v, audit[p].hand)
  BY DEF CalibrationTightens
<1>1. audit[p].rule \in Bands /\ audit[p].hand \in Bands
      /\ NoLaxer(audit[p].rule, audit[p].hand)
  BY DEF StrictInv, Strict, Rules
<1>2. v \in Int
  BY ThresholdsAssumption
<1> QED
  BY <1>1, <1>2, StricterGradesHarder

\* No snapshot run, whatever the data say, grades a reading better than the hand-set
\* guard would: calibration may only tighten (insights.py:336-343).
THEOREM OnlyTightens == ThresholdsSpec => []CalibrationTightens
<1>1. ThresholdsInit => StrictInv
  BY InitIsStrict
<1>2. StrictInv /\ [ThresholdsNext]_thresholdsVars => StrictInv'
  BY NextIsStrict
<1>3. StrictInv => CalibrationTightens
  BY StrictNeverLaxer
<1> QED
  BY <1>1, <1>2, <1>3, PTL DEF ThresholdsSpec

-----------------------------------------------------------------------------
(* The trail                                                                 *)

\* What a reader of the trail and of the first baselines knows.
TrailKnows == seeds \union {trail[i] : i \in DOMAIN trail} \union {NoRule}

\* The inductive invariant: a run that is about to save holds a known rule.
TrailInv ==
  /\ trail \in Seq(Rules)
  /\ \A p \in Audits : audit[p].rule \in Rules
  /\ DOMAIN audit = Audits
  /\ baseline.rule \in TrailKnows
  /\ \A p \in Audits : audit[p].at \in {"cut", "save"} => audit[p].rule \in TrailKnows

\* Nothing is written yet.
LEMMA InitIsKnown == ThresholdsInit => TrailInv
  BY DEF ThresholdsInit, TrailInv, NoAudit, Rules, TrailKnows

\* A step of one run that neither adds an entry nor saves.
LEMMA QuietStepIsKnown ==
  ASSUME TrailInv, NEW p \in Audits, NEW r, audit' = [audit EXCEPT ![p] = r],
         r.rule \in Rules, r.at \in {"cut", "save"} => r.rule \in TrailKnows',
         trail' = trail, TrailKnows \subseteq TrailKnows',
         baseline'.rule \in TrailKnows
  PROVE  TrailInv'
  BY DEF TrailInv

\* A rule is shown before it becomes the baseline.
LEMMA NextIsKnown == TrailInv /\ StrictInv /\ [ThresholdsNext]_thresholdsVars => TrailInv'
<1> SUFFICES ASSUME TrailInv, StrictInv, [ThresholdsNext]_thresholdsVars
             PROVE  TrailInv'
  OBVIOUS
<1>know. UNCHANGED <<trail, seeds>> => TrailKnows' = TrailKnows
  BY DEF TrailKnows
<1>none. NoAudit.rule \in Rules /\ NoAudit.at = "none"
  BY DEF NoAudit, Rules
<1>1. CASE Edit
  BY <1>1, <1>know DEF Edit, TrailInv
<1>2. ASSUME NEW p \in Audits, Import(p)
      PROVE  TrailInv'
  <2> DEFINE r == [at |-> "recalibrate", hand |-> manual,
                   rule |-> IF NoRule \in {manual, calibrated} THEN manual
                            ELSE Clamp(manual, calibrated)]
  <2>1. audit' = [audit EXCEPT ![p] = r] /\ UNCHANGED <<trail, seeds, baseline>>
    BY <1>2 DEF Import
  <2>2. r.rule \in Rules /\ r.at = "recalibrate"
    BY ClampTightens DEF StrictInv, Rules
  <2> HIDE DEF r
  <2> QED
    BY <2>1, <2>2, <1>know, QuietStepIsKnown DEF TrailInv
<1>3. ASSUME NEW p \in Audits, Recalibrate(p) \/ Recalibrated(p)
      PROVE  TrailInv'
  <2>1. PICK at \in {"fill", "compare"} : audit' = [audit EXCEPT ![p].at = at]
    BY <1>3 DEF Recalibrate, Recalibrated
  <2>2. UNCHANGED <<trail, seeds, baseline>>
    BY <1>3 DEF Recalibrate, Recalibrated
  <2> QED
    BY <2>1, <2>2, <1>know DEF TrailInv
<1>4. ASSUME NEW p \in Audits, Compare(p)
      PROVE  TrailInv'
  <2>1. UNCHANGED <<trail, baseline>>
    BY <1>4 DEF Compare
  <2>2. TrailKnows \subseteq TrailKnows'
    BY <1>4 DEF Compare, TrailKnows
  <2>3. CASE baseline.is # "absent" /\ Changed(baseline.rule, audit[p].rule)
    <3>1. audit' = [audit EXCEPT ![p].at = "append"]
      BY <1>4, <2>3 DEF Compare
    <3> QED
      BY <3>1, <2>1, <2>2 DEF TrailInv
  <2>4. CASE ~(baseline.is # "absent" /\ Changed(baseline.rule, audit[p].rule))
    <3>1. audit' = [audit EXCEPT ![p].at = "cut"]
      BY <1>4, <2>4 DEF Compare
    <3>2. audit[p].rule \in TrailKnows'
      <4>1. CASE baseline.is = "absent"
        BY <1>4, <4>1 DEF Compare, TrailKnows
      <4>2. CASE baseline.is # "absent"
        BY <2>4, <4>2, <2>2 DEF Changed, TrailInv
      <4> QED
        BY <4>1, <4>2
    <3> QED
      BY <3>1, <3>2, <2>1, <2>2 DEF TrailInv
  <2> QED
    BY <2>3, <2>4
<1>5. ASSUME NEW p \in Audits, AppendEntry(p)
      PROVE  TrailInv'
  <2>1. /\ trail' = Append(trail, audit[p].rule)
        /\ audit' = [audit EXCEPT ![p].at = "cut"]
        /\ UNCHANGED <<seeds, baseline>>
    BY <1>5 DEF AppendEntry
  <2>2. /\ trail' \in Seq(Rules) /\ Len(trail') = Len(trail) + 1
        /\ \A i \in 1 .. Len(trail) : trail'[i] = trail[i]
        /\ trail'[Len(trail) + 1] = audit[p].rule
    BY <2>1 DEF TrailInv
  <2>3. TrailKnows \subseteq TrailKnows' /\ audit[p].rule \in TrailKnows'
    <3>1. Len(trail) \in Nat /\ DOMAIN trail = 1 .. Len(trail)
          /\ DOMAIN trail' = 1 .. Len(trail) + 1
      BY <2>2 DEF TrailInv
    <3>2. ASSUME NEW i \in DOMAIN trail PROVE trail[i] \in TrailKnows'
      <4>1. i \in DOMAIN trail' /\ trail'[i] = trail[i]
        BY <3>1, <2>2
      <4> QED
        BY <4>1 DEF TrailKnows
    <3>3. Len(trail) + 1 \in DOMAIN trail'
      BY <3>1
    <3>4. audit[p].rule \in TrailKnows'
      BY <3>3, <2>2 DEF TrailKnows
    <3>5. seeds \subseteq TrailKnows' /\ NoRule \in TrailKnows'
      BY <2>1 DEF TrailKnows
    <3> QED
      BY <3>2, <3>4, <3>5 DEF TrailKnows
  <2> QED
    BY <2>1, <2>2, <2>3 DEF TrailInv
<1>6. ASSUME NEW p \in Audits, CutBaseline(p)
      PROVE  TrailInv'
  <2>1. /\ audit' = [audit EXCEPT ![p].at = "save"] /\ audit[p].at = "cut"
        /\ baseline'.rule = NoRule /\ UNCHANGED <<trail, seeds>>
    BY <1>6 DEF CutBaseline
  <2>2. TrailKnows' = TrailKnows /\ NoRule \in TrailKnows
    BY <2>1, <1>know DEF TrailKnows
  <2> QED
    BY <2>1, <2>2 DEF TrailInv
<1>7. ASSUME NEW p \in Audits, SaveBaseline(p)
      PROVE  TrailInv'
  <2>1. /\ audit' = [audit EXCEPT ![p] = NoAudit] /\ audit[p].at = "save"
        /\ baseline'.rule = audit[p].rule /\ UNCHANGED <<trail, seeds>>
    BY <1>7 DEF SaveBaseline
  <2> QED
    BY <2>1, <1>know, <1>none DEF TrailInv
<1>8. ASSUME NEW p \in Audits, AuditDies(p)
      PROVE  TrailInv'
  BY <1>8, <1>know, <1>none DEF AuditDies, TrailInv
<1>9. CASE UNCHANGED thresholdsVars
  BY <1>9, <1>know DEF thresholdsVars, TrailInv
<1> QED
  BY <1>1, <1>2, <1>3, <1>4, <1>5, <1>6, <1>7, <1>8, <1>9 DEF ThresholdsNext

\* However snapshot runs overlap and wherever they die, the baseline is never a rule
\* that neither an entry of the trail nor a first baseline has shown.
THEOREM BaselineHasAnEntry == ThresholdsSpec => []BaselineIsOnTrail
<1>1. ThresholdsInit => StrictInv /\ TrailInv
  BY InitIsStrict, InitIsKnown
<1>2. StrictInv /\ TrailInv /\ [ThresholdsNext]_thresholdsVars => StrictInv' /\ TrailInv'
  BY NextIsStrict, NextIsKnown
<1>3. TrailInv => BaselineIsOnTrail
  BY DEF TrailInv, BaselineIsOnTrail, TrailKnows
<1> QED
  BY <1>1, <1>2, <1>3, PTL DEF ThresholdsSpec

-----------------------------------------------------------------------------
(* The end of the trail                                                      *)

AuditRecords ==
  [at : {"none", "recalibrate", "fill", "compare", "append", "cut", "save"},
   hand : Rules, rule : Rules]

\* Who reads the entries in order ends at this rule.
EndsAt(rule) == IF trail = << >> THEN seeds = {rule} ELSE trail[Len(trail)] = rule

\* Between two runs that compare: the trail ends at the baseline, or nothing is written.
Rested ==
  (\A p \in Audits : audit[p].at \notin Comparing) =>
    \/ baseline.is = "absent" /\ trail = << >> /\ seeds = {}
    \/ baseline.is = "whole" /\ EndsAt(baseline.rule)

\* One run compares at a time, and the trail ends at its rule once it has written.
CalmTrail ==
  ~jumble =>
    /\ \A p, q \in Audits : audit[p].at \in Comparing /\ audit[q].at \in Comparing => p = q
    /\ \A p \in Audits : audit[p].at \in {"cut", "save"} => EndsAt(audit[p].rule)
    /\ Rested

ThresholdsIInv == ThresholdsTypeOK /\ CalmTrail

-----------------------------------------------------------------------------

\* The fields of the types.
LEMMA AuditFields ==
  ASSUME ThresholdsTypeOK
  PROVE  /\ audit \in [Audits -> AuditRecords] /\ trail \in Seq(Rules)
         /\ manual \in Rules /\ calibrated \in Rules /\ seeds \subseteq Rules
         /\ jumble \in BOOLEAN /\ NoRule \in Rules
         /\ \A p \in Audits : audit[p].rule \in Rules /\ audit[p].hand \in Rules
                              /\ audit[p] \in AuditRecords
         /\ baseline.is \in {"absent", "torn", "whole"} /\ baseline.rule \in Rules
         /\ leeway.audits \in 0 .. MaxAudits /\ leeway.edits \in 0 .. MaxEdits
         /\ leeway.deaths \in 0 .. MaxDeaths
         /\ leeway \in [audits : 0 .. MaxAudits, edits : 0 .. MaxEdits,
                        deaths : 0 .. MaxDeaths]
         /\ MaxAudits \in Nat /\ MaxEdits \in Nat /\ MaxDeaths \in Nat
BY ThresholdsAssumption DEF ThresholdsTypeOK, AuditRecords, Rules

\* No run is a run that rests.
LEMMA NoAuditIsTyped == NoAudit \in AuditRecords /\ NoAudit.at = "none"
BY DEF NoAudit, AuditRecords, Rules

\* A run that moves keeps its rules.
LEMMA AuditMoves ==
  ASSUME ThresholdsTypeOK, NEW p \in Audits,
         NEW at \in {"none", "recalibrate", "fill", "compare", "append", "cut", "save"},
         audit' = [audit EXCEPT ![p].at = at]
  PROVE  /\ audit' \in [Audits -> AuditRecords]
         /\ audit'[p].at = at /\ audit'[p].rule = audit[p].rule
         /\ \A q \in Audits \ {p} : audit'[q] = audit[q]
<1> DEFINE r == [audit[p] EXCEPT !.at = at]
<1>1. audit[p] \in AuditRecords /\ audit \in [Audits -> AuditRecords]
  BY AuditFields
<1>2. r \in AuditRecords /\ r.at = at /\ r.rule = audit[p].rule
  BY <1>1 DEF AuditRecords
<1>3. audit' = [audit EXCEPT ![p] = r]
  OBVIOUS
<1> HIDE DEF r
<1> QED
  BY <1>1, <1>2, <1>3

\* A run that begins or ends.
LEMMA AuditBecomes ==
  ASSUME ThresholdsTypeOK, NEW p \in Audits, NEW r \in AuditRecords,
         audit' = [audit EXCEPT ![p] = r]
  PROVE  /\ audit' \in [Audits -> AuditRecords] /\ audit'[p] = r
         /\ \A q \in Audits \ {p} : audit'[q] = audit[q]
BY AuditFields

\* The types of the next state.
LEMMA TypesNext ==
  ASSUME ThresholdsTypeOK, audit' \in [Audits -> AuditRecords], manual' \in Rules,
         calibrated' \in Rules, seeds' \subseteq Rules, trail' \in Seq(Rules),
         jumble' \in BOOLEAN,
         baseline' \in [is : {"absent", "torn", "whole"}, rule : Rules],
         leeway' \in [audits : 0 .. MaxAudits, edits : 0 .. MaxEdits,
                      deaths : 0 .. MaxDeaths]
  PROVE  ThresholdsTypeOK'
BY DEF ThresholdsTypeOK, AuditRecords

\* A step of a run that does not compare: the trail and the baseline are as they were.
LEMMA QuietStepIsCalm ==
  ASSUME CalmTrail, NEW p \in Audits, audit[p].at \notin Comparing,
         audit'[p].at \notin Comparing, \A q \in Audits \ {p} : audit'[q] = audit[q],
         UNCHANGED <<trail, baseline, seeds, jumble>>
  PROVE  CalmTrail'
BY DEF CalmTrail, Rested, EndsAt, Comparing

\* Nothing is written yet.
LEMMA ThresholdsStart == ThresholdsInit => ThresholdsIInv
<1> SUFFICES ASSUME ThresholdsInit PROVE ThresholdsIInv
  OBVIOUS
<1>1. audit \in [Audits -> AuditRecords] /\ \A p \in Audits : audit[p].at = "none"
  BY NoAuditIsTyped DEF ThresholdsInit
<1>2. ThresholdsTypeOK
  <2>1. leeway \in [audits : 0 .. MaxAudits, edits : 0 .. MaxEdits, deaths : 0 .. MaxDeaths]
    BY ThresholdsAssumption DEF ThresholdsInit
  <2>2. manual \in Rules /\ calibrated \in Rules /\ NoRule \in Rules
    BY DEF ThresholdsInit, Rules
  <2>3. trail = << >> /\ seeds = {} /\ jumble = FALSE
        /\ baseline = [is |-> "absent", rule |-> NoRule]
    BY DEF ThresholdsInit
  <2>4. trail \in Seq(Rules)
    BY <2>3
  <2>5. baseline \in [is : {"absent", "torn", "whole"}, rule : Rules]
    BY <2>2, <2>3
  <2>6. audit \in [Audits -> [at : {"none", "recalibrate", "fill", "compare", "append",
                                   "cut", "save"}, hand : Rules, rule : Rules]]
    BY <1>1 DEF AuditRecords
  <2> QED
    BY <2>1, <2>2, <2>3, <2>4, <2>5, <2>6 DEF ThresholdsTypeOK
<1>3. CalmTrail
  BY <1>1 DEF ThresholdsInit, CalmTrail, Rested, Comparing
<1> QED
  BY <1>2, <1>3 DEF ThresholdsIInv

\* Step by step, the trail ends where the baseline does.
LEMMA TrailStaysCalm ==
  ASSUME ThresholdsIInv, StrictInv, [ThresholdsNext]_thresholdsVars
  PROVE  ThresholdsIInv'
<1>type. ThresholdsTypeOK /\ CalmTrail
  BY DEF ThresholdsIInv
<1>base. baseline \in [is : {"absent", "torn", "whole"}, rule : Rules]
  BY <1>type DEF ThresholdsTypeOK
<1>1. CASE Edit
  <2>1. leeway' \in [audits : 0 .. MaxAudits, edits : 0 .. MaxEdits, deaths : 0 .. MaxDeaths]
    BY <1>1, <1>type, AuditFields DEF Edit
  <2>2. ThresholdsTypeOK'
    BY <1>1, <2>1, <1>type, <1>base, AuditFields, TypesNext DEF Edit
  <2>3. CalmTrail'
    BY <1>1, <1>type DEF Edit, CalmTrail, Rested, EndsAt
  <2> QED
    BY <2>2, <2>3 DEF ThresholdsIInv
<1>2. ASSUME NEW p \in Audits, Import(p)
      PROVE  ThresholdsIInv'
  <2> DEFINE rule == IF NoRule \in {manual, calibrated} THEN manual
                     ELSE Clamp(manual, calibrated)
             r == [at |-> "recalibrate", hand |-> manual, rule |-> rule]
  <2>1. rule \in Rules
    BY ClampTightens, <1>type, AuditFields DEF Rules
  <2>2. r \in AuditRecords /\ r.at = "recalibrate"
    BY <2>1, <1>type, AuditFields DEF AuditRecords
  <2>3. audit' = [audit EXCEPT ![p] = r] /\ audit[p].at = "none"
        /\ UNCHANGED <<manual, calibrated, trail, baseline, seeds, jumble>>
    BY <1>2 DEF Import
  <2> HIDE DEF r, rule
  <2>4. audit' \in [Audits -> AuditRecords] /\ audit'[p].at = "recalibrate"
        /\ \A q \in Audits \ {p} : audit'[q] = audit[q]
    BY <2>2, <2>3, <1>type, AuditBecomes
  <2>5. leeway' \in [audits : 0 .. MaxAudits, edits : 0 .. MaxEdits, deaths : 0 .. MaxDeaths]
    BY <1>2, <1>type, AuditFields DEF Import
  <2>6. ThresholdsTypeOK'
    BY <2>3, <2>4, <2>5, <1>type, <1>base, AuditFields, TypesNext
  <2>7. CalmTrail'
    BY <2>3, <2>4, <1>type, QuietStepIsCalm DEF Comparing
  <2> QED
    BY <2>6, <2>7 DEF ThresholdsIInv
<1>3. ASSUME NEW p \in Audits, Recalibrate(p) \/ Recalibrated(p)
      PROVE  ThresholdsIInv'
  <2>1. PICK at \in {"fill", "compare"} : audit' = [audit EXCEPT ![p].at = at]
    BY <1>3 DEF Recalibrate, Recalibrated
  <2>2. /\ UNCHANGED <<trail, seeds, baseline, manual, jumble, leeway>>
        /\ audit[p].at \in {"recalibrate", "fill"} /\ calibrated' \in Rules
    BY <1>3 DEF Recalibrate, Recalibrated, Rules
  <2>3. /\ audit' \in [Audits -> AuditRecords] /\ audit'[p].at = at
        /\ \A q \in Audits \ {p} : audit'[q] = audit[q]
    BY <2>1, <1>type, AuditMoves
  <2>4. ThresholdsTypeOK'
    <3>1. leeway' \in [audits : 0 .. MaxAudits, edits : 0 .. MaxEdits,
                       deaths : 0 .. MaxDeaths]
      BY <2>2, <1>type, AuditFields
    <3> QED
      BY <3>1, <2>2, <2>3, <1>type, <1>base, AuditFields, TypesNext
  <2>5. CalmTrail'
    BY <2>2, <2>3, <1>type, QuietStepIsCalm DEF Comparing
  <2> QED
    BY <2>4, <2>5 DEF ThresholdsIInv
<1>4. ASSUME NEW p \in Audits, Compare(p)
      PROVE  ThresholdsIInv'
  <2> DEFINE due == baseline.is # "absent" /\ Changed(baseline.rule, audit[p].rule)
             at == IF due THEN "append" ELSE "cut"
  <2>1. /\ UNCHANGED <<trail, baseline, manual, calibrated, leeway>>
        /\ audit[p].at = "compare" /\ audit' = [audit EXCEPT ![p].at = at]
        /\ seeds' = IF baseline.is = "absent" THEN seeds \union {audit[p].rule} ELSE seeds
        /\ jumble' = (jumble \/ \E q \in Audits \ {p} : audit[q].at \in Comparing)
    BY <1>4 DEF Compare
  <2>2. /\ audit' \in [Audits -> AuditRecords] /\ audit'[p].at = at
        /\ audit'[p].rule = audit[p].rule /\ \A q \in Audits \ {p} : audit'[q] = audit[q]
    <3>1. at \in {"append", "cut"}
      OBVIOUS
    <3> HIDE DEF at
    <3> QED
      BY <3>1, <2>1, <1>type, AuditMoves
  <2>3. ThresholdsTypeOK'
    <3>1. /\ seeds' \subseteq Rules /\ jumble' \in BOOLEAN
          /\ leeway' \in [audits : 0 .. MaxAudits, edits : 0 .. MaxEdits,
                          deaths : 0 .. MaxDeaths]
      BY <2>1, <1>type, AuditFields
    <3> QED
      BY <3>1, <2>1, <2>2, <1>type, <1>base, AuditFields, TypesNext
  <2>4. ASSUME ~jumble'
        PROVE  /\ \A q, s \in Audits :
                    audit'[q].at \in Comparing /\ audit'[s].at \in Comparing => q = s
               /\ \A q \in Audits : audit'[q].at \in {"cut", "save"} => EndsAt(audit[q].rule)'
               /\ Rested'
    <3>1. ~jumble /\ \A q \in Audits \ {p} : audit[q].at \notin Comparing
      BY <2>1, <2>4
    <3>2. \A q \in Audits : audit[q].at \notin Comparing
      BY <3>1, <2>1 DEF Comparing
    <3>3. \/ baseline.is = "absent" /\ trail = << >> /\ seeds = {}
          \/ baseline.is = "whole" /\ EndsAt(baseline.rule)
      BY <3>1, <3>2, <1>type DEF CalmTrail, Rested
    <3>4. ~due => EndsAt(audit[p].rule)'
      <4>1. CASE baseline.is = "absent"
        BY <4>1, <3>3, <2>1, <2>2 DEF EndsAt
      <4>2. CASE baseline.is # "absent"
        BY <4>2, <3>3, <2>1, <2>2 DEF EndsAt, Changed
      <4> QED
        BY <4>1, <4>2
    <3>5. \A q \in Audits \ {p} : audit'[q].at \notin Comparing
      BY <3>1, <2>2
    <3>6. audit'[p].at \in Comparing
      BY <2>2 DEF Comparing
    <3>7. Rested'
      BY <3>6 DEF Rested, Comparing
    <3>8. audit'[p].at \in {"cut", "save"} => ~due
      BY <2>2
    <3> HIDE DEF due, at
    <3>9. ASSUME NEW q \in Audits, audit'[q].at \in {"cut", "save"}
          PROVE  EndsAt(audit[q].rule)'
      <4>1. q = p
        BY <3>5, <3>9 DEF Comparing
      <4> QED
        BY <4>1, <3>4, <3>8, <3>9
    <3> QED
      BY <3>5, <3>7, <3>9
  <2> QED
    BY <2>3, <2>4 DEF ThresholdsIInv, CalmTrail, Comparing
<1>5. ASSUME NEW p \in Audits, AppendEntry(p)
      PROVE  ThresholdsIInv'
  <2>1. /\ trail' = Append(trail, audit[p].rule) /\ audit[p].at = "append"
        /\ audit' = [audit EXCEPT ![p].at = "cut"]
        /\ UNCHANGED <<manual, calibrated, seeds, baseline, jumble, leeway>>
    BY <1>5 DEF AppendEntry
  <2>2. /\ audit' \in [Audits -> AuditRecords] /\ audit'[p].at = "cut"
        /\ audit'[p].rule = audit[p].rule /\ \A q \in Audits \ {p} : audit'[q] = audit[q]
    BY <2>1, <1>type, AuditMoves
  <2>3. trail' \in Seq(Rules) /\ trail' # << >> /\ trail'[Len(trail')] = audit[p].rule
    BY <2>1, <1>type, AuditFields
  <2>4. ThresholdsTypeOK'
    <3>1. leeway' \in [audits : 0 .. MaxAudits, edits : 0 .. MaxEdits,
                       deaths : 0 .. MaxDeaths]
      BY <2>1, <1>type, AuditFields
    <3> QED
      BY <3>1, <2>1, <2>2, <2>3, <1>type, <1>base, AuditFields, TypesNext
  <2>5. EndsAt(audit[p].rule)'
    BY <2>2, <2>3 DEF EndsAt
  <2>6. ASSUME ~jumble
        PROVE  \A q \in Audits \ {p} : audit'[q].at \notin Comparing
    BY <2>1, <2>2, <2>6, <1>type DEF CalmTrail, Comparing
  <2>7. CalmTrail'
    BY <2>1, <2>2, <2>5, <2>6 DEF CalmTrail, Rested, Comparing
  <2> QED
    BY <2>4, <2>7 DEF ThresholdsIInv
<1>6. ASSUME NEW p \in Audits, CutBaseline(p)
      PROVE  ThresholdsIInv'
  <2>1. /\ audit' = [audit EXCEPT ![p].at = "save"] /\ audit[p].at = "cut"
        /\ baseline' = [is |-> "torn", rule |-> NoRule]
        /\ UNCHANGED <<manual, calibrated, trail, seeds, jumble, leeway>>
    BY <1>6 DEF CutBaseline
  <2>2. /\ audit' \in [Audits -> AuditRecords] /\ audit'[p].at = "save"
        /\ audit'[p].rule = audit[p].rule /\ \A q \in Audits \ {p} : audit'[q] = audit[q]
    BY <2>1, <1>type, AuditMoves
  <2>3. ThresholdsTypeOK'
    <3>1. /\ leeway' \in [audits : 0 .. MaxAudits, edits : 0 .. MaxEdits,
                          deaths : 0 .. MaxDeaths]
          /\ baseline' \in [is : {"absent", "torn", "whole"}, rule : Rules]
      BY <2>1, <1>type, AuditFields
    <3> QED
      BY <3>1, <2>1, <2>2, <1>type, AuditFields, TypesNext
  <2>4. ~jumble => EndsAt(audit[p].rule)'
    BY <2>1, <2>2, <1>type DEF CalmTrail, EndsAt
  <2>5. ASSUME ~jumble
        PROVE  \A q \in Audits \ {p} : audit'[q].at \notin Comparing
    BY <2>1, <2>2, <2>5, <1>type DEF CalmTrail, Comparing
  <2>6. CalmTrail'
    BY <2>1, <2>2, <2>4, <2>5 DEF CalmTrail, Rested, Comparing
  <2> QED
    BY <2>3, <2>6 DEF ThresholdsIInv
<1>7. ASSUME NEW p \in Audits, SaveBaseline(p)
      PROVE  ThresholdsIInv'
  <2>1. /\ audit' = [audit EXCEPT ![p] = NoAudit] /\ audit[p].at = "save"
        /\ baseline' = [is |-> "whole", rule |-> audit[p].rule]
        /\ UNCHANGED <<manual, calibrated, trail, seeds, jumble, leeway>>
    BY <1>7 DEF SaveBaseline
  <2>2. /\ audit' \in [Audits -> AuditRecords] /\ audit'[p].at = "none"
        /\ \A q \in Audits \ {p} : audit'[q] = audit[q]
    BY <2>1, <1>type, NoAuditIsTyped, AuditBecomes
  <2>3. ThresholdsTypeOK'
    <3>1. /\ leeway' \in [audits : 0 .. MaxAudits, edits : 0 .. MaxEdits,
                          deaths : 0 .. MaxDeaths]
          /\ baseline' \in [is : {"absent", "torn", "whole"}, rule : Rules]
      BY <2>1, <1>type, AuditFields
    <3> QED
      BY <3>1, <2>1, <2>2, <1>type, AuditFields, TypesNext
  <2>4. baseline'.is = "whole" /\ (~jumble => EndsAt(baseline.rule)')
    BY <2>1, <1>type DEF CalmTrail, EndsAt
  <2>5. ASSUME ~jumble
        PROVE  \A q \in Audits : audit'[q].at \notin Comparing
    BY <2>1, <2>2, <2>5, <1>type DEF CalmTrail, Comparing
  <2>6. CalmTrail'
    BY <2>1, <2>2, <2>4, <2>5 DEF CalmTrail, Rested, Comparing
  <2> QED
    BY <2>3, <2>6 DEF ThresholdsIInv
<1>8. ASSUME NEW p \in Audits, AuditDies(p)
      PROVE  ThresholdsIInv'
  <2>1. /\ audit' = [audit EXCEPT ![p] = NoAudit]
        /\ jumble' = (jumble \/ audit[p].at \in Comparing)
        /\ UNCHANGED <<manual, calibrated, trail, baseline, seeds>>
    BY <1>8 DEF AuditDies
  <2>2. /\ audit' \in [Audits -> AuditRecords] /\ audit'[p].at = "none"
        /\ \A q \in Audits \ {p} : audit'[q] = audit[q]
    BY <2>1, <1>type, NoAuditIsTyped, AuditBecomes
  <2>3. ThresholdsTypeOK'
    <3>1. leeway' \in [audits : 0 .. MaxAudits, edits : 0 .. MaxEdits,
                       deaths : 0 .. MaxDeaths]
      BY <1>8, <1>type, AuditFields DEF AuditDies
    <3>2. jumble' \in BOOLEAN
      BY <2>1
    <3> QED
      BY <3>1, <3>2, <2>1, <2>2, <1>type, <1>base, AuditFields, TypesNext
  <2>4. CASE audit[p].at \in Comparing
    BY <2>1, <2>3, <2>4 DEF CalmTrail, ThresholdsIInv
  <2>5. CASE audit[p].at \notin Comparing
    <3>1. jumble' = jumble
      BY <2>1, <2>5, <1>type, AuditFields
    <3>2. CalmTrail'
      BY <3>1, <2>1, <2>2, <2>5, <1>type, QuietStepIsCalm DEF Comparing
    <3> QED
      BY <2>3, <3>2 DEF ThresholdsIInv
  <2> QED
    BY <2>4, <2>5
<1>9. CASE UNCHANGED thresholdsVars
  BY <1>9, <1>type DEF thresholdsVars, ThresholdsIInv, ThresholdsTypeOK, CalmTrail, Rested,
                       EndsAt
<1> QED
  BY <1>1, <1>2, <1>3, <1>4, <1>5, <1>6, <1>7, <1>8, <1>9 DEF ThresholdsNext

\* For any limits, readings and number of runs: calibration only tightens, a baseline
\* has an entry, and the trail ends at it while runs do not overlap or die as they
\* compare (insights.py, threshold_audit.py).
THEOREM GuardsAreSound == ThresholdsSpec => []ThresholdsInv
<1>1. ThresholdsInit => StrictInv /\ TrailInv /\ ThresholdsIInv
  BY InitIsStrict, InitIsKnown, ThresholdsStart
<1>2. StrictInv /\ TrailInv /\ ThresholdsIInv /\ [ThresholdsNext]_thresholdsVars
        => StrictInv' /\ TrailInv' /\ ThresholdsIInv'
  BY NextIsStrict, NextIsKnown, TrailStaysCalm
<1>3. StrictInv /\ TrailInv /\ ThresholdsIInv => ThresholdsInv
  <2>1. StrictInv => CalibrationTightens
    BY StrictNeverLaxer
  <2>2. TrailInv => BaselineIsOnTrail
    BY DEF TrailInv, BaselineIsOnTrail, TrailKnows
  <2>3. CalmTrail => TrailEndsAtBaseline
    BY DEF CalmTrail, Rested, EndsAt, TrailEndsAtBaseline
  <2> QED
    BY <2>1, <2>2, <2>3 DEF ThresholdsInv, ThresholdsIInv
<1> QED
  BY <1>1, <1>2, <1>3, PTL DEF ThresholdsSpec

-----------------------------------------------------------------------------
(* The cards of a pillar                                                     *)

\* A payload whose cards are those of its readings.
Made(payload) ==
  /\ payload.dispatch = DispatchCards(payload.read, payload.looks)
  /\ payload.advice = AdviceCards(payload.read, payload.looks)

\* A run is judged by two such payloads, and its card was in the first.
RunsAreNoted ==
  /\ Made(posted) /\ Made(cardRun.was)
  /\ cardRun.id # NoRun => cardRun.id \in cardRun.was.dispatch
  /\ verdict.id # NoRun => /\ Made(verdict.was) /\ Made(verdict.now)
                           /\ Improved(verdict.id, verdict.was, verdict.now)

CardsIInv == CardsTypeOK /\ RunsAreNoted

CardsLeft == [moves : 0 .. MaxMoves, runs : 0 .. MaxRuns, crashes : 0 .. MaxEngineDeaths]
Runs == [id : Ids \union {NoRun}, was : Payloads]
CardVerdicts == [id : Ids \union {NoRun}, was : Payloads, now : Payloads]

-----------------------------------------------------------------------------

\* Every metric of the pillar is one of finitely many.
LEMMA FlaggedIsFinite ==
  ASSUME NEW read, NEW g
  PROVE  IsFiniteSet({h \in Flagged(read) : Sooner(read, h, g)})
<1>1. {h \in Flagged(read) : Sooner(read, h, g)} \subseteq Gauges
  BY DEF Flagged
<1> QED
  BY <1>1, CardsAssumption, FS_Subset

\* A metric has its card exactly when it alarms.
LEMMA CardOfAMetric ==
  ASSUME NEW read, NEW looks, NEW g \in Gauges
  PROVE  /\ <<"metric", g>> \in DispatchCards(read, looks)
              <=> g \in Alarming(read, looks) /\ g \in Fixable
         /\ <<"metric", g>> \in AdviceCards(read, looks)
              <=> g \in Alarming(read, looks) /\ g \notin Fixable
<1>1. <<"metric", g>> # Correlation
  BY DEF Correlation
<1> QED
  BY <1>1 DEF DispatchCards, AdviceCards

\* What a refresh posts is a set of cards.
LEMMA CardsAreIds ==
  ASSUME NEW read, NEW looks
  PROVE  DispatchCards(read, looks) \subseteq Ids /\ AdviceCards(read, looks) \subseteq Ids
<1>1. Alarming(read, looks) \subseteq Gauges /\ Heading(read, looks) \subseteq Gauges
  BY DEF Alarming, Heading, TopFlags, Flagged
<1>2. \A g \in Gauges : <<"metric", g>> \in Ids /\ <<"trajectory", g>> \in Ids
  BY DEF Ids, Kinds
<1>3. Correlation \in Ids
  BY DEF Ids
<1> QED
  BY <1>1, <1>2, <1>3 DEF DispatchCards, AdviceCards

\* An empty payload has the cards of no reading.
LEMMA NothingIsMade == NothingPosted \in Payloads /\ Made(NothingPosted)
<1> DEFINE none == [g \in Gauges |-> Dark]
           plain == [g \in Gauges |-> {}]
<1>1. /\ NothingPosted.read = none /\ NothingPosted.looks = plain
      /\ NothingPosted.dispatch = {} /\ NothingPosted.advice = {}
  BY DEF NothingPosted
<1>2. Flagged(none) = {} /\ Alarming(none, plain) = {}
  BY DEF Flagged, Alarming, TopFlags
<1>3. Heading(none, plain) = {}
  BY CardsAssumption DEF Heading
<1>4. ~AllBreach(none)
  <2>1. ASSUME NEW g \in Paired PROVE none[g] \notin 2 .. 4
    BY CardsAssumption
  <2> QED
    BY <2>1 DEF AllBreach
<1>5. none \in [Gauges -> Levels] /\ plain \in [Gauges -> SUBSET {"strange", "soon"}]
  BY DEF Levels
<1>6. NothingPosted \in Payloads
  BY <1>5 DEF NothingPosted, Payloads
<1> HIDE DEF none, plain
<1>7. DispatchCards(none, plain) = {} /\ AdviceCards(none, plain) = {}
  BY <1>2, <1>3, <1>4 DEF DispatchCards, AdviceCards
<1> QED
  BY <1>1, <1>6, <1>7 DEF Made

\* The fields of the types.
LEMMA CardsFields ==
  CardsTypeOK <=>
    /\ level \in [Gauges -> Levels] /\ outlook \in [Gauges -> SUBSET {"strange", "soon"}]
    /\ posted \in Payloads /\ tally \in Tallies /\ kept \in Tallies
    /\ cardRun \in Runs /\ verdict \in CardVerdicts
    /\ cardLeft \in CardsLeft
BY DEF CardsTypeOK, Runs, CardVerdicts, CardsLeft

\* The types of the next state.
LEMMA CardsFieldsNext ==
  ASSUME level' \in [Gauges -> Levels], outlook' \in [Gauges -> SUBSET {"strange", "soon"}],
         posted' \in Payloads, tally' \in Tallies, kept' \in Tallies,
         cardRun' \in Runs, verdict' \in CardVerdicts,
         cardLeft' \in CardsLeft
  PROVE  CardsTypeOK'
BY DEF CardsTypeOK, Runs, CardVerdicts, CardsLeft

\* The fields of a payload.
LEMMA PayloadFields ==
  ASSUME NEW p \in Payloads
  PROVE  /\ p.read \in [Gauges -> Levels] /\ p.looks \in [Gauges -> SUBSET {"strange", "soon"}]
         /\ p.dispatch \subseteq Ids /\ p.advice \subseteq Ids
BY DEF Payloads

\* Who is not under way, or was not judged, is typed.
LEMMA NobodyRuns ==
  /\ Nothing \in Runs /\ Nothing.id = NoRun /\ Nothing.was = NothingPosted
  /\ NoVerdict \in CardVerdicts /\ NoVerdict.id = NoRun
BY NothingIsMade DEF Nothing, NoVerdict, Runs, CardVerdicts

\* A refresh posts the cards of what it reads.
LEMMA PostsFacts ==
  ASSUME CardsTypeOK, Posts
  PROVE  posted' \in Payloads /\ Made(posted')
<1> DEFINE d == DispatchCards(level, outlook)
           a == AdviceCards(level, outlook)
<1>1. d \subseteq Ids /\ a \subseteq Ids
  BY CardsAreIds
<1>2. posted' = [read |-> level, looks |-> outlook, dispatch |-> d, advice |-> a]
  BY DEF Posts
<1>3. Made(posted')
  BY <1>2 DEF Made
<1> HIDE DEF d, a
<1>4. posted' \in Payloads
  BY <1>1, <1>2, CardsFields DEF Payloads
<1> QED
  BY <1>3, <1>4

\* No card is posted, no run is judged.
LEMMA CardsStart == CardsInit => CardsIInv
<1> SUFFICES ASSUME CardsInit PROVE CardsIInv
  OBVIOUS
<1>1. cardLeft \in CardsLeft
  BY CardsAssumption DEF CardsInit, CardsLeft
<1>2. tally \in Tallies /\ kept \in Tallies
  <2>1. Fresh \in [count : 0 .. StuckAfter, stuck : BOOLEAN]
    BY CardsAssumption DEF Fresh
  <2> QED
    BY <2>1 DEF CardsInit, Tallies
<1>3. level \in [Gauges -> Levels] /\ outlook \in [Gauges -> SUBSET {"strange", "soon"}]
  <2>1. {0, 2, 3} \subseteq Levels
    BY DEF Levels
  <2> QED
    BY <2>1 DEF CardsInit
<1>4. CardsTypeOK
  BY <1>1, <1>2, <1>3, CardsFields, NobodyRuns, NothingIsMade DEF CardsInit
<1>5. RunsAreNoted
  BY NobodyRuns, NothingIsMade DEF CardsInit, RunsAreNoted
<1> QED
  BY <1>4, <1>5 DEF CardsIInv

\* A step that neither posts nor judges.
LEMMA QuietStep ==
  ASSUME CardsIInv, UNCHANGED posted,
         level' \in [Gauges -> Levels], outlook' \in [Gauges -> SUBSET {"strange", "soon"}],
         tally' \in Tallies, kept' \in Tallies, cardLeft' \in CardsLeft,
         verdict' = NoVerdict, cardRun' = cardRun \/ cardRun' = Nothing
  PROVE  CardsIInv'
<1>1. CardsTypeOK /\ RunsAreNoted
  BY DEF CardsIInv
<1>2. CardsTypeOK'
  <2>1. cardRun' \in Runs /\ verdict' \in CardVerdicts
    BY <1>1, CardsFields, NobodyRuns
  <2>2. posted' \in Payloads
    BY <1>1, CardsFields
  <2> QED
    BY <2>1, <2>2, CardsFieldsNext
<1>3. RunsAreNoted'
  BY <1>1, NobodyRuns, NothingIsMade DEF RunsAreNoted
<1> QED
  BY <1>2, <1>3 DEF CardsIInv

\* The bounds are counted down.
LEMMA CardsLeftFields ==
  ASSUME cardLeft \in CardsLeft
  PROVE  /\ cardLeft.moves > 0 => [cardLeft EXCEPT !.moves = @ - 1] \in CardsLeft
         /\ cardLeft.runs > 0 => [cardLeft EXCEPT !.runs = @ - 1] \in CardsLeft
         /\ cardLeft.crashes > 0 => [cardLeft EXCEPT !.crashes = @ - 1] \in CardsLeft
BY CardsAssumption DEF CardsLeft

\* What a run did to the loop-breaker's count is a count.
LEMMA CountsAreTyped ==
  ASSUME NEW t \in [count : 0 .. StuckAfter, stuck : BOOLEAN], NEW improved \in BOOLEAN
  PROVE  Counts(t, improved) \in [count : 0 .. StuckAfter, stuck : BOOLEAN]
<1>1. Fresh \in [count : 0 .. StuckAfter, stuck : BOOLEAN]
  BY CardsAssumption DEF Fresh
<1>2. t.count \in 0 .. StuckAfter /\ t.stuck \in BOOLEAN
  OBVIOUS
<1>3. (IF t.count < StuckAfter THEN t.count + 1 ELSE t.count) \in 0 .. StuckAfter
  BY <1>2, CardsAssumption
<1>4. (t.stuck \/ t.count + 1 >= StuckAfter) \in BOOLEAN
  OBVIOUS
<1> QED
  BY <1>1, <1>3, <1>4 DEF Counts

\* The end of a run: the payload of its refresh and that of its start judge it.
LEMMA EndCardStep ==
  ASSUME CardsIInv, NEW ok \in BOOLEAN, EndCard(ok)
  PROVE  CardsIInv'
<1> DEFINE improved == ok /\ Improved(cardRun.id, cardRun.was, posted')
<1>1. CardsTypeOK /\ RunsAreNoted
  BY DEF CardsIInv
<1>2. /\ cardRun.id # NoRun /\ Posts /\ cardRun' = Nothing
      /\ tally' = [tally EXCEPT ![cardRun.id] = Counts(@, improved)]
      /\ verdict' = IF improved
                    THEN [id |-> cardRun.id, was |-> cardRun.was, now |-> posted']
                    ELSE NoVerdict
      /\ UNCHANGED <<level, outlook, kept, cardLeft>>
  BY DEF EndCard
<1>3. posted' \in Payloads /\ Made(posted')
  BY <1>1, <1>2, PostsFacts
<1>4. cardRun.id \in Ids /\ cardRun.was \in Payloads
  BY <1>1, <1>2, CardsFields DEF Runs
<1>5. improved \in BOOLEAN
  BY DEF Improved
<1>6. improved => Improved(cardRun.id, cardRun.was, posted')
  OBVIOUS
<1> HIDE DEF improved
<1>7. tally' \in Tallies
  <2>1. tally[cardRun.id] \in [count : 0 .. StuckAfter, stuck : BOOLEAN]
    BY <1>1, <1>4, CardsFields DEF Tallies
  <2>2. Counts(tally[cardRun.id], improved) \in [count : 0 .. StuckAfter, stuck : BOOLEAN]
    BY <2>1, <1>5, CountsAreTyped
  <2>3. tally \in Tallies
    BY <1>1, CardsFields
  <2> HIDE DEF Counts
  <2> QED
    BY <1>2, <2>2, <2>3 DEF Tallies
<1>8. verdict' \in CardVerdicts
      /\ (verdict'.id # NoRun => /\ verdict'.was = cardRun.was /\ verdict'.now = posted'
                                 /\ verdict'.id = cardRun.id /\ improved)
  <2>1. CASE improved
    BY <2>1, <1>2, <1>3, <1>4 DEF CardVerdicts
  <2>2. CASE ~improved
    BY <2>2, <1>2, NobodyRuns
  <2> QED
    BY <2>1, <2>2
<1>9. CardsTypeOK'
  <2>1. /\ level' \in [Gauges -> Levels] /\ outlook' \in [Gauges -> SUBSET {"strange", "soon"}]
        /\ kept' \in Tallies /\ cardLeft' \in CardsLeft
    BY <1>1, <1>2, CardsFields
  <2> QED
    BY <2>1, <1>2, <1>3, <1>7, <1>8, NobodyRuns, CardsFieldsNext
<1>10. RunsAreNoted'
  BY <1>1, <1>2, <1>3, <1>6, <1>8, NobodyRuns, NothingIsMade DEF RunsAreNoted
<1> QED
  BY <1>9, <1>10 DEF CardsIInv

\* Every step keeps what is known of payloads and runs.
LEMMA CardsStay ==
  ASSUME CardsIInv, [CardsNext]_cardsVars
  PROVE  CardsIInv'
<1>1. CardsTypeOK /\ RunsAreNoted
  BY DEF CardsIInv
<1>2. /\ level \in [Gauges -> Levels] /\ outlook \in [Gauges -> SUBSET {"strange", "soon"}]
      /\ posted \in Payloads /\ tally \in Tallies /\ kept \in Tallies
      /\ cardRun \in Runs /\ verdict \in CardVerdicts
      /\ cardLeft \in CardsLeft
  BY <1>1, CardsFields
<1>3. ASSUME NEW g \in Gauges, MetricMoves(g)
      PROVE  CardsIInv'
  <2>1. level' \in [Gauges -> Levels]
    BY <1>2, <1>3 DEF MetricMoves
  <2>2. outlook' \in [Gauges -> SUBSET {"strange", "soon"}]
    <3>1. CASE UNCHANGED outlook
      BY <3>1, <1>2
    <3>2. ASSUME NEW look \in {"strange", "soon"},
                 outlook' = [outlook EXCEPT ![g] =
                   IF look \in @ THEN @ \ {look} ELSE @ \union {look}]
          PROVE  outlook' \in [Gauges -> SUBSET {"strange", "soon"}]
      BY <3>2, <1>2
    <3> QED
      BY <1>3, <3>1, <3>2 DEF MetricMoves
  <2>3. cardLeft' \in CardsLeft
    BY <1>2, <1>3, CardsLeftFields DEF MetricMoves
  <2> QED
    BY <1>2, <1>3, <2>1, <2>2, <2>3, QuietStep DEF MetricMoves
<1>4. CASE Refreshed
  <2>1. posted' \in Payloads /\ Made(posted')
    BY <1>1, <1>4, PostsFacts DEF Refreshed
  <2>2. verdict' = NoVerdict /\ UNCHANGED <<level, outlook, tally, kept, cardRun, cardLeft>>
    BY <1>4 DEF Refreshed
  <2>3. CardsTypeOK'
    BY <1>2, <2>1, <2>2, NobodyRuns, CardsFieldsNext
  <2>4. RunsAreNoted'
    BY <1>1, <2>1, <2>2, NobodyRuns DEF RunsAreNoted
  <2> QED
    BY <2>3, <2>4 DEF CardsIInv
<1>5. ASSUME NEW i \in Ids, StartCard(i)
      PROVE  CardsIInv'
  <2>1. /\ i \in posted.dispatch /\ cardRun' = [id |-> i, was |-> posted]
        /\ verdict' = NoVerdict /\ UNCHANGED <<level, outlook, posted, tally, kept>>
    BY <1>5 DEF StartCard
  <2>2. cardLeft' \in CardsLeft
    BY <1>2, <1>5, CardsLeftFields DEF StartCard
  <2>3. cardRun' \in Runs /\ cardRun'.id = i /\ cardRun'.was = posted
    BY <1>2, <2>1 DEF Runs
  <2>4. CardsTypeOK'
    BY <1>2, <2>1, <2>2, <2>3, NobodyRuns, CardsFieldsNext
  <2>5. RunsAreNoted'
    BY <1>1, <2>1, <2>3, NobodyRuns DEF RunsAreNoted
  <2> QED
    BY <2>4, <2>5 DEF CardsIInv
<1>6. CASE SaveTally
  BY <1>2, <1>6, QuietStep DEF SaveTally
<1>7. CASE EngineDies
  BY <1>2, <1>7, CardsLeftFields, QuietStep DEF EngineDies
<1>8. ASSUME NEW ids, Unstick(ids)
      PROVE  CardsIInv'
  <2>1. tally' \in Tallies
    <3>1. Fresh \in [count : 0 .. StuckAfter, stuck : BOOLEAN]
      BY CardsAssumption DEF Fresh
    <3> QED
      BY <3>1, <1>2, <1>8 DEF Unstick, Tallies
  <2> QED
    BY <1>2, <1>8, <2>1, QuietStep DEF Unstick
<1>9. CASE UNCHANGED cardsVars
  BY <1>1, <1>9 DEF cardsVars, CardsIInv, CardsTypeOK, RunsAreNoted
<1> QED
  BY <1>3, <1>4, <1>5, <1>6, <1>7, <1>8, <1>9, EndCardStep DEF CardsNext

\* Whose place is hidden behind another's is no worse: who goes sooner it goes sooner
\* everybody of a milder grade.
LEMMA WorstComeFirst ==
  ASSUME CardsTypeOK, Made(posted)
  PROVE  WorstFirst
<1> SUFFICES ASSUME NEW g \in Flagged(posted.read), NEW h \in Flagged(posted.read),
                    <<"metric", g>> \notin posted.dispatch \union posted.advice,
                    <<"metric", h>> \in posted.dispatch \union posted.advice,
                    "strange" \notin posted.looks[h],
                    ~(Grade(posted.read[h]) <= Grade(posted.read[g]))
             PROVE  FALSE
  BY DEF WorstFirst
<1> DEFINE read == posted.read
           looks == posted.looks
           sooner == {k \in Flagged(read) : Sooner(read, k, g)}
           ahead == {k \in Flagged(read) : Sooner(read, k, h)}
<1>1. g \in Gauges /\ h \in Gauges
  BY DEF Flagged
<1>2. g \notin Alarming(read, looks) /\ h \in Alarming(read, looks)
  BY <1>1, CardOfAMetric DEF Made
<1>3. Cardinality(ahead) < Shown /\ ~(Cardinality(sooner) < Shown)
  BY <1>2 DEF Alarming, TopFlags
<1>4. sooner \subseteq ahead
  <2>1. \A k \in Gauges : Grade(read[k]) \in 0 .. 1
    BY DEF Grade
  <2>2. ASSUME NEW k \in sooner PROVE k \in ahead
    <3>1. Grade(read[k]) <= Grade(read[g])
      BY <2>1, <1>1 DEF Sooner, Flagged
    <3>2. Grade(read[k]) < Grade(read[h])
      BY <3>1, <2>1, <1>1 DEF Flagged
    <3> QED
      BY <3>2 DEF Sooner
  <2> QED
    BY <2>2
<1>5. IsFiniteSet(ahead) /\ IsFiniteSet(sooner)
  BY FlaggedIsFinite
<1> HIDE DEF sooner, ahead
<1>6. Cardinality(sooner) <= Cardinality(ahead)
  BY <1>4, <1>5, FS_Subset
<1>7. Cardinality(sooner) \in Nat /\ Cardinality(ahead) \in Nat
  BY <1>5, FS_CardinalityType
<1> QED
  BY <1>3, <1>6, <1>7, CardsAssumption

\* A card that is gone though its metric reads no better made room for another, or its
\* strangeness wore off.
LEMMA CreditsAreForChanges ==
  ASSUME CardsTypeOK, RunsAreNoted
  PROVE  CreditIsForAChange
<1> DEFINE was == verdict.was
           now == verdict.now
<1> SUFFICES ASSUME verdict.id # NoRun
             PROVE  /\ was.read # now.read \/ was.looks # now.looks
                    /\ \A g \in Gauges :
                         (/\ verdict.id = <<"metric", g>> /\ now.read[g] # Dark
                          /\ now.read[g] >= was.read[g] /\ g \in Flagged(was.read))
                         => \/ \E h \in Flagged(now.read) :
                                 /\ Sooner(now.read, h, g)
                                 /\ ~(h \in Flagged(was.read) /\ Sooner(was.read, h, g))
                            \/ "strange" \in was.looks[g] \ now.looks[g]
  BY DEF CreditIsForAChange
<1>1. /\ Made(was) /\ Made(now)
      /\ verdict.id \in was.dispatch /\ verdict.id \notin now.dispatch
  BY DEF RunsAreNoted, Improved
<1>2. was \in Payloads /\ now \in Payloads
  BY CardsFields DEF CardVerdicts
<1> HIDE DEF was, now
<1>3. was.read # now.read \/ was.looks # now.looks
  BY <1>1 DEF Made
<1>4. ASSUME NEW g \in Gauges, verdict.id = <<"metric", g>>, now.read[g] # Dark,
             now.read[g] >= was.read[g], g \in Flagged(was.read),
             ~(\E h \in Flagged(now.read) :
                 /\ Sooner(now.read, h, g)
                 /\ ~(h \in Flagged(was.read) /\ Sooner(was.read, h, g))),
             "strange" \notin was.looks[g] \ now.looks[g]
      PROVE  FALSE
  <2>1. /\ was.read \in [Gauges -> Levels] /\ now.read \in [Gauges -> Levels]
        /\ was.looks \in [Gauges -> SUBSET {"strange", "soon"}]
        /\ now.looks \in [Gauges -> SUBSET {"strange", "soon"}]
    BY <1>2, PayloadFields
  <2>2. g \in Alarming(was.read, was.looks) /\ g \in Fixable
    BY <1>1, <1>4, CardOfAMetric DEF Made
  <2>3. g \notin Alarming(now.read, now.looks)
    BY <1>1, <1>4, <2>2, CardOfAMetric DEF Made
  <2>4. "strange" \notin now.looks[g]
    BY <2>3, <1>4 DEF Alarming
  <2>5. "strange" \notin was.looks[g]
    BY <2>4, <1>4
  <2>6. g \in Flagged(now.read)
    <3>1. was.read[g] # Dark /\ was.read[g] >= 2
      BY <1>4 DEF Flagged
    <3>2. was.read[g] \in 0 .. 4 /\ now.read[g] \in 0 .. 4
      BY <2>1, <3>1, <1>4 DEF Levels
    <3> QED
      BY <3>1, <3>2, <1>4 DEF Flagged
  <2> DEFINE sooner == {h \in Flagged(was.read) : Sooner(was.read, h, g)}
             ahead == {h \in Flagged(now.read) : Sooner(now.read, h, g)}
  <2>7. Cardinality(sooner) < Shown
    BY <2>2, <2>5 DEF Alarming, TopFlags
  <2>8. ~(Cardinality(ahead) < Shown)
    BY <2>3, <2>6 DEF Alarming, TopFlags
  <2>9. ahead \subseteq sooner
    BY <1>4
  <2>10. IsFiniteSet(ahead) /\ IsFiniteSet(sooner)
    BY FlaggedIsFinite
  <2> HIDE DEF sooner, ahead
  <2>11. Cardinality(ahead) <= Cardinality(sooner)
    BY <2>9, <2>10, FS_Subset
  <2>12. Cardinality(sooner) \in Nat /\ Cardinality(ahead) \in Nat
    BY <2>10, FS_CardinalityType
  <2> QED
    BY <2>7, <2>8, <2>11, <2>12, CardsAssumption
<1> QED
  BY <1>3, <1>4

\* For any number of metrics, flags and runs: a run is credited only when something
\* moved, and no breach is shown behind a milder one (insights.py, reflex-engine.ts).
THEOREM CardsAreSound == CardsSpec => []CardsInv
<1>1. CardsIInv => CardsInv
  <2> SUFFICES ASSUME CardsIInv PROVE CardsInv
    OBVIOUS
  <2>1. CardsTypeOK /\ RunsAreNoted /\ Made(posted)
    BY DEF CardsIInv, RunsAreNoted
  <2> QED
    BY <2>1, WorstComeFirst, CreditsAreForChanges DEF CardsInv
<1> QED
  BY <1>1, CardsStart, CardsStay, PTL DEF CardsSpec

-----------------------------------------------------------------------------
(* The way of a patch                                                        *)

Stages == Working \union {"idle"}
LaneRecords == [at : Stages, round : RoundsOfAll, patch : Patches \union {NoPatch}]
Proposing == {"work", "checks", "tests", "stage"}

\* A lane works at a patch of its own, of the round it is in.
LanesAreOn(state) ==
  \A l \in Lanes :
    /\ state[l].round \in 0 .. Rounds[l]
    /\ state[l].at \in {"checks", "tests", "stage"} =>
         state[l].patch \in Patches /\ state[l].patch.lane = l
         /\ state[l].patch.round = state[l].round

\* Of a round that still proposes, nothing is on record.
Old(p, state) ==
  /\ p.round <= state[p.lane].round
  /\ state[p.lane].at \in Proposing => p.round < state[p.lane].round

RecordsAreOld ==
  /\ \A p \in adopted \union refused : Old(p, lane)
  /\ \A n \in Names : pending[n] # NoPatch => Old(pending[n], lane)

\* What is pending has its own name, and nobody objected to it.
PendingIsFine ==
  \A n \in Names : pending[n] # NoPatch =>
    NameOf(pending[n]) = n /\ pending[n] \notin refused

ReviewHasAPatch == review.at # "none" => pending[review.name] # NoPatch

PatchIInv ==
  /\ PatchInv /\ LanesAreOn(lane) /\ RecordsAreOld /\ PendingIsFine /\ ReviewHasAPatch

-----------------------------------------------------------------------------

\* No record of a patch is the one of no patch.
LEMMA NoPatchIsNone == NoPatch \notin Patches
BY DEF NoPatch, Patches

\* The rounds of a lane are rounds.
LEMMA RoundsAreNumbers ==
  /\ RoundsOfAll \subseteq Nat /\ \A l \in Lanes : 0 .. Rounds[l] \subseteq RoundsOfAll
BY PatchAssumption DEF RoundsOfAll

\* The fields of a patch, and its name.
LEMMA PatchIsTyped ==
  ASSUME NEW p \in Patches
  PROVE  /\ p.lane \in Lanes /\ p.round \in RoundsOfAll /\ p.round \in Nat
         /\ p.body \in {"nothing", "code", "barred"} /\ p.strays \in BOOLEAN
         /\ NameOf(p) \in Names
<1>1. p.lane \in Lanes /\ p.round \in RoundsOfAll
      /\ p.body \in {"nothing", "code", "barred"} /\ p.strays \in BOOLEAN
  BY DEF Patches
<1>2. 0 \in RoundsOfAll
  <2>1. 0 \in 0 .. Rounds[p.lane]
    BY <1>1, PatchAssumption
  <2> QED
    BY <1>1, <2>1, RoundsAreNumbers
<1> QED
  BY <1>1, <1>2, RoundsAreNumbers DEF NameOf, Names

\* The fields of a lane.
LEMMA LaneIsTyped ==
  ASSUME NEW r \in LaneRecords
  PROVE  /\ r.at \in Stages /\ r.round \in RoundsOfAll /\ r.round \in Nat
         /\ r.patch \in Patches \union {NoPatch}
BY RoundsAreNumbers DEF LaneRecords

\* The fields of the types.
LEMMA PatchFields ==
  ASSUME PatchTypeOK
  PROVE  /\ lane \in [Lanes -> LaneRecords] /\ stray \in BOOLEAN
         /\ pending \in [Names -> Patches \union {NoPatch}]
         /\ adopted \subseteq Patches /\ refused \subseteq Patches
         /\ review.name \in Names
         /\ review.at \in {"none", "apply", "applied", "reject"}
BY DEF PatchTypeOK, LaneRecords, Stages

\* A review that is over is typed.
LEMMA NoReviewIsTyped ==
  NoReview \in [at : {"none", "apply", "applied", "reject"}, name : Names] /\ NoReview.at = "none"
<1>1. PICK l \in Lanes : TRUE
  BY PatchAssumption
<1>2. 0 \in RoundsOfAll
  <2>1. 0 \in 0 .. Rounds[l]
    BY PatchAssumption
  <2> QED
    BY <2>1, RoundsAreNumbers
<1>3. (CHOOSE n \in Names : TRUE) \in Names
  <2>1. <<l, 0>> \in Names
    BY <1>2 DEF Names
  <2> QED
    BY <2>1
<1> QED
  BY <1>3 DEF NoReview

\* No patch is proposed yet.
LEMMA PatchStarts == PatchInit => PatchIInv
<1> SUFFICES ASSUME PatchInit PROVE PatchIInv
  OBVIOUS
<1>1. /\ \A l \in Lanes : 0 \in 0 .. Rounds[l] /\ 0 \in RoundsOfAll
      /\ NoReview.at = "none"
  <2>1. \A l \in Lanes : 0 \in 0 .. Rounds[l]
    BY PatchAssumption
  <2> QED
    BY <2>1, RoundsAreNumbers, NoReviewIsTyped
<1>2. PatchTypeOK
  BY <1>1, NoReviewIsTyped DEF PatchInit, PatchTypeOK
<1>3. PatchInv
  BY <1>2 DEF PatchInit, PatchInv, RefusedIsNeverApplied, NoPatchVanishes
<1>4. LanesAreOn(lane)
  BY <1>1 DEF LanesAreOn, PatchInit
<1>5. RecordsAreOld /\ PendingIsFine /\ ReviewHasAPatch
  BY <1>1 DEF RecordsAreOld, PendingIsFine, ReviewHasAPatch, PatchInit
<1> QED
  BY <1>3, <1>4, <1>5 DEF PatchIInv

-----------------------------------------------------------------------------
(* The lanes                                                                 *)

\* One lane goes on.
LEMMA LaneTurns ==
  ASSUME PatchIInv, NEW l \in Lanes, NEW r \in LaneRecords,
         lane' = [lane EXCEPT ![l] = r],
         r.round \in 0 .. Rounds[l],
         r.at \in {"checks", "tests", "stage"} =>
           r.patch \in Patches /\ r.patch.lane = l /\ r.patch.round = r.round,
         \/ r.round > lane[l].round
         \/ r.round = lane[l].round /\ (r.at \in Proposing => lane[l].at \in Proposing)
  PROVE  /\ lane' \in [Lanes -> LaneRecords] /\ lane'[l] = r
         /\ \A m \in Lanes \ {l} : lane'[m] = lane[m]
         /\ LanesAreOn(lane')
         /\ \A p \in Patches : Old(p, lane) => Old(p, lane')
<1>1. /\ lane \in [Lanes -> LaneRecords] /\ lane[l].round \in Nat
      /\ LanesAreOn(lane) /\ r.round \in Nat
  BY PatchFields, LaneIsTyped DEF PatchIInv, PatchInv
<1>2. /\ lane' \in [Lanes -> LaneRecords] /\ lane'[l] = r
      /\ \A m \in Lanes \ {l} : lane'[m] = lane[m]
  BY <1>1
<1>3. LanesAreOn(lane')
  BY <1>1, <1>2 DEF LanesAreOn
<1>4. ASSUME NEW p \in Patches, Old(p, lane)
      PROVE  Old(p, lane')
  <2>1. p.lane \in Lanes /\ p.round \in Nat
    BY PatchIsTyped
  <2> QED
    BY <1>1, <1>2, <1>4, <2>1 DEF Old
<1> QED
  BY <1>2, <1>3, <1>4

\* It changes nothing of the records.
LEMMA LaneTurnIsQuiet ==
  ASSUME PatchIInv, NEW l \in Lanes, NEW r \in LaneRecords,
         lane' = [lane EXCEPT ![l] = r],
         r.round \in 0 .. Rounds[l],
         r.at \in {"checks", "tests", "stage"} =>
           r.patch \in Patches /\ r.patch.lane = l /\ r.patch.round = r.round,
         \/ r.round > lane[l].round
         \/ r.round = lane[l].round /\ (r.at \in Proposing => lane[l].at \in Proposing),
         UNCHANGED <<pending, replaced, refused, stray, archived, review, adopted>>
  PROVE  PatchIInv'
<1>0. /\ PatchTypeOK /\ RefusedIsNeverApplied /\ NoPatchVanishes
      /\ RecordsAreOld /\ PendingIsFine /\ ReviewHasAPatch
  BY DEF PatchIInv, PatchInv
<1>1. /\ lane' \in [Lanes -> LaneRecords] /\ LanesAreOn(lane')
      /\ \A p \in Patches : Old(p, lane) => Old(p, lane')
  BY LaneTurns
<1>2. PatchTypeOK'
  BY <1>0, <1>1 DEF PatchTypeOK, LaneRecords, Stages
<1>3. RefusedIsNeverApplied' /\ NoPatchVanishes' /\ PendingIsFine' /\ ReviewHasAPatch'
  BY <1>0 DEF RefusedIsNeverApplied, NoPatchVanishes, PendingIsFine, ReviewHasAPatch
<1>4. RecordsAreOld'
  BY <1>0, <1>1, PatchFields DEF RecordsAreOld
<1>5. LanesAreOn(lane)'
  BY <1>1 DEF LanesAreOn
<1> QED
  BY <1>2, <1>3, <1>4, <1>5 DEF PatchIInv, PatchInv

\* A lane that moves keeps its patch and its round.
LEMMA MovesFacts ==
  ASSUME PatchIInv, NEW l \in Lanes, NEW at \in Stages, Moves(l, at)
  PROVE  \E r \in LaneRecords :
           /\ lane' = [lane EXCEPT ![l] = r]
           /\ r.at = at /\ r.round = lane[l].round /\ r.patch = lane[l].patch
           /\ r.round \in 0 .. Rounds[l]
<1> DEFINE r == [lane[l] EXCEPT !.at = at]
<1>1. lane[l] \in LaneRecords /\ lane[l].round \in 0 .. Rounds[l]
  BY PatchFields DEF PatchIInv, PatchInv, LanesAreOn
<1>2. /\ r \in LaneRecords /\ r.at = at /\ r.round = lane[l].round
      /\ r.patch = lane[l].patch
  BY <1>1 DEF LaneRecords
<1>3. lane' = [lane EXCEPT ![l] = r]
  BY DEF Moves
<1> HIDE DEF r
<1> QED
  BY <1>1, <1>2, <1>3

\* A run begins: its round is new.
LEMMA LaneBeginsStep ==
  ASSUME PatchIInv, NEW l \in Lanes, LaneBegins(l)
  PROVE  PatchIInv'
<1> DEFINE r == [at |-> "work", round |-> lane[l].round + 1, patch |-> NoPatch]
<1>0. /\ lane \in [Lanes -> LaneRecords] /\ lane[l].round \in 0 .. Rounds[l]
  BY PatchFields DEF PatchIInv, PatchInv, LanesAreOn, PatchTypeOK
<1>1. r.round \in 0 .. Rounds[l] /\ r.round > lane[l].round /\ r.at = "work"
  BY <1>0, PatchAssumption DEF LaneBegins
<1>2. r \in LaneRecords
  BY <1>1, RoundsAreNumbers DEF LaneRecords, Stages, Working
<1>3. /\ lane' = [lane EXCEPT ![l] = r]
      /\ UNCHANGED <<pending, replaced, refused, stray, archived, review, adopted>>
  BY DEF LaneBegins, LanesOnly
<1> HIDE DEF r
<1> QED
  BY <1>0, <1>1, <1>2, <1>3, LaneTurnIsQuiet

\* A run without fruit, and one that proposes a patch of its round.
LEMMA RemediatesStep ==
  ASSUME PatchIInv, NEW l \in Lanes, Fruitless(l) \/ Remediates(l)
  PROVE  PatchIInv'
<1>0. /\ lane \in [Lanes -> LaneRecords] /\ lane[l].round \in 0 .. Rounds[l]
      /\ lane[l].at = "work" /\ lane[l] \in LaneRecords /\ stray \in BOOLEAN
  BY PatchFields DEF PatchIInv, PatchInv, LanesAreOn, PatchTypeOK, Fruitless, Remediates
<1>1. /\ UNCHANGED <<pending, replaced, refused, stray, archived, review, adopted>>
  BY DEF Fruitless, Remediates, LanesOnly
<1>2. PICK r \in LaneRecords :
        /\ lane' = [lane EXCEPT ![l] = r]
        /\ r.at \in Working /\ r.round = lane[l].round
        /\ r.at \in {"checks", "tests", "stage"} =>
             r.patch \in Patches /\ r.patch.lane = l /\ r.patch.round = r.round
  <2>1. CASE Fruitless(l)
    <3>1. Moves(l, "sweep") /\ "sweep" \in Stages /\ "sweep" \in Working
      BY <2>1 DEF Fruitless, Stages, Working
    <3>2. PICK r \in LaneRecords :
            /\ lane' = [lane EXCEPT ![l] = r]
            /\ r.at = "sweep" /\ r.round = lane[l].round
      BY <3>1, MovesFacts
    <3> QED
      BY <3>1, <3>2
  <2>2. CASE Remediates(l)
    <3>1. PICK body \in {"nothing", "code", "barred"}, strays \in BOOLEAN :
            lane' = [lane EXCEPT ![l].at = IF l \in Engine THEN "checks" ELSE "tests",
                                 ![l].patch = Diff(l, body, strays)]
      BY <2>2 DEF Remediates
    <3> DEFINE p == Diff(l, body, strays)
               at == IF l \in Engine THEN "checks" ELSE "tests"
               mid == [lane[l] EXCEPT !.at = at]
               r == [mid EXCEPT !.patch = p]
    <3>2. /\ p.lane = l /\ p.round = lane[l].round
          /\ p \in Patches
      <4>1. lane[l].round \in RoundsOfAll
        BY <1>0, RoundsAreNumbers
      <4> QED
        BY <4>1 DEF Diff, Patches
    <3>3. at \in Working /\ at \in Stages
      BY DEF Working, Stages
    <3>4. lane' = [lane EXCEPT ![l] = r]
      BY <3>1
    <3> HIDE DEF p, at
    <3>5. mid \in LaneRecords /\ mid.at = at /\ mid.round = lane[l].round
      BY <1>0, <3>3 DEF LaneRecords
    <3> HIDE DEF mid
    <3>6. r \in LaneRecords /\ r.at = at /\ r.round = lane[l].round /\ r.patch = p
      BY <3>2, <3>5 DEF LaneRecords
    <3> HIDE DEF r
    <3> QED
      BY <3>2, <3>3, <3>4, <3>6
  <2> QED
    BY <2>1, <2>2
<1>3. lane[l].at \in Proposing
  BY <1>0 DEF Proposing
<1> QED
  BY <1>0, <1>1, <1>2, <1>3, LaneTurnIsQuiet

\* The checks and the tests let the patch go on, or object to it, and the round ends.
LEMMA ChecksStep ==
  ASSUME PatchIInv, NEW l \in Lanes, Checks(l) \/ Tests(l)
  PROVE  PatchIInv'
<1> DEFINE p == lane[l].patch
<1>0. /\ lane \in [Lanes -> LaneRecords] /\ LanesAreOn(lane)
      /\ PatchTypeOK /\ RefusedIsNeverApplied /\ NoPatchVanishes
      /\ RecordsAreOld /\ PendingIsFine /\ ReviewHasAPatch
      /\ lane[l].at \in {"checks", "tests"}
      /\ adopted \subseteq Patches /\ refused \subseteq Patches
      /\ pending \in [Names -> Patches \union {NoPatch}]
  BY PatchFields DEF PatchIInv, PatchInv, Checks, Tests
<1>1. /\ UNCHANGED <<pending, replaced, stray, archived, review, adopted>>
  BY DEF Checks, Tests, LanesOnly
<1>2. PICK at \in {"tests", "stage", "sweep"} :
        /\ Moves(l, at)
        /\ \/ refused' = refused
           \/ at = "sweep" /\ refused' = refused \union {p}
  <2>1. CASE Checks(l)
    <3>1. PICK word \in Verdicts :
            /\ Moves(l, IF Passes(p, word) THEN "tests" ELSE "sweep")
            /\ refused' = IF Objection(p, word) THEN refused \union {p} ELSE refused
      BY <2>1 DEF Checks
    <3>2. Passes(p, word) => ~Objection(p, word)
      BY DEF Passes, Objection
    <3> QED
      BY <3>1, <3>2
  <2>2. CASE Tests(l)
    BY <2>2 DEF Tests
  <2> QED
    BY <2>1, <2>2
<1>3. p \in Patches /\ p.lane = l /\ p.round = lane[l].round /\ p.round \in Nat
  BY <1>0, PatchIsTyped DEF LanesAreOn
<1>4. at \in Stages /\ at \in Working
  BY DEF Stages, Working
<1>5. PICK r \in LaneRecords :
        /\ lane' = [lane EXCEPT ![l] = r]
        /\ r.at = at /\ r.round = lane[l].round /\ r.patch = p
        /\ r.round \in 0 .. Rounds[l]
  BY <1>2, <1>4, MovesFacts
<1>6. /\ lane' \in [Lanes -> LaneRecords] /\ LanesAreOn(lane') /\ lane'[l] = r
      /\ \A m \in Lanes \ {l} : lane'[m] = lane[m]
      /\ \A q \in Patches : Old(q, lane) => Old(q, lane')
  BY <1>0, <1>3, <1>5, LaneTurns DEF Proposing
<1>7. p \notin adopted /\ p \notin refused /\ \A n \in Names : pending[n] # p
  <2>1. ~Old(p, lane)
    BY <1>0, <1>3 DEF Old, Proposing
  <2>2. p # NoPatch
    BY <1>3, NoPatchIsNone
  <2> QED
    BY <2>1, <2>2, <1>0 DEF RecordsAreOld
<1>8. PatchTypeOK'
  BY <1>0, <1>1, <1>2, <1>3, <1>6 DEF PatchTypeOK, LaneRecords, Stages
<1>9. RefusedIsNeverApplied' /\ NoPatchVanishes' /\ PendingIsFine' /\ ReviewHasAPatch'
  BY <1>0, <1>1, <1>2, <1>7
     DEF RefusedIsNeverApplied, NoPatchVanishes, PendingIsFine, ReviewHasAPatch
<1>10. RecordsAreOld'
  <2>1. at = "sweep" => Old(p, lane')
    BY <1>3, <1>5, <1>6 DEF Old, Proposing
  <2> QED
    BY <1>0, <1>1, <1>2, <1>6, <2>1 DEF RecordsAreOld
<1>11. LanesAreOn(lane)'
  BY <1>6 DEF LanesAreOn
<1> QED
  BY <1>8, <1>9, <1>10, <1>11 DEF PatchIInv, PatchInv

\* The patch is staged: it has no objection against it, and what it replaces is kept.
LEMMA StageStep ==
  ASSUME PatchIInv, NEW l \in Lanes, Stage(l)
  PROVE  PatchIInv'
<1> DEFINE p == lane[l].patch
           n == NameOf(p)
<1>0. /\ lane \in [Lanes -> LaneRecords] /\ LanesAreOn(lane)
      /\ PatchTypeOK /\ RefusedIsNeverApplied /\ NoPatchVanishes
      /\ RecordsAreOld /\ PendingIsFine /\ ReviewHasAPatch
      /\ lane[l].at = "stage" /\ Moves(l, "sweep")
      /\ adopted \subseteq Patches /\ refused \subseteq Patches
      /\ pending \in [Names -> Patches \union {NoPatch}]
  BY PatchFields DEF PatchIInv, PatchInv, Stage
<1>1. /\ UNCHANGED <<refused, stray, archived, review, adopted>>
  BY DEF Stage, LanesOnly
<1>2. \/ UNCHANGED <<pending, replaced>>
      \/ /\ pending' = [pending EXCEPT ![n] = p]
         /\ replaced' = IF pending[n] = NoPatch THEN replaced
                        ELSE replaced \union {pending[n]}
  BY DEF Stage
<1>3. p \in Patches /\ p.lane = l /\ p.round = lane[l].round /\ p.round \in Nat /\ n \in Names
  BY <1>0, PatchIsTyped DEF LanesAreOn
<1>4. "sweep" \in Stages /\ "sweep" \in Working
  BY DEF Stages, Working
<1>5. PICK r \in LaneRecords :
        /\ lane' = [lane EXCEPT ![l] = r]
        /\ r.at = "sweep" /\ r.round = lane[l].round /\ r.patch = p
        /\ r.round \in 0 .. Rounds[l]
  BY <1>0, <1>4, MovesFacts
<1>6. /\ lane' \in [Lanes -> LaneRecords] /\ LanesAreOn(lane') /\ lane'[l] = r
      /\ \A m \in Lanes \ {l} : lane'[m] = lane[m]
      /\ \A q \in Patches : Old(q, lane) => Old(q, lane')
  BY <1>0, <1>3, <1>5, LaneTurns DEF Proposing
<1>7. p \notin refused /\ p # NoPatch
  <2>1. ~Old(p, lane)
    BY <1>0, <1>3 DEF Old, Proposing
  <2> QED
    BY <2>1, <1>0, <1>3, NoPatchIsNone DEF RecordsAreOld
<1>8. /\ pending' \in [Names -> Patches \union {NoPatch}] /\ replaced' \subseteq Patches
      /\ \A m \in Names : pending'[m] = pending[m] \/ (m = n /\ pending'[m] = p)
      /\ \A m \in Names : pending'[m] # pending[m] /\ pending[m] # NoPatch =>
           pending[m] \in replaced'
      /\ replaced \subseteq replaced'
  BY <1>0, <1>2, <1>3, <1>7 DEF PatchTypeOK
<1> HIDE DEF p, n
<1>9. PatchTypeOK'
  BY <1>0, <1>1, <1>6, <1>8 DEF PatchTypeOK, LaneRecords, Stages
<1>10. n = NameOf(p)
  BY DEF n
<1>11. RefusedIsNeverApplied' /\ PendingIsFine' /\ ReviewHasAPatch'
  BY <1>0, <1>1, <1>7, <1>8, <1>10, PatchFields
     DEF RefusedIsNeverApplied, PendingIsFine, ReviewHasAPatch
<1>12. NoPatchVanishes'
  <2> SUFFICES ASSUME NEW q \in adopted
               PROVE  \/ pending'[NameOf(q)] = q
                      \/ \E dir \in {"applied", "rejected"} : <<dir, q>> \in archived
                      \/ q \in replaced'
    BY <1>1 DEF NoPatchVanishes
  <2>1. q \in Patches /\ NameOf(q) \in Names /\ q # NoPatch
    BY <1>0, PatchIsTyped, NoPatchIsNone
  <2> QED
    BY <1>0, <1>8, <2>1 DEF NoPatchVanishes
<1>13. RecordsAreOld'
  <2>1. Old(p, lane')
    BY <1>3, <1>5, <1>6 DEF Old, Proposing
  <2> QED
    BY <1>0, <1>1, <1>6, <1>8, <2>1 DEF RecordsAreOld
<1>14. LanesAreOn(lane)'
  BY <1>6 DEF LanesAreOn
<1> QED
  BY <1>9, <1>11, <1>12, <1>13, <1>14 DEF PatchIInv, PatchInv

\* A run ends, swept or killed.
LEMMA LaneEndsStep ==
  ASSUME PatchIInv, NEW l \in Lanes, Sweep(l) \/ LaneDies(l)
  PROVE  PatchIInv'
<1>0. /\ lane \in [Lanes -> LaneRecords] /\ lane[l].round \in 0 .. Rounds[l]
      /\ lane[l] \in LaneRecords
  BY PatchFields DEF PatchIInv, PatchInv, LanesAreOn, PatchTypeOK
<1>1. /\ lane' = [lane EXCEPT ![l].at = "idle", ![l].patch = NoPatch]
      /\ UNCHANGED <<pending, replaced, refused, stray, archived, review, adopted>>
  BY DEF Sweep, LaneDies, LanesOnly
<1> DEFINE mid == [lane[l] EXCEPT !.at = "idle"]
           r == [mid EXCEPT !.patch = NoPatch]
<1>2. mid \in LaneRecords /\ mid.at = "idle" /\ mid.round = lane[l].round
  BY <1>0 DEF LaneRecords, Stages
<1>3. lane' = [lane EXCEPT ![l] = r]
  BY <1>1
<1> HIDE DEF mid
<1>4. r \in LaneRecords /\ r.at = "idle" /\ r.round = lane[l].round
  BY <1>2 DEF LaneRecords
<1> HIDE DEF r
<1>5. r.at \notin Proposing /\ r.at \notin {"checks", "tests", "stage"}
  BY <1>4 DEF Proposing
<1> QED
  BY <1>0, <1>1, <1>3, <1>4, <1>5, LaneTurnIsQuiet

-----------------------------------------------------------------------------
(* The review                                                                *)

\* What a step of the review leaves as it is.
LEMMA ReviewFrame ==
  ASSUME PatchIInv, ReviewOnly, adopted' \subseteq Patches,
         RefusedIsNeverApplied', NoPatchVanishes', PendingIsFine', ReviewHasAPatch',
         pending' \in [Names -> Patches \union {NoPatch}],
         archived' \subseteq ({"applied", "rejected"} \X Patches),
         review' \in [at : {"none", "apply", "applied", "reject"}, name : Names],
         \A p \in adopted' : Old(p, lane),
         \A n \in Names : pending'[n] # NoPatch => Old(pending'[n], lane)
  PROVE  PatchIInv'
<1>0. /\ PatchTypeOK /\ LanesAreOn(lane) /\ RecordsAreOld
      /\ UNCHANGED <<stray, lane, replaced, refused>>
  BY DEF PatchIInv, PatchInv, ReviewOnly
<1>1. PatchTypeOK'
  BY <1>0 DEF PatchTypeOK
<1>2. LanesAreOn(lane)' /\ RecordsAreOld'
  BY <1>0 DEF LanesAreOn, RecordsAreOld, Old
<1> QED
  BY <1>1, <1>2 DEF PatchIInv, PatchInv

\* The review shows, applies, archives and refuses.
LEMMA ReviewStep ==
  ASSUME PatchIInv, GitApply \/ Archive \/ ReviewCrashes \/ \E n \in Names : Picks(n)
  PROVE  PatchIInv'
<1>0. /\ PatchTypeOK /\ RefusedIsNeverApplied /\ NoPatchVanishes
      /\ RecordsAreOld /\ PendingIsFine /\ ReviewHasAPatch
      /\ adopted \subseteq Patches /\ refused \subseteq Patches
      /\ pending \in [Names -> Patches \union {NoPatch}]
      /\ review \in [at : {"none", "apply", "applied", "reject"}, name : Names]
      /\ review.name \in Names
      /\ archived \subseteq ({"applied", "rejected"} \X Patches)
  BY PatchFields DEF PatchIInv, PatchInv, PatchTypeOK
<1>1. CASE \E n \in Names : Picks(n)
  <2>1. PICK n \in Names, at \in {"apply", "reject"} :
          /\ pending[n] # NoPatch /\ review' = [at |-> at, name |-> n]
          /\ UNCHANGED <<pending, archived, adopted>> /\ ReviewOnly
    BY <1>1 DEF Picks
  <2>2. RefusedIsNeverApplied' /\ NoPatchVanishes' /\ PendingIsFine' /\ ReviewHasAPatch'
    BY <1>0, <2>1 DEF RefusedIsNeverApplied, NoPatchVanishes, PendingIsFine,
                      ReviewHasAPatch, ReviewOnly
  <2> QED
    BY <1>0, <2>1, <2>2, ReviewFrame DEF RecordsAreOld
<1>2. CASE ReviewCrashes \/ (review' = NoReview /\ UNCHANGED <<pending, archived, adopted>> /\ ReviewOnly)
  <2>1. review' = NoReview /\ UNCHANGED <<pending, archived, adopted>> /\ ReviewOnly
    BY <1>2 DEF ReviewCrashes
  <2>2. RefusedIsNeverApplied' /\ NoPatchVanishes' /\ PendingIsFine' /\ ReviewHasAPatch'
    BY <1>0, <2>1, NoReviewIsTyped DEF RefusedIsNeverApplied, NoPatchVanishes, PendingIsFine,
                      ReviewHasAPatch, ReviewOnly
  <2> QED
    BY <1>0, <2>1, <2>2, ReviewFrame, NoReviewIsTyped DEF RecordsAreOld
<1>3. CASE GitApply
  <2> DEFINE p == pending[review.name]
  <2>1. CASE /\ adopted' = adopted \union {p} /\ review' = [review EXCEPT !.at = "applied"]
             /\ UNCHANGED <<pending, archived>> /\ ReviewOnly /\ review.at = "apply"
    <3>1. /\ review' \in [at : {"none", "apply", "applied", "reject"}, name : Names]
          /\ review'.name = review.name
      BY <1>0, <2>1
    <3>2. p # NoPatch /\ p \in Patches /\ NameOf(p) = review.name /\ p \notin refused
      BY <1>0, <2>1 DEF ReviewHasAPatch, PendingIsFine
    <3>3. RefusedIsNeverApplied' /\ NoPatchVanishes' /\ PendingIsFine' /\ ReviewHasAPatch'
      BY <1>0, <2>1, <3>1, <3>2 DEF RefusedIsNeverApplied, NoPatchVanishes, PendingIsFine,
                        ReviewHasAPatch, ReviewOnly
    <3> QED
      BY <1>0, <2>1, <3>1, <3>2, <3>3, ReviewFrame DEF RecordsAreOld
  <2> QED
    BY <1>2, <1>3, <2>1 DEF GitApply
<1>4. CASE Archive
  <2> DEFINE n == review.name
             p == pending[n]
             dir == IF review.at = "reject" THEN "rejected" ELSE "applied"
  <2>1. /\ archived' = archived \union {<<dir, p>>} /\ pending' = [pending EXCEPT ![n] = NoPatch]
        /\ review' = NoReview /\ adopted' = adopted /\ ReviewOnly /\ review.at # "none"
    BY <1>4 DEF Archive, Keeps
  <2>2. p # NoPatch /\ p \in Patches /\ NameOf(p) = n
    BY <1>0, <2>1 DEF ReviewHasAPatch, PendingIsFine
  <2>3. dir \in {"applied", "rejected"}
    OBVIOUS
  <2> HIDE DEF dir
  <2>4. /\ pending' \in [Names -> Patches \union {NoPatch}]
        /\ \A m \in Names : pending'[m] # NoPatch => pending'[m] = pending[m]
        /\ \A m \in Names \ {n} : pending'[m] = pending[m]
    BY <1>0, <2>1
  <2>5. NoPatchVanishes'
    <3> SUFFICES ASSUME NEW q \in adopted
                 PROVE  \/ pending'[NameOf(q)] = q
                        \/ \E d \in {"applied", "rejected"} : <<d, q>> \in archived'
                        \/ q \in replaced
      BY <2>1 DEF NoPatchVanishes, ReviewOnly
    <3>1. NameOf(q) \in Names
      BY <1>0, PatchIsTyped
    <3>2. CASE NameOf(q) = n /\ pending[n] = q
      BY <2>1, <2>3, <3>2
    <3>3. CASE ~(NameOf(q) = n /\ pending[n] = q)
      BY <1>0, <2>1, <2>4, <3>1, <3>3 DEF NoPatchVanishes
    <3> QED
      BY <3>2, <3>3
  <2>6. RefusedIsNeverApplied' /\ PendingIsFine' /\ ReviewHasAPatch'
    BY <1>0, <2>1, <2>4, NoReviewIsTyped
       DEF RefusedIsNeverApplied, PendingIsFine, ReviewHasAPatch, ReviewOnly
  <2>7. archived' \subseteq ({"applied", "rejected"} \X Patches)
    BY <1>0, <2>1, <2>2, <2>3
  <2> QED
    BY <1>0, <2>1, <2>4, <2>5, <2>6, <2>7, NoReviewIsTyped, ReviewFrame DEF RecordsAreOld
<1> QED
  BY <1>1, <1>2, <1>3, <1>4

\* Every step keeps what is known of lanes, patches and reviews.
LEMMA PatchStays ==
  ASSUME PatchIInv, [PatchNext]_patchVars
  PROVE  PatchIInv'
<1>1. CASE PatchNext
  BY <1>1, LaneBeginsStep, RemediatesStep, ChecksStep, StageStep, LaneEndsStep, ReviewStep
     DEF PatchNext
<1>2. CASE UNCHANGED patchVars
  BY <1>2 DEF patchVars, PatchIInv, PatchInv, PatchTypeOK, RefusedIsNeverApplied,
              NoPatchVanishes, LanesAreOn, RecordsAreOld, Old,
              PendingIsFine, ReviewHasAPatch
<1> QED
  BY <1>1, <1>2

\* With any number of lanes and rounds: what the checks, the model or the tests object
\* to never reaches the operator's tree, and an adopted patch stays on record
\* (worktree_patch_runner.py, review_pending_patch.py, reflex-engine.ts).
THEOREM PatchesAreSound == PatchSpec => []PatchInv
<1>1. PatchIInv => PatchInv
  BY DEF PatchIInv
<1> QED
  BY <1>1, PatchStarts, PatchStays, PTL DEF PatchSpec

-----------------------------------------------------------------------------
(* The package upgrade                                                       *)

Steps == [at : {"next", "upgrade", "audit", "rollback", "over"},
          on : Packages, prev : 0 .. MaxVersion]
Busy == step.at \in {"upgrade", "audit", "rollback"}

\* The package at hand is the next one; its dry-run took nothing back.
OneIsAtHand ==
  /\ Busy => IsNext(step.on)
  /\ step.at = "upgrade" /\ pip.lists => ~Downgrades(step.on)

\* Who is condemned has failed, or is about to.
CondemnedFail ==
  /\ step.at = "rollback" => step.on \in condemned
  /\ \A p \in condemned : report[p] = "failed" \/ (step.at = "rollback" /\ step.on = p)

PipIInv == PipInv /\ OneIsAtHand /\ CondemnedFail

-----------------------------------------------------------------------------

\* A run with no package at hand is typed.
LEMMA IdleIsTyped ==
  ASSUME NEW at \in {"next", "over"}
  PROVE  Idle(at) \in Steps /\ Idle(at).at = at
<1>1. (CHOOSE p \in Packages : TRUE) \in Packages
  <2>1. PICK p \in Packages : TRUE
    BY PipAssumption
  <2> QED
    BY <2>1
<1> QED
  BY <1>1, PipAssumption DEF Idle, Steps

\* The fields of the types.
LEMMA StepFields ==
  ASSUME PipTypeOK
  PROVE  /\ step \in Steps /\ step.on \in Packages /\ step.prev \in Nat
         /\ step.at \in {"next", "upgrade", "audit", "rollback", "over"}
         /\ step.prev \in 0 .. MaxVersion
         /\ before \in Versions /\ version \in Versions
         /\ report \in [Packages -> Buckets] /\ target \in [Packages -> Versions]
         /\ pip.lists \in BOOLEAN /\ pip.all \in BOOLEAN /\ pip.ml \in BOOLEAN
         /\ pip.apply \in BOOLEAN /\ condemned \subseteq Packages
BY PipAssumption DEF PipTypeOK, Steps

\* A version is a number.
LEMMA VersionsAreNumbers ==
  ASSUME NEW v \in Versions, NEW p \in Packages
  PROVE  v[p] \in 0 .. MaxVersion /\ v[p] \in Nat
BY PipAssumption DEF Versions

\* No package has had its turn.
LEMMA PipStarts == PipInit => PipIInv
<1> SUFFICES ASSUME PipInit PROVE PipIInv
  OBVIOUS
<1>1. step = Idle("next") /\ step \in Steps /\ step.at = "next"
  BY IdleIsTyped DEF PipInit
<1>2. PipTypeOK
  BY <1>1 DEF PipInit, PipTypeOK, Steps, Buckets
<1>3. CondemnedIsNotApplied /\ RiskFirst
  BY DEF PipInit, CondemnedIsNotApplied, RiskFirst
<1>4. NothingGoesBack
  <2>1. before \in Versions /\ version = before
    BY DEF PipInit
  <2>2. ASSUME NEW p \in Packages
        PROVE  version[p] >= before[p]
    <3>1. before[p] \in Nat /\ version[p] = before[p]
      BY <2>1, VersionsAreNumbers
    <3> QED
      BY <3>1
  <2> QED
    BY <2>2 DEF NothingGoesBack
<1>5. OneIsAtHand /\ CondemnedFail
  BY <1>1 DEF OneIsAtHand, CondemnedFail, PipInit, Busy
<1> QED
  BY <1>2, <1>3, <1>4, <1>5 DEF PipIInv, PipInv

\* The next package goes into its bucket: nothing more at risk still waits.
LEMMA IntoFacts ==
  ASSUME PipIInv, NEW p \in Packages, NEW bucket \in Buckets \ {"none"},
         IsNext(p), Into(p, bucket)
  PROVE  /\ report' \in [Packages -> Buckets] /\ step' \in Steps /\ step'.at = "next"
         /\ report'[p] = bucket /\ \A q \in Packages \ {p} : report'[q] = report[q]
         /\ report[p] = "none" /\ RiskFirst'
<1>1. /\ report \in [Packages -> Buckets] /\ RiskFirst /\ pip.all \in BOOLEAN
  BY StepFields DEF PipIInv, PipInv
<1>2. /\ report' = [report EXCEPT ![p] = bucket] /\ step' \in Steps /\ step'.at = "next"
  BY IdleIsTyped DEF Into
<1>3. /\ report' \in [Packages -> Buckets]
      /\ report'[p] = bucket /\ \A q \in Packages \ {p} : report'[q] = report[q]
  BY <1>1, <1>2
<1>4. report[p] = "none"
  BY DEF IsNext, Waiting
<1>5. ASSUME NEW q \in Packages, Risk[q] < Risk[p]
      PROVE  report[q] # "none"
  <2>1. q \notin Waiting
    BY <1>5, PipAssumption DEF IsNext
  <2>2. Risk[q] < 3
    BY <1>5, PipAssumption
  <2> QED
    BY <2>1, <2>2 DEF Waiting
<1>6. RiskFirst'
  <2> SUFFICES ASSUME NEW a \in Packages, NEW b \in Packages,
                      Risk[a] < Risk[b], report'[b] # "none"
               PROVE  report'[a] # "none"
    BY DEF RiskFirst
  <2>1. CASE a = p
    BY <1>3, <2>1
  <2>2. CASE a # p /\ b = p
    BY <1>3, <1>5, <2>2
  <2>3. CASE a # p /\ b # p
    BY <1>1, <1>3, <2>3 DEF RiskFirst
  <2> QED
    BY <2>1, <2>2, <2>3
<1> QED
  BY <1>2, <1>3, <1>4, <1>6

\* A step that puts a package aside: the versions and the condemned stay as they are.
LEMMA IntoKeeps ==
  ASSUME PipIInv, NEW p \in Packages, NEW bucket \in Buckets \ {"none"},
         IsNext(p), Into(p, bucket), condemned' = condemned, version' \in Versions,
         p \in condemned => bucket # "applied",
         NothingGoesBack',
         \A q \in condemned : q # p => report[q] = "failed",
         p \in condemned => bucket = "failed",
         UNCHANGED <<pip, target, before>>
  PROVE  PipIInv'
<1>0. /\ PipTypeOK /\ CondemnedIsNotApplied /\ NothingGoesBack /\ CondemnedFail
      /\ condemned \subseteq Packages
  BY StepFields DEF PipIInv, PipInv
<1>1. /\ report' \in [Packages -> Buckets] /\ step' \in Steps /\ step'.at = "next"
      /\ report'[p] = bucket /\ \A q \in Packages \ {p} : report'[q] = report[q]
      /\ report[p] = "none" /\ RiskFirst'
  BY IntoFacts
<1>2. PipTypeOK'
  BY <1>0, <1>1 DEF PipTypeOK, Steps
<1>3. CondemnedIsNotApplied'
  BY <1>0, <1>1 DEF CondemnedIsNotApplied
<1>4. OneIsAtHand'
  BY <1>1 DEF OneIsAtHand, Busy
<1>5. CondemnedFail'
  BY <1>0, <1>1 DEF CondemnedFail
<1> QED
  BY <1>1, <1>2, <1>3, <1>4, <1>5 DEF PipIInv, PipInv

-----------------------------------------------------------------------------
(* The steps                                                                 *)

\* Nothing condemned waits, before and between the packages.
LEMMA NextIsNotCondemned ==
  ASSUME PipIInv, NEW p \in Packages, IsNext(p), step.at # "rollback"
  PROVE  p \notin condemned /\ \A q \in condemned : report[q] = "failed"
BY StepFields DEF PipIInv, PipInv, CondemnedFail, IsNext, Waiting

\* No package older than it was, as long as none was condemned.
LEMMA NothingWentBack ==
  ASSUME PipIInv
  PROVE  /\ version \in Versions /\ before \in Versions
         /\ pip.lists /\ condemned = {} => \A q \in Packages : version[q] >= before[q]
BY StepFields DEF PipIInv, PipInv, NothingGoesBack

\* A package that needs no upgrade, or whose dry-run ends it.
LEMMA SettledStep ==
  ASSUME PipIInv, NEW p \in Packages, Settled(p) \/ DryRun(p), report' # report
  PROVE  PipIInv'
<1>1. PICK bucket \in {"skipped", "blocked", "applied"} : Into(p, bucket)
  BY DEF Settled, DryRun
<1>2. /\ IsNext(p) /\ step.at = "next"
      /\ UNCHANGED <<pip, target, before, version, condemned>>
  BY DEF Settled, DryRun
<1>3. bucket \in Buckets \ {"none"}
  BY DEF Buckets
<1> QED
  BY <1>1, <1>2, <1>3, NextIsNotCondemned, NothingWentBack, IntoKeeps DEF NothingGoesBack

\* The package's turn goes on, or the run is over: its bucket is still to come.
LEMMA TurnGoesOn ==
  ASSUME PipIInv, step' \in Steps, OneIsAtHand', CondemnedFail', version' \in Versions,
         NothingGoesBack', condemned' \subseteq Packages, CondemnedIsNotApplied',
         UNCHANGED <<pip, target, before, report>>
  PROVE  PipIInv'
<1>1. PipTypeOK /\ RiskFirst
  BY DEF PipIInv, PipInv
<1>2. PipTypeOK' /\ RiskFirst'
  BY <1>1 DEF PipTypeOK, RiskFirst, Steps
<1> QED
  BY <1>2 DEF PipIInv, PipInv

\* The dry-run says what an upgrade would take back.
LEMMA DryRunStep ==
  ASSUME PipIInv, NEW p \in Packages, DryRun(p), report' = report
  PROVE  PipIInv'
<1>0. /\ step.at = "next" /\ IsNext(p) /\ PipTypeOK /\ CondemnedFail
      /\ UNCHANGED <<pip, target, before, version, condemned>>
      /\ CondemnedIsNotApplied /\ NothingGoesBack /\ condemned \subseteq Packages
      /\ report \in [Packages -> Buckets]
  BY StepFields DEF DryRun, PipIInv, PipInv
<1>1. PICK prev \in {version[p], 0} :
        /\ ~Downgrades(p) /\ step' = [at |-> "upgrade", on |-> p, prev |-> prev]
  <2>1. \A bucket : Into(p, bucket) /\ report' = report => bucket = "none"
    BY <1>0 DEF Into, IsNext, Waiting
  <2> QED
    BY <2>1 DEF DryRun
<1>2. prev \in 0 .. MaxVersion
  <2>1. version[p] \in 0 .. MaxVersion /\ 0 \in 0 .. MaxVersion
    BY NothingWentBack, VersionsAreNumbers, PipAssumption
  <2> QED
    BY <2>1
<1>3. step' \in Steps /\ step'.at = "upgrade" /\ step'.on = p
  BY <1>1, <1>2 DEF Steps
<1>4. OneIsAtHand'
  <2>1. IsNext(step.on)' /\ (Downgrades(p) <=> Downgrades(step.on)')
    BY <1>0, <1>3 DEF IsNext, Waiting, Downgrades
  <2> QED
    BY <1>0, <1>1, <1>3, <2>1 DEF OneIsAtHand
<1>5. CondemnedFail' /\ CondemnedIsNotApplied' /\ NothingGoesBack'
  BY <1>0, <1>3 DEF CondemnedFail, CondemnedIsNotApplied, NothingGoesBack
<1> QED
  BY <1>0, <1>3, <1>4, <1>5, NothingWentBack, TurnGoesOn

\* What the dry-run cleared makes nothing older, done or half done.
LEMMA UpgradedKeeps ==
  ASSUME PipIInv, step.at = "upgrade",
         version' = target[step.on] \/ version' \in Halfway(step.on),
         UNCHANGED <<pip, before, condemned>>
  PROVE  version' \in Versions /\ NothingGoesBack'
<1>0. /\ PipTypeOK /\ OneIsAtHand /\ version \in Versions /\ before \in Versions
      /\ target[step.on] \in Versions
  BY StepFields DEF PipIInv, PipInv
<1>1. version' \in Versions
  BY <1>0 DEF Halfway
<1>2. \A q \in Packages : version'[q] \in {version[q], target[step.on][q]}
  BY <1>0 DEF Halfway
<1>3. ASSUME pip.lists, condemned = {}, NEW q \in Packages
      PROVE  version'[q] >= before[q]
  <2>1. version[q] \in Nat /\ before[q] \in Nat /\ target[step.on][q] \in Nat
    BY <1>0, VersionsAreNumbers
  <2>2. version[q] >= before[q]
    BY <1>3, NothingWentBack
  <2>3. version[q] > 0 => ~(target[step.on][q] < version[q])
    BY <1>0, <1>3 DEF OneIsAtHand, Downgrades
  <2> QED
    BY <1>2, <2>1, <2>2, <2>3
<1> QED
  BY <1>1, <1>3 DEF NothingGoesBack

\* pip upgrades, or fails.
LEMMA UpgradeStep ==
  ASSUME PipIInv, Upgrade
  PROVE  PipIInv'
<1>0. /\ step.at = "upgrade" /\ step \in Steps /\ step.on \in Packages /\ IsNext(step.on)
      /\ UNCHANGED <<pip, target, before, condemned>>
      /\ CondemnedIsNotApplied /\ CondemnedFail /\ OneIsAtHand
      /\ condemned \subseteq Packages
      /\ "failed" \in Buckets \ {"none"} /\ "applied" \in Buckets \ {"none"}
  BY StepFields DEF Upgrade, PipIInv, PipInv, OneIsAtHand, Busy, PipTypeOK, Buckets
<1>1. CASE Into(step.on, "failed") /\ version' \in Halfway(step.on)
  BY <1>0, <1>1, NextIsNotCondemned, UpgradedKeeps, IntoKeeps
<1>2. CASE version' = target[step.on] /\ step' = [step EXCEPT !.at = "audit"] /\ UNCHANGED report
  <2>1. /\ step' \in Steps /\ step'.at = "audit" /\ step'.on = step.on
        /\ step'.prev = step.prev
    BY <1>0, <1>2 DEF Steps
  <2>2. IsNext(step.on)'
    BY <1>0, <1>2, <2>1 DEF IsNext, Waiting
  <2>3. OneIsAtHand'
    BY <1>0, <2>1, <2>2 DEF OneIsAtHand, Busy
  <2>4. CondemnedFail' /\ CondemnedIsNotApplied'
    BY <1>0, <1>2, <2>1 DEF CondemnedFail, CondemnedIsNotApplied
  <2> QED
    BY <1>0, <1>2, <2>1, <2>3, <2>4, UpgradedKeeps, TurnGoesOn
<1>3. CASE version' = target[step.on] /\ Into(step.on, "applied")
  BY <1>0, <1>3, UpgradedKeeps, NextIsNotCondemned, IntoKeeps
<1> QED
  BY <1>1, <1>2, <1>3 DEF Upgrade

\* The audit passes or condemns what was installed.
LEMMA AuditStep ==
  ASSUME PipIInv, Audit
  PROVE  PipIInv'
<1>0. /\ step.at = "audit" /\ step \in Steps /\ step.on \in Packages /\ IsNext(step.on)
      /\ UNCHANGED <<pip, target, before, version>>
      /\ CondemnedIsNotApplied /\ CondemnedFail /\ OneIsAtHand
      /\ condemned \subseteq Packages
      /\ "applied" \in Buckets \ {"none"}
  BY StepFields DEF Audit, PipIInv, PipInv, OneIsAtHand, Busy, PipTypeOK, Buckets
<1>1. CASE Into(step.on, "applied") /\ UNCHANGED condemned
  BY <1>0, <1>1, NextIsNotCondemned, NothingWentBack, IntoKeeps DEF NothingGoesBack
<1>2. CASE /\ step' = [step EXCEPT !.at = "rollback"] /\ UNCHANGED report
           /\ condemned' = condemned \union {step.on}
  <2>1. /\ step' \in Steps /\ step'.at = "rollback" /\ step'.on = step.on
        /\ step'.prev = step.prev
    BY <1>0, <1>2 DEF Steps
  <2>2. IsNext(step.on)' /\ report[step.on] = "none"
    BY <1>0, <1>2, <2>1 DEF IsNext, Waiting
  <2>3. OneIsAtHand'
    BY <1>0, <2>1, <2>2 DEF OneIsAtHand, Busy
  <2>4. CondemnedFail' /\ CondemnedIsNotApplied'
    BY <1>0, <1>2, <2>1, <2>2 DEF CondemnedFail, CondemnedIsNotApplied
  <2>5. version' \in Versions /\ NothingGoesBack'
    BY <1>0, <1>2, NothingWentBack DEF NothingGoesBack
  <2> QED
    BY <1>0, <1>2, <2>1, <2>3, <2>4, <2>5, TurnGoesOn
<1> QED
  BY <1>1, <1>2 DEF Audit

\* What was condemned is rolled back, or not.
LEMMA RollbackStep ==
  ASSUME PipIInv, Rollback
  PROVE  PipIInv'
<1>0. /\ step.at = "rollback" /\ step.on \in Packages /\ IsNext(step.on)
      /\ Into(step.on, "failed") /\ UNCHANGED <<pip, target, before, condemned>>
      /\ CondemnedFail /\ version' \in Rolled(step.on)
      /\ "failed" \in Buckets \ {"none"} /\ version \in Versions
  BY StepFields DEF Rollback, PipIInv, PipInv, OneIsAtHand, Busy, PipTypeOK, Buckets
<1>1. version' \in Versions
  <2>1. 0 \in 0 .. MaxVersion
    BY PipAssumption
  <2>2. [version EXCEPT ![step.on] = 0] \in Versions
    BY <1>0, <2>1 DEF Versions
  <2> QED
    BY <1>0, <2>2 DEF Rolled
<1>2. NothingGoesBack'
  BY <1>0 DEF NothingGoesBack, CondemnedFail
<1>3. \A q \in condemned : q # step.on => report[q] = "failed"
  BY <1>0 DEF CondemnedFail
<1> QED
  BY <1>0, <1>1, <1>2, <1>3, IntoKeeps

\* The run is over.
LEMMA RunEndsStep ==
  ASSUME PipIInv, TimesOut \/ Reports
  PROVE  PipIInv'
<1>0. /\ step.at \in {"next", "upgrade"} /\ step' = Idle("over")
      /\ UNCHANGED <<pip, target, before, report, condemned>>
      /\ CondemnedIsNotApplied /\ CondemnedFail /\ condemned \subseteq Packages
      /\ \/ version' = version
         \/ step.at = "upgrade" /\ version' \in Halfway(step.on)
  BY StepFields DEF TimesOut, Reports, PipIInv, PipInv
<1>1. step' \in Steps /\ step'.at = "over"
  BY <1>0, IdleIsTyped
<1>2. version' \in Versions /\ NothingGoesBack'
  <2>1. CASE version' = version
    BY <1>0, <2>1, NothingWentBack DEF NothingGoesBack
  <2>2. CASE step.at = "upgrade" /\ version' \in Halfway(step.on)
    BY <1>0, <2>2, UpgradedKeeps
  <2> QED
    BY <1>0, <2>1, <2>2
<1>3. OneIsAtHand' /\ CondemnedFail' /\ CondemnedIsNotApplied'
  BY <1>0, <1>1 DEF OneIsAtHand, Busy, CondemnedFail, CondemnedIsNotApplied
<1> QED
  BY <1>0, <1>1, <1>2, <1>3, TurnGoesOn

\* Every step keeps what is known of the package at hand.
LEMMA PipStays ==
  ASSUME PipIInv, [PipNext]_pipVars
  PROVE  PipIInv'
<1>1. CASE PipNext
  <2>1. ASSUME NEW p \in Packages, Settled(p)
        PROVE  PipIInv'
    <3>1. report' # report
      <4>1. PICK bucket \in {"skipped", "blocked"} : Into(p, bucket)
        BY <2>1 DEF Settled
      <4>2. report \in [Packages -> Buckets] /\ report[p] = "none"
        BY <2>1, StepFields DEF PipIInv, PipInv, Settled, IsNext, Waiting
      <4> QED
        BY <4>1, <4>2 DEF Into
    <3> QED
      BY <2>1, <3>1, SettledStep
  <2> QED
    BY <1>1, <2>1, SettledStep, DryRunStep, UpgradeStep, AuditStep, RollbackStep, RunEndsStep
       DEF PipNext
<1>2. CASE UNCHANGED pipVars
  BY <1>2 DEF pipVars, PipIInv, PipInv, PipTypeOK, CondemnedIsNotApplied, NothingGoesBack,
              RiskFirst, OneIsAtHand, Busy, CondemnedFail, IsNext, Waiting, Downgrades
<1> QED
  BY <1>1, <1>2

\* With any number of packages and versions and whatever the resolver answers: no
\* condemned version is reported as an upgrade, no upgrade makes anything older than it
\* was, and what is more at risk came first, wherever the run is cut
\* (pip_safe_upgrade.py).
THEOREM UpgradesAreSound == PipSpec => []PipInv
<1>1. PipIInv => PipInv
  BY DEF PipIInv
<1> QED
  BY <1>1, PipStarts, PipStays, PTL DEF PipSpec

-----------------------------------------------------------------------------
(* What the runs of a skill are worth                                        *)

\* The rows of the exec log.
Entries == [row : LogRows, at : Ticks]

EfficacyIInv ==
  /\ runLog \in Seq(Entries) /\ rejudged \subseteq DOMAIN runLog
  /\ emitted \subseteq Ticks /\ tick \in Ticks
  /\ snap \in [Metrics -> [Ticks -> Values \union {NoValue}]]

\* What the rows have in common: who runs in a worktree or reads, and who is ungraded,
\* and that only the engine measures.
LEMMA RowsFacts ==
  ASSUME NEW r \in LogRows
  PROVE  /\ r.move # "none" => r.by = "reflex"
         /\ r.by = "reflex" /\ r.improved = "unsaid" => ~r.reader /\ ~r.propose
         /\ r.status \in {"done", "error"}
<1>1. /\ \A s, i, m : LET e == LogRow(s, i, m)
                      IN  /\ e.by = "reflex" /\ ~e.reader /\ ~e.propose
                          /\ e.status = s /\ e.improved = i /\ e.move = m
  BY DEF LogRow
<1>2. CASE r \in EngineRows
  BY <1>1, <1>2 DEF EngineRows
<1>3. CASE r \in ReaderRows
  <2>1. PICK q \in {LogRow("done", "no", "none"), LogRow("done", "no", "up"),
                    LogRow("error", "no", "none")} : r = [q EXCEPT !.reader = TRUE]
    BY <1>3 DEF ReaderRows
  <2>2. q.by = "reflex" /\ q.improved = "no" /\ q.status \in {"done", "error"}
    BY <1>1, <2>1
  <2>3. q = LogRow(q.status, "no", q.move)
    BY <1>1, <2>1
  <2>4. r.by = "reflex" /\ r.improved = "no" /\ r.status = q.status
    BY <2>1, <2>2, <2>3 DEF LogRow
  <2> QED
    BY <2>2, <2>4
<1>4. CASE r \in ProposalRows
  <2>1. PICK m \in {"up", "none"} : r = [LogRow("done", "no", m) EXCEPT !.propose = TRUE]
    BY <1>4 DEF ProposalRows
  <2>2. r.by = "reflex" /\ r.improved = "no" /\ r.status = "done"
    BY <2>1 DEF LogRow
  <2> QED
    BY <2>2
<1>5. CASE r \in {UngradedRow, OperatorRow}
  <2>1. UngradedRow.by = "reflex" /\ ~UngradedRow.reader /\ ~UngradedRow.propose
        /\ UngradedRow.status = "done" /\ UngradedRow.move = "none"
    BY <1>1 DEF UngradedRow
  <2>2. OperatorRow.by = "human" /\ OperatorRow.status = "done" /\ OperatorRow.move = "none"
    BY DEF OperatorRow, UngradedRow, LogRow
  <2> QED
    BY <1>5, <2>1, <2>2
<1> QED
  BY <1>2, <1>3, <1>4, <1>5 DEF LogRows

\* The places of the log are finitely many.
LEMMA LogFacts ==
  ASSUME EfficacyIInv
  PROVE  /\ IsFiniteSet(DOMAIN runLog) /\ DOMAIN runLog = 1 .. Len(runLog)
         /\ Len(runLog) \in Nat
         /\ \A i \in DOMAIN runLog : TheRow(i) \in LogRows /\ runLog[i].at \in Ticks
                                     /\ runLog[i].at \in Nat
<1>1. Len(runLog) \in Nat /\ DOMAIN runLog = 1 .. Len(runLog)
  BY DEF EfficacyIInv
<1>2. IsFiniteSet(1 .. Len(runLog))
  BY <1>1, FS_Interval
<1>3. \A i \in DOMAIN runLog : runLog[i] \in Entries
  BY <1>1 DEF EfficacyIInv
<1> QED
  BY <1>1, <1>2, <1>3, EfficacyAssumption DEF Entries, TheRow, Ticks

\* Nothing is logged yet.
LEMMA EfficacyStarts == EfficacyInit => EfficacyIInv
  BY EfficacyAssumption DEF EfficacyInit, EfficacyIInv, Ticks

\* A row fills one place of each metric.
LEMMA RowFills ==
  ASSUME EfficacyIInv, NEW v \in SnapshotRows, NEW t \in Ticks, RowAdded(t, v)
  PROVE  /\ snap' \in [Metrics -> [Ticks -> Values \union {NoValue}]]
         /\ \A m \in Metrics : /\ snap[m][t] = NoValue
                               /\ \A u \in Ticks : u # t => snap'[m][u] = snap[m][u]
<1>1. snap' = [m \in Metrics |-> [snap[m] EXCEPT ![t] = v[m]]]
  BY DEF RowAdded
<1>2. \A m \in Metrics : snap[m][t] = NoValue
  BY DEF RowAdded, SnapTicks
<1>3. \A m \in Metrics : /\ snap[m] \in [Ticks -> Values \union {NoValue}]
                         /\ v[m] \in Values \union {NoValue}
  BY DEF EfficacyIInv, SnapshotRows
<1>4. \A m \in Metrics : [snap[m] EXCEPT ![t] = v[m]] \in [Ticks -> Values \union {NoValue}]
  BY <1>3
<1> QED
  BY <1>1, <1>2, <1>3, <1>4

\* The logs grow, the snapshots fill, the clock goes on.
LEMMA EfficacyStays ==
  ASSUME EfficacyIInv, [EfficacyNext]_efficacyVars
  PROVE  EfficacyIInv'
<1>1. ASSUME NEW r \in LogRows, RunIsLogged(r)
      PROVE  EfficacyIInv'
  <2> DEFINE e == [row |-> r, at |-> tick]
  <2>1. e \in Entries
    BY DEF Entries, EfficacyIInv
  <2>2. runLog' = Append(runLog, e)
    BY <1>1 DEF RunIsLogged
  <2> HIDE DEF e
  <2>3. runLog' \in Seq(Entries) /\ DOMAIN runLog \subseteq DOMAIN runLog'
    BY <2>1, <2>2 DEF EfficacyIInv
  <2> QED
    BY <1>1, <2>3 DEF RunIsLogged, EfficacyIInv
<1>2. ASSUME NEW i \in DOMAIN runLog, IsRejudged(i)
      PROVE  EfficacyIInv'
  BY <1>2 DEF IsRejudged, EfficacyIInv
<1>3. CASE SessionIsEmitted
  BY <1>3 DEF SessionIsEmitted, EfficacyIInv
<1>4. CASE TimePasses
  BY <1>4, EfficacyAssumption DEF TimePasses, EfficacyIInv, Ticks
<1>5. ASSUME NEW v \in SnapshotRows, SnapshotTaken(v)
      PROVE  EfficacyIInv'
  BY <1>5, RowFills DEF SnapshotTaken, EfficacyIInv
<1>6. ASSUME NEW v \in SnapshotRows, NEW t \in Ticks, HistoryBackfilled(t, v)
      PROVE  EfficacyIInv'
  BY <1>6, RowFills DEF HistoryBackfilled, EfficacyIInv
<1>7. CASE UNCHANGED efficacyVars
  BY <1>7 DEF efficacyVars, EfficacyIInv
<1> QED
  BY <1>1, <1>2, <1>3, <1>4, <1>5, <1>6, <1>7 DEF EfficacyNext

\* A run is taken by one tier at most.
LEMMA TiersAreApart == OneTierPerRun
BY DEF OneTierPerRun, FireTime, VerdictRuns, Correlated, HasVerdict

-----------------------------------------------------------------------------
(* Improved and attempted                                                    *)

\* The engine's runs that only a window can judge.
Unjudged == {i \in Correlated : TheRow(i).by = "reflex"}

\* The window of a metric in which a run falls.
WindowOf(m, i) == WindowAround(m, [at |-> runLog[i].at, actor |-> TheRow(i).by])

\* Who improved directly and who is judged by a window are two sets of attempts.
LEMMA AttemptsAreTwofold ==
  ASSUME EfficacyIInv, verdictTier
  PROVE  /\ ImprovedDirect \subseteq Attempts /\ Unjudged \subseteq Attempts
         /\ ImprovedDirect \intersect Unjudged = {}
<1>1. ASSUME NEW i \in ImprovedDirect
      PROVE  i \in Attempts
  <2>1. CASE i \in LiveFireTime /\ TheRow(i).move = "up"
    <3>1. i \in DOMAIN runLog /\ ~TheRow(i).reader /\ ~TheRow(i).propose
      BY <2>1 DEF LiveFireTime, FireTime
    <3>2. TheRow(i).by = "reflex"
      BY <2>1, <3>1, LogFacts, RowsFacts
    <3> QED
      BY <3>1, <3>2 DEF Attempts, IsAutonomous
  <2>2. CASE i \in VerdictRuns
    BY <2>2 DEF VerdictRuns, Attempts
  <2> QED
    BY <1>1, <2>1, <2>2 DEF ImprovedDirect
<1>2. ASSUME NEW i \in Unjudged
      PROVE  i \in Attempts
  <2>1. /\ i \in DOMAIN runLog /\ TheRow(i).by = "reflex" /\ TheRow(i).status = "done"
        /\ TheRow(i).move = "none" /\ ~HasVerdict(TheRow(i))
    BY DEF Unjudged, Correlated
  <2>2. TheRow(i).improved = "unsaid"
    BY <2>1 DEF HasVerdict
  <2> QED
    BY <2>1, <2>2, LogFacts, RowsFacts DEF Attempts, IsAutonomous
<1>3. ImprovedDirect \intersect Unjudged = {}
  BY DEF ImprovedDirect, Unjudged, LiveFireTime, FireTime, VerdictRuns, Correlated
<1> QED
  BY <1>1, <1>2, <1>3

\* A window the engine has a use in is the window of a run.
LEMMA WindowsHaveRuns ==
  ASSUME NEW m, NEW w, NEW u \in ReflexUsesIn(m, w)
  PROVE  \E i \in Unjudged : WindowOf(m, i) = w /\ runLog[i].at = u.at
<1>1. u \in SkillUses /\ w = WindowAround(m, u) /\ u.actor = "reflex"
  BY DEF ReflexUsesIn, UsesIn, Bracketed
<1>2. ~\E e \in {emitted} \ {{}} : u = [at |-> LeastOf(e), actor |-> "human"]
  BY <1>1
<1>3. PICK i \in Correlated : u = [at |-> runLog[i].at, actor |-> TheRow(i).by]
  BY <1>1, <1>2 DEF SkillUses
<1>4. TheRow(i).by = "reflex" /\ runLog[i].at = u.at
  BY <1>1, <1>3
<1>5. WindowOf(m, i) = w
  BY <1>1, <1>3 DEF WindowOf
<1> QED
  BY <1>4, <1>5 DEF Unjudged

\* What has a window each is no more than those who have them.
LEMMA WindowsAreFewer ==
  ASSUME NEW m, NEW I, IsFiniteSet(I), NEW W, \A w \in W : \E i \in I : WindowOf(m, i) = w
  PROVE  IsFiniteSet(W) /\ Cardinality(W) <= Cardinality(I)
         /\ Cardinality(W) \in Nat /\ Cardinality(I) \in Nat
<1> DEFINE J == {i \in I : WindowOf(m, i) \in W}
           f == [i \in J |-> WindowOf(m, i)]
<1>1. IsFiniteSet(J) /\ Cardinality(J) <= Cardinality(I)
  BY FS_Subset
<1>2. f \in Surjection(J, W)
  <2>1. f \in [J -> W]
    OBVIOUS
  <2>2. ASSUME NEW w \in W PROVE \E i \in J : f[i] = w
    <3>1. PICK i \in I : WindowOf(m, i) = w
      OBVIOUS
    <3>2. i \in J
      BY <3>1
    <3> QED
      BY <3>1, <3>2
  <2> HIDE DEF f, J
  <2> QED
    BY <2>1, <2>2 DEF Surjection
<1> HIDE DEF f, J
<1>3. IsFiniteSet(W) /\ Cardinality(W) <= Cardinality(J)
  BY <1>1, <1>2, FS_Surjection
<1>4. Cardinality(W) \in Nat /\ Cardinality(J) \in Nat /\ Cardinality(I) \in Nat
  BY <1>1, <1>3, FS_CardinalityType
<1> QED
  BY <1>1, <1>3, <1>4

\* Two sets apart within a third.
LEMMA TwoWithin ==
  ASSUME NEW S, NEW T, NEW U, IsFiniteSet(U), S \subseteq U, T \subseteq U,
         S \intersect T = {}
  PROVE  /\ Cardinality(S) + Cardinality(T) <= Cardinality(U)
         /\ Cardinality(S) \in Nat /\ Cardinality(T) \in Nat /\ Cardinality(U) \in Nat
         /\ IsFiniteSet(S) /\ IsFiniteSet(T)
<1>1. IsFiniteSet(S) /\ IsFiniteSet(T)
  BY FS_Subset
<1>2. Cardinality(S \union T) = Cardinality(S) + Cardinality(T) - Cardinality(S \intersect T)
  BY <1>1, FS_Union
<1>3. Cardinality(S \intersect T) = 0
  BY FS_EmptySet
<1>4. Cardinality(S \union T) <= Cardinality(U)
  <2>1. S \union T \in SUBSET U
    OBVIOUS
  <2> QED
    BY <2>1, FS_Subset
<1>5. Cardinality(S) \in Nat /\ Cardinality(T) \in Nat /\ Cardinality(U) \in Nat
  BY <1>1, FS_CardinalityType
<1> QED
  BY <1>1, <1>2, <1>3, <1>4, <1>5

\* With the windows of one metric no more improves than was attempted.
LEMMA ImprovementsAreAttempts ==
  ASSUME EfficacyIInv
  PROVE  ImprovedWasAttempted
<1> SUFFICES ASSUME verdictTier, NEW m \in Metrics
             PROVE  /\ ImprovedNowWith(m) <= AttemptedNow
                    /\ ImprovedWith(m) <= Cardinality(Attempts)
  BY DEF ImprovedWasAttempted
<1>1. /\ ImprovedDirect \subseteq Attempts /\ Unjudged \subseteq Attempts
      /\ ImprovedDirect \intersect Unjudged = {}
  BY AttemptsAreTwofold
<1>2. IsFiniteSet(Attempts)
  <2>1. Attempts \in SUBSET DOMAIN runLog
    BY DEF Attempts
  <2> QED
    BY <2>1, LogFacts, FS_Subset
<1>3. ImprovedWith(m) <= Cardinality(Attempts)
  <2> DEFINE W == ImprovedWindows(m)
  <2>1. \A w \in W : \E i \in Unjudged : WindowOf(m, i) = w
    BY WindowsHaveRuns DEF ImprovedWindows, ReflexWindows
  <2> HIDE DEF W
  <2>2. /\ Cardinality(ImprovedDirect) + Cardinality(Unjudged) <= Cardinality(Attempts)
        /\ Cardinality(ImprovedDirect) \in Nat /\ Cardinality(Attempts) \in Nat
        /\ IsFiniteSet(Unjudged)
    BY <1>1, <1>2, TwoWithin
  <2>3. Cardinality(W) <= Cardinality(Unjudged) /\ Cardinality(W) \in Nat
        /\ Cardinality(Unjudged) \in Nat
    BY <2>1, <2>2, WindowsAreFewer
  <2>4. ImprovedWith(m) = Cardinality(ImprovedDirect) + Cardinality(W)
    BY DEF ImprovedWith, W
  <2> QED
    BY <2>2, <2>3, <2>4
<1>4. ImprovedNowWith(m) <= AttemptedNow
  <2> DEFINE W == {w \in ImprovedWindows(m) :
                     Recent(LeastOf({u.at : u \in ReflexUsesIn(m, w)}))}
             Tried == {i \in Attempts : Recent(runLog[i].at)}
             D == {i \in ImprovedDirect : Recent(runLog[i].at)}
             U == {i \in Unjudged : Recent(runLog[i].at)}
  <2>1. ASSUME NEW w \in W PROVE \E i \in U : WindowOf(m, i) = w
    <3> DEFINE uses == ReflexUsesIn(m, w)
               days == {u.at : u \in uses}
    <3>1. days # {}
      BY DEF ImprovedWindows, ReflexWindows
    <3>2. days \subseteq Nat
      <4>1. ASSUME NEW u \in uses PROVE u.at \in Nat
        <5>1. PICK i \in Unjudged : runLog[i].at = u.at
          BY WindowsHaveRuns
        <5>2. i \in DOMAIN runLog
          BY DEF Unjudged, Correlated
        <5> QED
          BY <5>1, <5>2, LogFacts
      <4> QED
        BY <4>1
    <3>3. Recent(LeastOf(days))
      OBVIOUS
    <3>4. LeastOf(days) \in days
      <4> HIDE DEF days
      <4>1. \E x \in days : \A y \in days : x <= y
        BY <3>1, <3>2, LeastExists
      <4> QED
        BY <4>1 DEF LeastOf
    <3>5. PICK u \in uses : u.at = LeastOf(days)
      BY <3>4
    <3> HIDE DEF days
    <3>6. PICK i \in Unjudged : WindowOf(m, i) = w /\ runLog[i].at = u.at
      BY WindowsHaveRuns
    <3> QED
      BY <3>3, <3>5, <3>6
  <2>2. D \subseteq Tried /\ U \subseteq Tried /\ D \intersect U = {} /\ IsFiniteSet(Tried)
    <3>1. Tried \in SUBSET Attempts
      OBVIOUS
    <3>2. IsFiniteSet(Tried)
      BY <3>1, <1>2, FS_Subset
    <3> QED
      BY <1>1, <3>2
  <2>3. /\ ImprovedNowWith(m) = Cardinality(D) + Cardinality(W)
        /\ AttemptedNow = Cardinality(Tried)
    BY DEF ImprovedNowWith, AttemptedNow
  <2> HIDE DEF W, Tried, D, U
  <2>4. /\ Cardinality(D) + Cardinality(U) <= Cardinality(Tried) /\ IsFiniteSet(U)
        /\ Cardinality(D) \in Nat /\ Cardinality(Tried) \in Nat
    BY <2>2, TwoWithin
  <2>5. Cardinality(W) <= Cardinality(U) /\ Cardinality(W) \in Nat /\ Cardinality(U) \in Nat
    BY <2>1, <2>4, WindowsAreFewer
  <2> QED
    BY <2>3, <2>4, <2>5
<1> QED
  BY <1>3, <1>4

-----------------------------------------------------------------------------
(* Grades                                                                    *)

\* What a key has passed is among what it was graded for.
LEMMA TallyFacts ==
  ASSUME EfficacyIInv, NEW k
  PROVE  /\ Tally(k, Read).total \in Nat /\ Tally(k, Read).good \in Nat
         /\ Tally(k, Read).good <= Tally(k, Read).total
<1> DEFINE rows == Counted(k, Read)
           Good(i) == Passed(Read.log[i]) \/ (k = "skill" /\ i \in Read.up)
           good == {i \in rows : Good(i)}
<1>1. rows \in SUBSET DOMAIN runLog
  BY DEF Counted, FreshRows, Read
<1>2. IsFiniteSet(rows)
  BY <1>1, LogFacts, FS_Subset
<1>3. good \in SUBSET rows
  OBVIOUS
<1>4. Tally(k, Read).total = Cardinality(rows) /\ Tally(k, Read).good = Cardinality(good)
  BY DEF Tally
<1> HIDE DEF rows, good
<1>5. IsFiniteSet(good) /\ Cardinality(good) <= Cardinality(rows)
  BY <1>2, <1>3, FS_Subset
<1> QED
  BY <1>2, <1>4, <1>5, FS_CardinalityType

\* The brake and the grant are cut from the same numbers.
LEMMA BrakesFollow ==
  ASSUME EfficacyIInv
  PROVE  BrakeFollowsGrant
<1> SUFFICES ASSUME NEW b \in Backings
             PROVE  /\ Grant(b, Read).demoted => Multiplier(GradedBy(b), Read) = 12
                    /\ Grant(b, Read).status = "graded_rule"
                         => Multiplier(GradedBy(b), Read) = 4
  BY DEF BrakeFollowsGrant
<1> DEFINE n == Tally(GradedBy(b), Read)
           brake == Multiplier(GradedBy(b), Read)
<1>1. n.total \in Nat /\ n.good \in Nat /\ n.good <= n.total
  BY TallyFacts
<1>2. /\ Warmup \in Nat /\ MinRuns \in Nat /\ FruitlessRuns \in Nat
      /\ 1 <= Warmup /\ Warmup <= MinRuns /\ MinRuns <= FruitlessRuns
  BY EfficacyAssumption
<1>3. /\ Grant(b, Read).status = StatusOf(b, n)
      /\ Grant(b, Read).demoted =
           (\/ b = "skill" /\ n.total >= FruitlessRuns /\ n.good = 0
            \/ StatusOf(b, n) \in {"graded_gotcha", "error"})
  BY DEF Grant
<1>4. brake = IF n.total < Warmup THEN 1 ELSE IF 10 * n.good < 3 * n.total THEN 12 ELSE 4
  BY <1>1, <1>2 DEF Multiplier
<1> HIDE DEF n, brake
<1>5. /\ StatusOf(b, n) = "error" => n.total >= MinRuns /\ n.good = 0
      /\ StatusOf(b, n) = "graded_gotcha" => n.total >= MinRuns /\ 10 * n.good < 3 * n.total
      /\ StatusOf(b, n) = "graded_rule" => n.total >= MinRuns /\ 10 * n.good >= 7 * n.total
  BY <1>1, <1>2 DEF StatusOf, Backings
<1>6. ASSUME Grant(b, Read).demoted PROVE brake = 12
  <2>1. n.total >= MinRuns /\ (n.good = 0 \/ 10 * n.good < 3 * n.total)
    <3>1. CASE n.total >= FruitlessRuns /\ n.good = 0
      BY <1>1, <1>2, <3>1
    <3>2. CASE StatusOf(b, n) = "graded_gotcha" \/ StatusOf(b, n) = "error"
      BY <1>5, <3>2
    <3> QED
      BY <1>3, <1>6, <3>1, <3>2
  <2> QED
    BY <1>1, <1>2, <1>4, <2>1
<1>7. ASSUME Grant(b, Read).status = "graded_rule" PROVE brake = 4
  <2>1. n.total >= MinRuns /\ 10 * n.good >= 7 * n.total
    BY <1>3, <1>5, <1>7
  <2> QED
    BY <1>1, <1>2, <1>4, <2>1
<1> QED
  BY <1>6, <1>7 DEF brake

\* The classes of a pair with enough runs leave no gap and do not overlap.
LEMMA FindingsAreUnique ==
  ASSUME EfficacyIInv
  PROVE  OneFinding
<1> DEFINE total == Cardinality(EngineRuns)
           good == Cardinality(EffectiveRuns)
           found == {c \in {"GOTCHA", "RULE", "CONTEXT"} : Finding(c)}
<1> SUFFICES ASSUME total >= MinRuns PROVE Cardinality(found) = 1
  BY DEF OneFinding
<1>1. total \in Nat /\ good \in Nat /\ good <= total
  <2>1. EngineRuns \in SUBSET DOMAIN runLog /\ EffectiveRuns \in SUBSET EngineRuns
    BY DEF EngineRuns, EffectiveRuns
  <2>2. IsFiniteSet(EngineRuns)
    BY <2>1, LogFacts, FS_Subset
  <2>3. IsFiniteSet(EffectiveRuns) /\ good <= total
    BY <2>1, <2>2, FS_Subset
  <2> QED
    BY <2>2, <2>3, FS_CardinalityType
<1>2. MinRuns \in Nat /\ 1 <= MinRuns
  BY EfficacyAssumption
<1>3. /\ Finding("GOTCHA") <=> 10 * good < 3 * total
      /\ Finding("RULE") <=> 10 * good >= 7 * total
      /\ Finding("CONTEXT") <=> 10 * good >= 3 * total /\ 10 * good < 7 * total
  BY DEF Finding
<1>4. \E c : found = {c}
  <2> HIDE DEF total, good
  <2>1. CASE 10 * good < 3 * total
    <3>1. ~Finding("RULE") /\ ~Finding("CONTEXT") /\ Finding("GOTCHA")
      BY <1>1, <1>2, <1>3, <2>1
    <3>2. found = {"GOTCHA"}
      BY <3>1
    <3> QED
      BY <3>2
  <2>2. CASE 10 * good >= 7 * total
    <3>1. Finding("RULE") /\ ~Finding("CONTEXT") /\ ~Finding("GOTCHA")
      BY <1>1, <1>2, <1>3, <2>2
    <3>2. found = {"RULE"}
      BY <3>1
    <3> QED
      BY <3>2
  <2>3. CASE 10 * good >= 3 * total /\ 10 * good < 7 * total
    <3>1. Finding("CONTEXT") /\ ~Finding("RULE") /\ ~Finding("GOTCHA")
      BY <1>1, <1>2, <1>3, <2>3
    <3>2. found = {"CONTEXT"}
      BY <3>1
    <3> QED
      BY <3>2
  <2>4. 10 * good < 3 * total \/ 10 * good >= 3 * total
    BY <1>1
  <2>5. 10 * good < 7 * total \/ 10 * good >= 7 * total
    BY <1>1
  <2> QED
    BY <2>1, <2>2, <2>3, <2>4, <2>5
<1> HIDE DEF found
<1> QED
  BY <1>4, FS_Singleton

\* For any window, limits and logs: one run is evidence in one tier, no headline improves
\* more often than it was attempted, the brake follows the grant, and a pair with enough
\* runs has one finding (remediation.py, maturity.py, skill_efficacy.py,
\* reflex_eureka.py).
THEOREM RunsAreCountedOnce == EfficacySpec => []EfficacyInv
<1>1. EfficacyIInv => EfficacyInv
  <2> SUFFICES ASSUME EfficacyIInv PROVE EfficacyInv
    OBVIOUS
  <2>1. EfficacyTypeOK
    BY LogFacts DEF EfficacyIInv, EfficacyTypeOK
  <2> QED
    BY <2>1, TiersAreApart, ImprovementsAreAttempts, BrakesFollow, FindingsAreUnique
       DEF EfficacyInv
<1> QED
  BY <1>1, EfficacyStarts, EfficacyStays, PTL DEF EfficacySpec

-----------------------------------------------------------------------------
(* What one more entry may change                                            *)

\* One comes and at most one goes.
LEMMA OneComes ==
  ASSUME NEW S, IsFiniteSet(S), NEW D \in SUBSET S, \A a, b \in D : a = b, NEW n, n \notin S
  PROVE  LET T == (S \ D) \union {n}
         IN  /\ Cardinality(S) \in Nat /\ Cardinality(T) \in Nat
             /\ IF D = {} THEN Cardinality(T) = Cardinality(S) + 1
                ELSE Cardinality(T) = Cardinality(S)
<1>1. Cardinality(S) \in Nat
  BY FS_CardinalityType
<1>2. CASE D = {}
  <2>1. (S \ D) \union {n} = S \union {n}
    BY <1>2
  <2>2. Cardinality(S \union {n}) = Cardinality(S) + 1
    BY FS_AddElement
  <2> QED
    BY <1>1, <1>2, <2>1, <2>2
<1>3. CASE D /= {}
  <2>1. PICK d \in S : D = {d}
    BY <1>3
  <2> DEFINE R == S \ {d}
  <2>2. IsFiniteSet(R) /\ Cardinality(R) = Cardinality(S) - 1
    BY FS_RemoveElement
  <2>3. n \notin R /\ (S \ D) \union {n} = R \union {n}
    BY <2>1
  <2> HIDE DEF R
  <2>4. Cardinality(R \union {n}) = Cardinality(R) + 1
    BY <2>2, <2>3, FS_AddElement
  <2>6. Cardinality(R \union {n}) = Cardinality(S)
    BY <1>1, <2>2, <2>4
  <2>5. Cardinality((S \ D) \union {n}) = Cardinality(S)
    BY <2>3, <2>6
  <2> QED
    BY <1>1, <1>3, <2>5
<1> QED
  BY <1>2, <1>3

\* The same log with one more row, which is no older than the grades that count.
Longer(x, e) == [log |-> Append(x.log, e), up |-> x.up, now |-> x.now]
GradeReads == [log : Seq(Entries), up : SUBSET Nat, now : Ticks]

LEMMA LongerFacts ==
  ASSUME NEW x \in GradeReads, NEW e \in Entries
  PROVE  LET y == Longer(x, e)  n == Len(x.log) + 1
         IN  /\ Len(x.log) \in Nat /\ n \in Nat /\ n \notin DOMAIN x.log
             /\ DOMAIN x.log = 1 .. Len(x.log) /\ DOMAIN y.log = DOMAIN x.log \union {n}
             /\ \A i \in DOMAIN x.log : i \in Nat /\ i < n /\ y.log[i] = x.log[i]
             /\ y.log[n] = e /\ y.up = x.up /\ y.now = x.now
             /\ IsFiniteSet(DOMAIN x.log)
<1> DEFINE n == Len(x.log) + 1
<1>1. x.log \in Seq(Entries)
  BY DEF GradeReads
<1>2. Len(x.log) \in Nat /\ DOMAIN x.log = 1 .. Len(x.log)
  BY <1>1
<1>3. /\ DOMAIN Append(x.log, e) = 1 .. n /\ Append(x.log, e)[n] = e
      /\ \A i \in 1 .. Len(x.log) : Append(x.log, e)[i] = x.log[i]
  BY <1>1, <1>2, AppendProperties
<1>4. 1 .. n = (1 .. Len(x.log)) \union {n} /\ n \notin 1 .. Len(x.log) /\ n \in Nat
      /\ \A i \in 1 .. Len(x.log) : i \in Nat /\ i < n
  BY <1>2
<1>5. IsFiniteSet(1 .. Len(x.log))
  BY <1>2, FS_Interval
<1> QED
  BY <1>2, <1>3, <1>4, <1>5 DEF Longer

\* The rows that count after one more.
LEMMA CountedMoves ==
  ASSUME NEW x \in GradeReads, NEW e \in Entries, e.at >= x.now - AgingTicks, NEW k
  PROVE  LET y == Longer(x, e)  n == Len(x.log) + 1
         IN  /\ Counted(k, x) \subseteq DOMAIN x.log
             /\ ~(Graded(e) /\ Key(e) = k) => Counted(k, y) = Counted(k, x)
             /\ Graded(e) /\ Key(e) = k =>
                  \E D \in SUBSET Counted(k, x) :
                    /\ \A a, b \in D : a = b
                    /\ Counted(k, y) = (Counted(k, x) \ D) \union {n}
<1> DEFINE y == Longer(x, e)
           n == Len(x.log) + 1
           F == FreshRows(k, x)
           G == FreshRows(k, y)
           Over(i) == {j \in F : j > i}
<1>1. /\ Len(x.log) \in Nat /\ n \in Nat /\ n \notin DOMAIN x.log
      /\ DOMAIN y.log = DOMAIN x.log \union {n}
      /\ \A i \in DOMAIN x.log : i \in Nat /\ i < n /\ y.log[i] = x.log[i]
      /\ y.log[n] = e /\ y.up = x.up /\ y.now = x.now
      /\ IsFiniteSet(DOMAIN x.log)
  BY LongerFacts
<1>2. F \subseteq DOMAIN x.log
  BY DEF FreshRows
<1>3. G = IF Graded(e) /\ Key(e) = k THEN F \union {n} ELSE F
  <2> HIDE DEF y, n
  <2>1. \A i \in DOMAIN x.log : i \in G <=> i \in F
    BY <1>1 DEF FreshRows
  <2>2. n \in G <=> Graded(e) /\ Key(e) = k
    BY <1>1 DEF FreshRows
  <2>3. G \subseteq DOMAIN x.log \union {n}
    BY <1>1 DEF FreshRows
  <2> HIDE DEF F, G
  <2>4. CASE n \in G
    <3>1. G = F \union {n}
      BY <1>2, <2>1, <2>3, <2>4
    <3> QED
      BY <2>2, <2>4, <3>1
  <2>5. CASE n \notin G
    <3>1. G = F
      BY <1>2, <2>1, <2>3, <2>5
    <3> QED
      BY <2>2, <2>5, <3>1
  <2> QED
    BY <2>4, <2>5
<1>4. /\ Counted(k, x) = {i \in F : Cardinality(Over(i)) < RunWindow}
      /\ Counted(k, y) = {i \in G : Cardinality({j \in G : j > i}) < RunWindow}
  BY DEF Counted
<1> HIDE DEF y, n, F, G
<1>5. ASSUME Graded(e), Key(e) = k
      PROVE  \E D \in SUBSET Counted(k, x) :
               /\ \A a, b \in D : a = b
               /\ Counted(k, y) = (Counted(k, x) \ D) \union {n}
  <2> DEFINE D == {i \in Counted(k, x) : Cardinality(Over(i)) + 1 >= RunWindow}
  <2>1. G = F \union {n} /\ n \notin F /\ IsFiniteSet(F)
    BY <1>1, <1>2, <1>3, <1>5, FS_Subset
  <2>2. RunWindow \in Nat /\ RunWindow >= 1
    BY EfficacyAssumption
  <2>3. \A i \in F :
          IsFiniteSet(Over(i)) /\ Cardinality(Over(i)) \in Nat /\ n \notin Over(i)
    <3> TAKE i \in F
    <3>1. Over(i) \in SUBSET F
      OBVIOUS
    <3> QED
      BY <2>1, <3>1, FS_Subset, FS_CardinalityType
  <2>4. \A i \in F : Cardinality({j \in G : j > i}) = Cardinality(Over(i)) + 1
    <3> TAKE i \in F
    <3>1. {j \in G : j > i} = Over(i) \union {n}
      BY <1>1, <1>2, <2>1
    <3>2. Cardinality(Over(i) \union {n}) = Cardinality(Over(i)) + 1
      BY <2>3, FS_AddElement
    <3> QED
      BY <3>1, <3>2
  <2>5. Cardinality({j \in G : j > n}) = 0
    <3>1. {j \in G : j > n} = {}
      BY <1>1, <1>2, <2>1
    <3> QED
      BY <3>1, FS_EmptySet
  <2>6. \A a, b \in D : a = b
    <3>1. ASSUME NEW a \in D, NEW b \in D, a < b PROVE FALSE
      <4>1. a \in F /\ b \in F /\ a \in Nat /\ b \in Nat
        BY <1>1, <1>2, <1>4
      <4>2. Over(b) \union {b} \in SUBSET Over(a) /\ b \notin Over(b)
        BY <1>1, <1>2, <3>1, <4>1
      <4>3. Cardinality(Over(b) \union {b}) = Cardinality(Over(b)) + 1
        BY <2>3, <4>1, <4>2, FS_AddElement
      <4>4. Cardinality(Over(b) \union {b}) <= Cardinality(Over(a))
        BY <2>3, <4>1, <4>2, FS_Subset
      <4>5. Cardinality(Over(a)) < RunWindow /\ Cardinality(Over(b)) + 1 >= RunWindow
        BY <1>4
      <4>6. Cardinality(Over(a)) \in Nat /\ Cardinality(Over(b)) \in Nat
        BY <2>3, <4>1
      <4> HIDE DEF D, Over
      <4> QED
        BY <2>2, <4>3, <4>4, <4>5, <4>6
    <3>2. \A a \in D : a \in Nat
      BY <1>1, <1>2, <1>4
    <3> HIDE DEF D
    <3> SUFFICES ASSUME NEW a \in D, NEW b \in D PROVE a = b
      OBVIOUS
    <3>3. ~(a < b) /\ ~(b < a)
      BY <3>1
    <3>4. a \in Nat /\ b \in Nat
      BY <3>2
    <3> QED
      BY <3>3, <3>4
  <2>7. Counted(k, y) = (Counted(k, x) \ D) \union {n}
    <3>1. n \in Counted(k, y)
      BY <1>4, <2>1, <2>2, <2>5
    <3>2. \A i \in F : i \in Counted(k, y) <=> Cardinality(Over(i)) + 1 < RunWindow
      BY <1>4, <2>1, <2>4
    <3>3. ASSUME NEW i \in F
          PROVE  i \in Counted(k, x) /\ i \notin D <=> Cardinality(Over(i)) + 1 < RunWindow
      <4> DEFINE c == Cardinality(Over(i))
      <4>1. c \in Nat
        BY <2>3
      <4>2. i \in Counted(k, x) <=> c < RunWindow
        BY <1>4
      <4>3. i \in Counted(k, x) => (i \in D <=> c + 1 >= RunWindow)
        OBVIOUS
      <4> HIDE DEF c, D
      <4>4. c < RunWindow /\ ~(c + 1 >= RunWindow) <=> c + 1 < RunWindow
        BY <2>2, <4>1
      <4> QED
        BY <4>2, <4>3, <4>4 DEF c
    <3>4. Counted(k, y) \subseteq F \union {n} /\ Counted(k, x) \subseteq F
      BY <1>4, <2>1
    <3> QED
      BY <2>1, <3>1, <3>2, <3>3, <3>4
  <2> QED
    BY <2>6, <2>7
<1>6. ASSUME ~(Graded(e) /\ Key(e) = k) PROVE Counted(k, y) = Counted(k, x)
  BY <1>3, <1>4, <1>6
<1>7. Counted(k, x) \subseteq DOMAIN x.log
  BY <1>2, <1>4
<1> QED
  BY <1>5, <1>6, <1>7 DEF y, n
\* What a key was graded after one more row: a row that counts for it adds to the
\* total, unless it pushes an older one out.
LEMMA TallyMoves ==
  ASSUME NEW x \in GradeReads, NEW e \in Entries, e.at >= x.now - AgingTicks,
         x.up \subseteq DOMAIN x.log, NEW k
  PROVE  LET was == Tally(k, x)  is == Tally(k, Longer(x, e))
         IN  /\ was.total \in Nat /\ was.good \in Nat /\ is.total \in Nat /\ is.good \in Nat
             /\ was.good <= was.total
             /\ ~(Graded(e) /\ Key(e) = k) => is = was
             /\ Graded(e) /\ Key(e) = k /\ Passed(e) =>
                  /\ is.good >= 1
                  /\ \/ is.total = was.total + 1 /\ is.good = was.good + 1
                     \/ is.total = was.total /\ is.good >= was.good
             /\ Graded(e) /\ Key(e) = k /\ ~Passed(e) =>
                  /\ is.total \in {was.total, was.total + 1}
                  /\ is.good <= was.good
<1> DEFINE y == Longer(x, e)
           n == Len(x.log) + 1
           S == Counted(k, x)
           T == Counted(k, y)
           Good(z, i) == Passed(z.log[i]) \/ (k = "skill" /\ i \in z.up)
           P == {i \in S : Good(x, i)}
           Q == {i \in T : Good(y, i)}
           was == Tally(k, x)
           is == Tally(k, y)
<1>1. /\ n \notin DOMAIN x.log /\ \A i \in DOMAIN x.log : y.log[i] = x.log[i]
      /\ y.log[n] = e /\ y.up = x.up /\ IsFiniteSet(DOMAIN x.log)
  BY LongerFacts
<1>2. /\ S \subseteq DOMAIN x.log
      /\ ~(Graded(e) /\ Key(e) = k) => T = S
      /\ Graded(e) /\ Key(e) = k =>
           \E D \in SUBSET S : (\A a, b \in D : a = b) /\ T = (S \ D) \union {n}
  BY CountedMoves
<1>3. /\ was = [total |-> Cardinality(S), good |-> Cardinality(P)]
      /\ is = [total |-> Cardinality(T), good |-> Cardinality(Q)]
  BY DEF Tally
<1> HIDE DEF y, n, S, T, was, is
<1>4. /\ IsFiniteSet(S) /\ IsFiniteSet(P) /\ Cardinality(P) <= Cardinality(S)
      /\ Cardinality(S) \in Nat /\ Cardinality(P) \in Nat
  <2>1. IsFiniteSet(S)
    BY <1>1, <1>2, FS_Subset
  <2>2. P \in SUBSET S
    OBVIOUS
  <2>3. IsFiniteSet(P) /\ Cardinality(P) <= Cardinality(S)
    BY <2>1, <2>2, FS_Subset
  <2> QED
    BY <2>1, <2>3, FS_CardinalityType
<1>5. /\ \A i \in S : Good(y, i) <=> Good(x, i)
      /\ n \notin S /\ n \notin P
  BY <1>1, <1>2
<1>6. ASSUME ~(Graded(e) /\ Key(e) = k)
      PROVE  is = was
  <2>1. T = S /\ Q = P
    BY <1>2, <1>5, <1>6
  <2> QED
    BY <1>3, <2>1
<1>7. ASSUME Graded(e), Key(e) = k, NEW D \in SUBSET S, \A a, b \in D : a = b,
             T = (S \ D) \union {n}
      PROVE  /\ is.total \in Nat /\ is.good \in Nat
             /\ Passed(e) =>
                  /\ is.good >= 1
                  /\ \/ is.total = was.total + 1 /\ is.good = was.good + 1
                     \/ is.total = was.total /\ is.good >= was.good
             /\ ~Passed(e) =>
                  is.total \in {was.total, was.total + 1} /\ is.good <= was.good
  <2>1. /\ Cardinality(T) \in Nat
        /\ IF D = {} THEN Cardinality(T) = Cardinality(S) + 1
           ELSE Cardinality(T) = Cardinality(S)
    BY <1>4, <1>5, <1>7, OneComes
  <2>2. ASSUME Passed(e)
        PROVE  /\ Cardinality(Q) \in Nat /\ Cardinality(Q) >= 1
               /\ IF D = {} THEN Cardinality(Q) = Cardinality(P) + 1
                  ELSE Cardinality(Q) >= Cardinality(P)
    <3> DEFINE E == D \intersect P
    <3>1. E \in SUBSET P /\ \A a, b \in E : a = b
      BY <1>7
    <3>2. Q = (P \ E) \union {n}
      BY <1>1, <1>5, <1>7, <2>2
    <3>3. D = {} => E = {}
      OBVIOUS
    <3> HIDE DEF P, Q, E
    <3>4. /\ Cardinality(Q) \in Nat
          /\ IF E = {} THEN Cardinality(Q) = Cardinality(P) + 1
             ELSE Cardinality(Q) = Cardinality(P)
      BY <1>4, <1>5, <3>1, <3>2, OneComes
    <3>5. E /= {} => Cardinality(P) /= 0
      BY <1>4, <3>1, FS_EmptySet
    <3> QED
      BY <1>4, <3>3, <3>4, <3>5
  <2>3. ASSUME ~Passed(e)
        PROVE  Cardinality(Q) \in Nat /\ Cardinality(Q) <= Cardinality(P)
    <3>1. n \notin x.up
      BY <1>1
    <3>2. Q \in SUBSET P
      BY <1>1, <1>5, <1>7, <2>3, <3>1
    <3> HIDE DEF P, Q
    <3> QED
      BY <1>4, <3>2, FS_Subset, FS_CardinalityType
  <2> HIDE DEF P, Q
  <2>4. /\ was.total = Cardinality(S) /\ was.good = Cardinality(P)
        /\ is.total = Cardinality(T) /\ is.good = Cardinality(Q)
    BY <1>3
  <2>5. Cardinality(Q) \in Nat
    BY <2>2, <2>3
  <2>6. CASE Passed(e)
    BY <1>4, <2>1, <2>2, <2>4, <2>6
  <2>7. CASE ~Passed(e)
    BY <1>4, <2>1, <2>3, <2>4, <2>7
  <2> QED
    BY <2>6, <2>7
<1>8. was.total \in Nat /\ was.good \in Nat /\ was.good <= was.total
  BY <1>3, <1>4
<1>9. CASE Graded(e) /\ Key(e) = k
  BY <1>2, <1>7, <1>8, <1>9 DEF y, was, is
<1>10. CASE ~(Graded(e) /\ Key(e) = k)
  BY <1>6, <1>8, <1>10 DEF y, was, is
<1> QED
  BY <1>9, <1>10

\* The brake, and the grant of the three seeds, as functions of the grades.
Brake(n) == IF n.total < Warmup THEN 1 ELSE IF 10 * n.good < 3 * n.total THEN 12 ELSE 4
Worth(b, n) ==
  IF b = "skill"
  THEN IF n.total >= FruitlessRuns /\ n.good = 0 THEN <<0, 0, 0>> ELSE <<0, 1, 2>>
  ELSE IF n.total < MinRuns THEN <<1, 1, 2>>
  ELSE IF 10 * n.good < 3 * n.total THEN <<0, 0, 0>>
  ELSE IF 10 * n.good >= 7 * n.total THEN <<2, 2, 2>>
  ELSE <<0, 1, 2>>
NoLess(s, t) == \A seed \in 1 .. 3 : s[seed] >= t[seed]

LEMMA BrakeSays ==
  ASSUME NEW k, NEW x, Tally(k, x).total \in Nat, Tally(k, x).good \in Nat
  PROVE  Multiplier(k, x) = Brake(Tally(k, x))
<1>1. Warmup \in Nat
  BY EfficacyAssumption
<1> QED
  BY <1>1 DEF Multiplier, Brake

LEMMA WorthSays ==
  ASSUME NEW b \in Backings, NEW x,
         Tally(GradedBy(b), x).total \in Nat, Tally(GradedBy(b), x).good \in Nat
  PROVE  Grant(b, x).maturity = Worth(b, Tally(GradedBy(b), x))
<1> DEFINE n == Tally(GradedBy(b), x)
           status == StatusOf(b, n)
           demoted == (b = "skill" /\ n.total >= FruitlessRuns /\ n.good = 0)
                      \/ status \in {"graded_gotcha", "error"}
<1>1. /\ MinRuns \in Nat /\ FruitlessRuns \in Nat /\ 1 <= MinRuns
      /\ n.total \in Nat /\ n.good \in Nat
  BY EfficacyAssumption
<1>2. Grant(b, x).maturity = CASE demoted -> <<0, 0, 0>>
                      [] status = "graded_rule" -> <<2, 2, 2>>
                      [] status = "ungraded" -> <<1, 1, 2>>
                      [] OTHER -> <<0, 1, 2>>
  BY DEF Grant
<1> HIDE DEF n
<1>3. CASE b = "skill"
  <2>1. status = "no_mechanism"
    BY <1>3 DEF StatusOf
  <2> QED
    BY <1>2, <1>3, <2>1 DEF Worth, n
<1>4. CASE b /= "skill"
  <2>1. CASE n.total < MinRuns
    <3>1. status = "ungraded"
      BY <1>1, <1>4, <2>1 DEF StatusOf
    <3> QED
      BY <1>2, <1>4, <2>1, <3>1 DEF Worth, n
  <2>2. CASE n.total >= MinRuns /\ 10 * n.good < 3 * n.total
    <3>1. status \in {"graded_gotcha", "error"}
      BY <1>1, <1>4, <2>2 DEF StatusOf
    <3>2. ~(n.total < MinRuns)
      BY <1>1, <2>2
    <3> QED
      BY <1>2, <1>4, <2>2, <3>1, <3>2 DEF Worth, n
  <2>3. CASE n.total >= MinRuns /\ 10 * n.good >= 7 * n.total
    <3>1. status = "graded_rule"
      BY <1>1, <1>4, <2>3 DEF StatusOf
    <3>2. ~(n.total < MinRuns) /\ ~(10 * n.good < 3 * n.total)
      BY <1>1, <2>3
    <3> QED
      BY <1>2, <1>4, <2>3, <3>1, <3>2 DEF Worth, n
  <2>4. CASE /\ n.total >= MinRuns /\ 10 * n.good >= 3 * n.total
             /\ ~(10 * n.good >= 7 * n.total)
    <3>1. status = "graded_neutral"
      BY <1>1, <1>4, <2>4 DEF StatusOf
    <3>2. ~(n.total < MinRuns) /\ ~(10 * n.good < 3 * n.total)
      BY <1>1, <2>4
    <3> QED
      BY <1>2, <1>4, <2>4, <3>1, <3>2 DEF Worth, n
  <2> QED
    BY <1>1, <2>1, <2>2, <2>3, <2>4
<1> QED
  BY <1>3, <1>4

\* Better grades: no seed is granted less, and the brake is not put on.
LEMMA BetterGrades ==
  ASSUME NEW b \in Backings, NEW n, NEW m,
         n.total \in Nat, n.good \in Nat, m.total \in Nat, m.good \in Nat,
         n.good <= n.total,
         \/ m.total = n.total + 1 /\ m.good = n.good + 1 /\ n.total >= MinRuns
         \/ m.total = n.total /\ m.good >= n.good
  PROVE  NoLess(Worth(b, m), Worth(b, n))
<1>1. /\ MinRuns \in Nat /\ FruitlessRuns \in Nat /\ 1 <= MinRuns
  BY EfficacyAssumption
<1>2. /\ m.total < MinRuns <=> n.total < MinRuns
      /\ n.total >= MinRuns /\ 10 * m.good < 3 * m.total => 10 * n.good < 3 * n.total
      /\ n.total >= MinRuns /\ 10 * n.good >= 7 * n.total => 10 * m.good >= 7 * m.total
      /\ m.good = 0 => n.good = 0 /\ m.total = n.total
  BY <1>1
<1>3. /\ NoLess(<<0, 1, 2>>, <<0, 0, 0>>) /\ NoLess(<<2, 2, 2>>, <<0, 0, 0>>)
      /\ NoLess(<<2, 2, 2>>, <<0, 1, 2>>) /\ NoLess(<<0, 0, 0>>, <<0, 0, 0>>)
      /\ NoLess(<<0, 1, 2>>, <<0, 1, 2>>) /\ NoLess(<<2, 2, 2>>, <<2, 2, 2>>)
      /\ NoLess(<<1, 1, 2>>, <<1, 1, 2>>)
  BY DEF NoLess
<1>4. ~(10 * n.good < 3 * n.total /\ 10 * n.good >= 7 * n.total)
      /\ (n.total < MinRuns <=> ~(n.total >= MinRuns))
  BY <1>1
<1> QED
  BY <1>2, <1>3, <1>4 DEF Worth

\* Worse grades: no seed is granted more.
LEMMA WorseGrades ==
  ASSUME NEW b \in Backings, NEW n, NEW m,
         n.total \in Nat, n.good \in Nat, m.total \in Nat, m.good \in Nat,
         n.total >= MinRuns, m.total \in {n.total, n.total + 1}, m.good <= n.good
  PROVE  NoLess(Worth(b, n), Worth(b, m))
<1>1. /\ MinRuns \in Nat /\ FruitlessRuns \in Nat /\ 1 <= MinRuns
  BY EfficacyAssumption
<1>2. /\ ~(m.total < MinRuns) /\ ~(n.total < MinRuns)
      /\ 10 * n.good < 3 * n.total => 10 * m.good < 3 * m.total
      /\ 10 * m.good >= 7 * m.total => 10 * n.good >= 7 * n.total
      /\ n.total >= FruitlessRuns /\ n.good = 0 => m.total >= FruitlessRuns /\ m.good = 0
  BY <1>1
<1>3. /\ NoLess(<<0, 1, 2>>, <<0, 0, 0>>) /\ NoLess(<<2, 2, 2>>, <<0, 0, 0>>)
      /\ NoLess(<<2, 2, 2>>, <<0, 1, 2>>) /\ NoLess(<<0, 0, 0>>, <<0, 0, 0>>)
      /\ NoLess(<<0, 1, 2>>, <<0, 1, 2>>) /\ NoLess(<<2, 2, 2>>, <<2, 2, 2>>)
  BY DEF NoLess
<1> QED
  BY <1>2, <1>3 DEF Worth

\* A success puts the brake on nobody, while the warm-up is of three runs or fewer: then
\* the first rate to count is not below three in ten with a success in it.
LEMMA BetterBrake ==
  ASSUME Warmup <= 3, NEW n, NEW m,
         n.total \in Nat, n.good \in Nat, m.total \in Nat, m.good \in Nat,
         n.good <= n.total,
         \/ m.total = n.total + 1 /\ m.good = n.good + 1
         \/ m.total = n.total /\ m.good >= n.good,
         Brake(m) = 12
  PROVE  Brake(n) = 12
<1>1. Warmup \in Nat
  BY EfficacyAssumption
<1>2. m.total >= Warmup /\ 10 * m.good < 3 * m.total
  BY <1>1 DEF Brake
<1>3. n.total >= Warmup /\ 10 * n.good < 3 * n.total
  BY <1>1, <1>2
<1> QED
  BY <1>1, <1>3 DEF Brake

\* A failure lets nobody run sooner.
LEMMA WorseBrake ==
  ASSUME NEW n, NEW m,
         n.total \in Nat, n.good \in Nat, m.total \in Nat, m.good \in Nat,
         m.total \in {n.total, n.total + 1}, m.good <= n.good
  PROVE  Brake(m) >= Brake(n)
<1>1. Warmup \in Nat
  BY EfficacyAssumption
<1>2. /\ n.total >= Warmup => m.total >= Warmup
      /\ 10 * n.good < 3 * n.total => 10 * m.good < 3 * m.total
  BY <1>1
<1> QED
  BY <1>1, <1>2 DEF Brake

-----------------------------------------------------------------------------
(* The logs' steps                                                           *)

\* What a run that is logged does to the grades.
LEMMA LoggedTally ==
  ASSUME EfficacyIInv, NEW r \in LogRows, RunIsLogged(r), NEW k
  PROVE  LET was == Tally(k, Read)  is == Tally(k, ReadNext)  e == Last(runLog')
         IN  /\ was.total \in Nat /\ was.good \in Nat /\ is.total \in Nat /\ is.good \in Nat
             /\ was.good <= was.total
             /\ ~(Graded(e) /\ Key(e) = k) => is = was
             /\ Graded(e) /\ Key(e) = k /\ Passed(e) =>
                  /\ is.good >= 1
                  /\ \/ is.total = was.total + 1 /\ is.good = was.good + 1
                     \/ is.total = was.total /\ is.good >= was.good
             /\ Graded(e) /\ Key(e) = k /\ ~Passed(e) =>
                  /\ is.total \in {was.total, was.total + 1}
                  /\ is.good <= was.good
<1> DEFINE e == [row |-> r, at |-> tick]
<1>1. e \in Entries /\ e.at = tick /\ tick \in Ticks
  BY DEF Entries, EfficacyIInv
<1>2. runLog' = Append(runLog, e) /\ rejudged' = rejudged /\ tick' = tick
  BY DEF RunIsLogged
<1> HIDE DEF e
<1>3. Read \in GradeReads /\ Read.up \subseteq DOMAIN Read.log /\ Read.now = tick
  <2>1. DOMAIN runLog \subseteq Nat
    BY LogFacts
  <2> QED
    BY <2>1 DEF EfficacyIInv, Read, GradeReads
<1>4. ReadNext = Longer(Read, e)
  BY <1>2 DEF ReadNext, Read, Longer
<1>5. Last(runLog') = e
  <2>1. Len(runLog') = Len(runLog) + 1 /\ runLog'[Len(runLog) + 1] = e
    BY <1>1, <1>2, AppendProperties DEF EfficacyIInv
  <2> QED
    BY <2>1 DEF Last
<1>6. e.at >= Read.now - AgingTicks
  <2>1. tick \in Nat /\ AgingTicks \in Nat
    BY <1>1, EfficacyAssumption DEF Ticks
  <2> QED
    BY <1>1, <1>3, <2>1
<1> QED
  BY <1>1, <1>3, <1>4, <1>5, <1>6, TallyMoves

\* A late success.
LEMMA RejudgedTally ==
  ASSUME EfficacyIInv, NEW i \in DOMAIN runLog, IsRejudged(i), NEW k
  PROVE  LET was == Tally(k, Read)  is == Tally(k, ReadNext)
         IN  /\ was.total \in Nat /\ was.good \in Nat /\ is.total \in Nat /\ is.good \in Nat
             /\ was.good <= was.total
             /\ is.total = was.total /\ is.good >= was.good
<1> DEFINE S == Counted(k, Read)
           P == {j \in S : Passed(Read.log[j]) \/ (k = "skill" /\ j \in Read.up)}
           Q == {j \in S : Passed(Read.log[j]) \/ (k = "skill" /\ j \in ReadNext.up)}
<1>1. /\ ReadNext.log = Read.log /\ ReadNext.now = Read.now /\ Read.up \subseteq ReadNext.up
      /\ Read.log = runLog
  BY DEF IsRejudged, Read, ReadNext
<1>2. Counted(k, ReadNext) = S
  BY <1>1 DEF Counted, FreshRows
<1>3. Tally(k, Read) = [total |-> Cardinality(S), good |-> Cardinality(P)]
  BY DEF Tally
<1>4. Tally(k, ReadNext) = [total |-> Cardinality(S), good |-> Cardinality(Q)]
  BY <1>1, <1>2 DEF Tally
<1>5. IsFiniteSet(S)
  <2>1. S \in SUBSET DOMAIN runLog
    BY <1>1 DEF Counted, FreshRows
  <2> QED
    BY <2>1, LogFacts, FS_Subset
<1>6. P \in SUBSET Q /\ Q \in SUBSET S
  BY <1>1
<1> HIDE DEF S, P, Q
<1>7. IsFiniteSet(Q) /\ IsFiniteSet(P) /\ Cardinality(P) <= Cardinality(Q)
  BY <1>5, <1>6, FS_Subset
<1>8. Cardinality(S) \in Nat /\ Cardinality(P) \in Nat /\ Cardinality(Q) \in Nat
  BY <1>5, <1>7, FS_CardinalityType
<1>9. Cardinality(P) <= Cardinality(S)
  <2>1. P \in SUBSET S
    BY <1>6
  <2> QED
    BY <1>5, <2>1, FS_Subset
<1> QED
  BY <1>3, <1>4, <1>7, <1>8, <1>9

\* Only a run that is logged makes the log longer.
LEMMA OnlyRunsAreLogged ==
  ASSUME EfficacyIInv, EfficacyNext, Len(runLog') > Len(runLog)
  PROVE  \E r \in LogRows : RunIsLogged(r)
<1>1. Len(runLog) \in Nat
  BY DEF EfficacyIInv
<1>2. runLog' /= runLog
  BY <1>1
<1> QED
  BY <1>2 DEF EfficacyNext, IsRejudged, SessionIsEmitted, TimePasses, SnapshotTaken,
              HistoryBackfilled

\* With the warm-up of the code, of three runs, or a shorter one.
LEMMA CooldownsAreEarned ==
  ASSUME Warmup <= 3, EfficacyIInv, EfficacyNext
  PROVE  CooldownIsEarned
<1> DEFINE e == Last(runLog')
<1> SUFFICES ASSUME Len(runLog') > Len(runLog), NEW k \in Scales
             PROVE  LET was == Multiplier(k, Read)
                        is == Multiplier(k, ReadNext)
                    IN  IF ~Graded(e) \/ k # Key(e) THEN is = was
                        ELSE IF Passed(e) THEN is = 12 => was = 12
                        ELSE is >= was
  BY DEF CooldownIsEarned
<1> DEFINE was == Tally(k, Read)
           is == Tally(k, ReadNext)
<1>1. PICK r \in LogRows : RunIsLogged(r)
  BY OnlyRunsAreLogged
<1>2. /\ was.total \in Nat /\ was.good \in Nat /\ is.total \in Nat /\ is.good \in Nat
      /\ was.good <= was.total
      /\ ~(Graded(e) /\ Key(e) = k) => is = was
      /\ Graded(e) /\ Key(e) = k /\ Passed(e) =>
           /\ is.good >= 1
           /\ \/ is.total = was.total + 1 /\ is.good = was.good + 1
              \/ is.total = was.total /\ is.good >= was.good
      /\ Graded(e) /\ Key(e) = k /\ ~Passed(e) =>
           is.total \in {was.total, was.total + 1} /\ is.good <= was.good
  BY <1>1, LoggedTally
<1>3. Multiplier(k, Read) = Brake(was) /\ Multiplier(k, ReadNext) = Brake(is)
  BY <1>2, BrakeSays
<1>4. Warmup \in Nat /\ Warmup >= 1
  BY EfficacyAssumption
<1> HIDE DEF was, is, e
<1>5. CASE ~(Graded(e) /\ Key(e) = k)
  BY <1>2, <1>3, <1>5
<1>6. CASE Graded(e) /\ Key(e) = k /\ Passed(e)
  BY <1>2, <1>3, <1>6, BetterBrake
<1>7. CASE Graded(e) /\ Key(e) = k /\ ~Passed(e)
  <2>1. Brake(is) >= Brake(was)
    BY <1>2, <1>7, WorseBrake
  <2> QED
    BY <1>3, <1>7, <2>1
<1> QED
  BY <1>5, <1>6, <1>7

LEMMA GrantsAreEarned ==
  ASSUME EfficacyIInv, EfficacyNext
  PROVE  GrantIsEarned
<1> DEFINE e == Last(runLog')
<1> SUFFICES ASSUME Len(runLog') > Len(runLog), NEW b \in Backings
             PROVE  LET was == Grant(b, Read)
                        is == Grant(b, ReadNext)
                    IN  IF ~Graded(e) \/ GradedBy(b) # Key(e) THEN is = was
                        ELSE /\ was.total >= MinRuns => \A seed \in 1 .. 3 :
                                  IF Passed(e) THEN is.maturity[seed] >= was.maturity[seed]
                                  ELSE is.maturity[seed] <= was.maturity[seed]
                             /\ b = "skill" /\ Passed(e) => is.maturity = <<0, 1, 2>>
  BY DEF GrantIsEarned
<1> DEFINE k == GradedBy(b)
           was == Tally(k, Read)
           is == Tally(k, ReadNext)
<1>1. PICK r \in LogRows : RunIsLogged(r)
  BY OnlyRunsAreLogged
<1>2. /\ was.total \in Nat /\ was.good \in Nat /\ is.total \in Nat /\ is.good \in Nat
      /\ was.good <= was.total
      /\ ~(Graded(e) /\ Key(e) = k) => is = was
      /\ Graded(e) /\ Key(e) = k /\ Passed(e) =>
           /\ is.good >= 1
           /\ \/ is.total = was.total + 1 /\ is.good = was.good + 1
              \/ is.total = was.total /\ is.good >= was.good
      /\ Graded(e) /\ Key(e) = k /\ ~Passed(e) =>
           is.total \in {was.total, was.total + 1} /\ is.good <= was.good
  BY <1>1, LoggedTally
<1>3. /\ Grant(b, Read).maturity = Worth(b, was)
      /\ Grant(b, ReadNext).maturity = Worth(b, is)
  BY <1>2, WorthSays
<1>4. Grant(b, Read).total = was.total
  BY DEF Grant
<1>5. is = was => Grant(b, ReadNext) = Grant(b, Read)
  BY DEF Grant
<1> HIDE DEF was, is, e
<1>6. CASE ~(Graded(e) /\ Key(e) = k)
  BY <1>2, <1>5, <1>6
<1>7. CASE Graded(e) /\ Key(e) = k /\ Passed(e)
  <2>1. was.total >= MinRuns => NoLess(Worth(b, is), Worth(b, was))
    BY <1>2, <1>7, BetterGrades
  <2>2. b = "skill" => Worth(b, is) = <<0, 1, 2>>
    BY <1>2, <1>7 DEF Worth
  <2> QED
    BY <1>3, <1>4, <1>7, <2>1, <2>2 DEF NoLess
<1>8. CASE Graded(e) /\ Key(e) = k /\ ~Passed(e)
  <2>1. was.total >= MinRuns => NoLess(Worth(b, was), Worth(b, is))
    BY <1>2, <1>8, WorseGrades
  <2>2. \A seed \in 1 .. 3 : Worth(b, was)[seed] \in Int /\ Worth(b, is)[seed] \in Int
    BY DEF Worth
  <2>3. was.total >= MinRuns =>
          \A seed \in 1 .. 3 : Worth(b, is)[seed] <= Worth(b, was)[seed]
    BY <2>1, <2>2 DEF NoLess
  <2> QED
    BY <1>3, <1>4, <1>8, <2>3
<1> QED
  BY <1>6, <1>7, <1>8

LEMMA RejudgingHelps ==
  ASSUME EfficacyIInv, EfficacyNext
  PROVE  RejudgedHelps
<1> SUFFICES ASSUME rejudged' # rejudged PROVE RejudgedHelps
  BY DEF RejudgedHelps
<1>1. PICK i \in DOMAIN runLog : IsRejudged(i)
  BY DEF EfficacyNext, RunIsLogged, SessionIsEmitted, TimePasses, SnapshotTaken,
         HistoryBackfilled
<1>2. /\ runLog' = runLog /\ emitted' = emitted /\ snap' = snap /\ tick' = tick
      /\ verdictTier' = verdictTier /\ rejudged \subseteq rejudged'
  BY <1>1 DEF IsRejudged
<1>3. /\ FireTime' = FireTime /\ VerdictRuns' = VerdictRuns /\ LiveFireTime' = LiveFireTime
      /\ \A j : TheRow(j)' = TheRow(j)
  BY <1>2 DEF FireTime, VerdictRuns, LiveFireTime, TheRow, HasVerdict, IsAutonomous
<1>4. /\ ImprovedDirect \subseteq ImprovedDirect'
      /\ ImprovedDirect' \subseteq DOMAIN runLog
  BY <1>2, <1>3 DEF ImprovedDirect, LiveFireTime, FireTime, VerdictRuns
<1>5. (ImprovedDirect \cap FireTime)' = ImprovedDirect \cap FireTime
  <2>1. FireTime \cap VerdictRuns = {}
    BY TiersAreApart DEF OneTierPerRun
  <2> QED
    BY <1>3, <2>1 DEF ImprovedDirect
<1>6. ASSUME NEW m \in Metrics PROVE ImprovedWith(m)' >= ImprovedWith(m)
  <2> DEFINE W == Cardinality(ImprovedWindows(m))
  <2>1. W' = W
    <3>1. SkillUses' = SkillUses
      BY <1>2 DEF SkillUses, Correlated, HasVerdict, TheRow
    <3>2. \A u : /\ FlaggedBefore(m, u)' = FlaggedBefore(m, u)
                 /\ SnapsAfter(m, u)' = SnapsAfter(m, u)
      BY <1>2 DEF FlaggedBefore, SnapsAfter
    <3>3. /\ Bracketed(m)' = Bracketed(m)
          /\ \A u : WindowAround(m, u)' = WindowAround(m, u)
      BY <3>1, <3>2 DEF Bracketed, WindowAround
    <3>4. /\ Windows(m)' = Windows(m)
          /\ \A w : ReflexUsesIn(m, w)' = ReflexUsesIn(m, w)
      BY <3>3 DEF Windows, UsesIn, ReflexUsesIn
    <3>5. ReflexWindows(m)' = ReflexWindows(m)
      BY <3>4 DEF ReflexWindows
    <3>6. ImprovedWindows(m)' = ImprovedWindows(m)
      BY <1>2, <3>5 DEF ImprovedWindows
    <3> QED
      BY <3>6
  <2>2. /\ IsFiniteSet(ImprovedDirect') /\ IsFiniteSet(ImprovedDirect)
        /\ Cardinality(ImprovedDirect) <= Cardinality(ImprovedDirect')
    BY <1>4, LogFacts, FS_Subset
  <2>3. Cardinality(ImprovedDirect) \in Nat /\ Cardinality(ImprovedDirect') \in Nat
    BY <2>2, FS_CardinalityType
  <2>4. \A w \in ImprovedWindows(m) : \E j \in Unjudged : WindowOf(m, j) = w
    BY WindowsHaveRuns DEF ImprovedWindows, ReflexWindows
  <2>8. IsFiniteSet(Unjudged)
    <3>1. Unjudged \in SUBSET DOMAIN runLog
      BY DEF Unjudged, Correlated
    <3> QED
      BY <3>1, LogFacts, FS_Subset
  <2>5. W \in Nat
    BY <2>4, <2>8, WindowsAreFewer
  <2>6. ImprovedWith(m) = Cardinality(ImprovedDirect) + W
    BY DEF ImprovedWith
  <2>7. ImprovedWith(m)' = Cardinality(ImprovedDirect') + W
    BY <2>1 DEF ImprovedWith
  <2> HIDE DEF W
  <2> QED
    BY <2>2, <2>3, <2>5, <2>6, <2>7
<1>7. ASSUME NEW k
      PROVE  LET was == Tally(k, Read)  is == Tally(k, ReadNext)
             IN  /\ was.total \in Nat /\ was.good \in Nat
                 /\ is.total \in Nat /\ is.good \in Nat
                 /\ was.good <= was.total
                 /\ is.total = was.total /\ is.good >= was.good
  BY <1>1, RejudgedTally
<1>8. ASSUME NEW k \in Scales
      PROVE  Multiplier(k, ReadNext) <= Multiplier(k, Read)
  <2> DEFINE was == Tally(k, Read)
             is == Tally(k, ReadNext)
  <2>1. /\ was.total \in Nat /\ was.good \in Nat /\ is.total \in Nat /\ is.good \in Nat
        /\ is.total = was.total /\ is.good >= was.good
    BY <1>7
  <2>2. Multiplier(k, Read) = Brake(was) /\ Multiplier(k, ReadNext) = Brake(is)
    BY <2>1, BrakeSays
  <2> HIDE DEF was, is
  <2>3. Brake(is) <= Brake(was)
    BY <2>1, EfficacyAssumption DEF Brake
  <2> QED
    BY <2>2, <2>3
<1>9. ASSUME NEW b \in Backings, NEW seed \in 1 .. 3
      PROVE  Grant(b, ReadNext).maturity[seed] >= Grant(b, Read).maturity[seed]
  <2> DEFINE was == Tally(GradedBy(b), Read)
             is == Tally(GradedBy(b), ReadNext)
  <2>1. /\ was.total \in Nat /\ was.good \in Nat /\ is.total \in Nat /\ is.good \in Nat
        /\ was.good <= was.total
        /\ is.total = was.total /\ is.good >= was.good
    BY <1>7
  <2>2. /\ Grant(b, Read).maturity = Worth(b, was)
        /\ Grant(b, ReadNext).maturity = Worth(b, is)
    BY <2>1, WorthSays
  <2> HIDE DEF was, is
  <2>3. NoLess(Worth(b, is), Worth(b, was))
    BY <2>1, BetterGrades
  <2> QED
    BY <2>2, <2>3 DEF NoLess
<1> QED
  BY <1>5, <1>6, <1>8, <1>9 DEF RejudgedHelps

\* No snapshot is of the future.
SnapsArePast ==
  \A m \in Metrics, t \in Ticks : snap[m][t] /= NoValue => t <= tick

LEMMA SnapsStayPast ==
  ASSUME EfficacyIInv, SnapsArePast, [EfficacyNext]_efficacyVars
  PROVE  SnapsArePast'
<1>1. tick \in Nat /\ LastTick \in Nat /\ \A t \in Ticks : t \in Nat
  BY EfficacyAssumption DEF EfficacyIInv, Ticks
<1>2. ASSUME NEW t \in Ticks, NEW v \in SnapshotRows, RowAdded(t, v), t <= tick, tick' = tick
      PROVE  SnapsArePast'
  BY <1>1, <1>2, RowFills DEF SnapsArePast
<1>3. ASSUME snap' = snap, tick' \in {tick, tick + 1}
      PROVE  SnapsArePast'
  BY <1>1, <1>3 DEF SnapsArePast
<1>4. tick \in Ticks /\ tick <= tick
  BY <1>1 DEF EfficacyIInv
<1>5. ASSUME NEW v \in SnapshotRows, SnapshotTaken(v)
      PROVE  SnapsArePast'
  BY <1>2, <1>4, <1>5 DEF SnapshotTaken
<1>6. ASSUME NEW v \in SnapshotRows, NEW t \in Ticks, HistoryBackfilled(t, v)
      PROVE  SnapsArePast'
  <2>1. t <= tick
    BY <1>1, <1>6 DEF HistoryBackfilled
  <2> QED
    BY <1>2, <1>6, <2>1 DEF HistoryBackfilled
<1>7. CASE UNCHANGED efficacyVars
  BY <1>3, <1>7 DEF efficacyVars
<1> QED
  BY <1>3, <1>5, <1>6, <1>7
     DEF EfficacyNext, RunIsLogged, IsRejudged, SessionIsEmitted, TimePasses

\* The scores of a run that stay when nothing is made up of the past.
LEMMA ScoresAreKept ==
  ASSUME EfficacyIInv, SnapsArePast, EfficacyNext
  PROVE  ScoresStay
<1> SUFFICES ASSUME ~backfilled', NEW m \in Metrics, NEW i \in DOMAIN runLog
             PROVE  /\ ScoreStatus(m, i) = "unscoreable" => ScoreStatus(m, i)' = "unscoreable"
                    /\ ScoreStatus(m, i) = "ok" =>
                         ScoreStatus(m, i)' = "ok" /\ Delta2(m, i)' = Delta2(m, i)
  BY DEF ScoresStay
<1> DEFINE S == SnapsBy(m, i)
           T == SnapsSince(m, i)
<1>1. /\ tick \in Nat /\ Samples \in Nat /\ Samples >= 1 /\ LastTick \in Nat
      /\ \A t \in Ticks : t \in Nat
      /\ IsFiniteSet(Ticks) /\ runLog[i].at \in Nat /\ tick \in Ticks
  <2>1. LastTick \in Nat
    BY EfficacyAssumption
  <2>2. IsFiniteSet(Ticks)
    BY <2>1, FS_Interval DEF Ticks
  <2> QED
    BY <2>1, <2>2, LogFacts, EfficacyAssumption DEF EfficacyIInv, Ticks
<1>2. S \in SUBSET Ticks /\ T \in SUBSET Ticks
  BY DEF SnapsBy, SnapsSince
<1>3. /\ IsFiniteSet(S) /\ IsFiniteSet(T)
      /\ Cardinality(S) \in Nat /\ Cardinality(T) \in Nat
  BY <1>1, <1>2, FS_Subset, FS_CardinalityType
<1>4. /\ ScoreStatus(m, i) = "unscoreable" <=> Cardinality(S) < Samples
      /\ ScoreStatus(m, i) = "ok" <=>
           Cardinality(S) >= Samples /\ Cardinality(T) >= Samples
  BY <1>1, <1>3 DEF ScoreStatus
<1>5. ASSUME S' = S, T' = T, snap' = snap
      PROVE  ScoreStatus(m, i)' = ScoreStatus(m, i) /\ Delta2(m, i)' = Delta2(m, i)
  BY <1>5 DEF ScoreStatus, Delta2, SnapsOf, Oldest, Newest
<1>6. ASSUME runLog'[i] = runLog[i], snap' = snap
      PROVE  S' = S /\ T' = T
  BY <1>6 DEF SnapsBy, SnapsSince
<1>7. ASSUME NEW r \in LogRows, RunIsLogged(r)
      PROVE  runLog'[i] = runLog[i] /\ snap' = snap
  <2>1. [row |-> r, at |-> tick] \in Entries
    BY DEF Entries, EfficacyIInv
  <2>2. runLog' = Append(runLog, [row |-> r, at |-> tick]) /\ snap' = snap
    BY <1>7 DEF RunIsLogged
  <2> QED
    BY <2>1, <2>2, LogFacts, AppendProperties DEF EfficacyIInv
<1>8. ASSUME NEW v \in SnapshotRows, SnapshotTaken(v)
      PROVE  /\ ScoreStatus(m, i) = "unscoreable" => ScoreStatus(m, i)' = "unscoreable"
             /\ ScoreStatus(m, i) = "ok" =>
                  ScoreStatus(m, i)' = "ok" /\ Delta2(m, i)' = Delta2(m, i)
  <2>1. /\ snap[m][tick] = NoValue /\ runLog[i].at < tick /\ runLog' = runLog
        /\ \A t \in Ticks : t /= tick => snap'[m][t] = snap[m][t]
    BY <1>1, <1>8, RowFills DEF SnapshotTaken
  <2>2. S' = S
    <3>1. S' = {t \in Ticks : t <= runLog[i].at /\ snap'[m][t] # NoValue}
      BY <2>1 DEF SnapsBy
    <3>2. \A t \in Ticks : t <= runLog[i].at => snap'[m][t] = snap[m][t]
      BY <1>1, <2>1
    <3> QED
      BY <3>1, <3>2 DEF SnapsBy
  <2>3. /\ T' = T \/ T' = T \union {tick}
        /\ \A t \in T : t < tick /\ t \in Nat
    <3>1. T' = {t \in Ticks : t > runLog[i].at /\ snap'[m][t] # NoValue}
      BY <2>1 DEF SnapsSince
    <3>2. \A t \in Ticks : t /= tick => (t \in T' <=> t \in T)
      BY <2>1, <3>1 DEF SnapsSince
    <3>3. ASSUME NEW t \in T PROVE t < tick /\ t \in Nat
      <4>1. t \in Ticks /\ snap[m][t] # NoValue
        BY DEF SnapsSince
      <4>2. t <= tick /\ t # tick
        BY <4>1, <1>1, <2>1 DEF SnapsArePast
      <4> QED
        BY <4>1, <4>2, <1>1 DEF Ticks
    <3>4. T' \subseteq Ticks /\ T \subseteq Ticks /\ tick \notin T
      BY <2>1, <3>1 DEF SnapsSince
    <3> HIDE DEF T
    <3> QED
      BY <3>2, <3>3, <3>4
  <2>4. tick \notin S /\ tick \notin T
    BY <2>1 DEF SnapsBy, SnapsSince
  <2> HIDE DEF S, T
  <2>5. Cardinality(T) >= Samples =>
          Cardinality(T') >= Samples /\ Cardinality(T') \in Nat /\ Oldest(T)' = Oldest(T)
    <3> SUFFICES ASSUME Cardinality(T) >= Samples
                 PROVE  /\ Cardinality(T') >= Samples /\ Cardinality(T') \in Nat
                        /\ Oldest(T)' = Oldest(T)
      OBVIOUS
    <3>1. CASE T' = T
      BY <1>3, <3>1 DEF Oldest
    <3>2. CASE T' = T \union {tick}
      <4>1. Cardinality(T') = Cardinality(T) + 1
        BY <1>3, <2>4, <3>2, FS_AddElement
      <4>2. \A t \in T : {u \in T' : u < t} = {u \in T : u < t}
        BY <1>1, <2>3, <3>2
      <4>3. {u \in T' : u < tick} = T
        BY <1>1, <2>3, <3>2
      <4>4. ~(Cardinality(T) < Samples)
        BY <1>1, <1>3
      <4>5. Oldest(T)' = {t \in T' : Cardinality({u \in T' : u < t}) < Samples}
        BY DEF Oldest
      <4>6. Oldest(T)' = {t \in T : Cardinality({u \in T : u < t}) < Samples}
        BY <2>4, <3>2, <4>2, <4>3, <4>4, <4>5
      <4> QED
        BY <1>1, <1>3, <4>1, <4>6 DEF Oldest
    <3> QED
      BY <2>3, <3>1, <3>2
  <2>6. Newest(S)' = Newest(S) /\ Newest(S) \subseteq Ticks \ {tick}
        /\ Oldest(T) \subseteq Ticks \ {tick}
    BY <1>2, <2>2, <2>4 DEF Newest, Oldest
  <2>7. \A X \in SUBSET (Ticks \ {tick}) :
          [t \in X |-> snap'[m][t]] = [t \in X |-> snap[m][t]]
    BY <2>1
  <2>8. Cardinality(T) >= Samples => Delta2(m, i)' = Delta2(m, i)
    <3> SUFFICES ASSUME Cardinality(T) >= Samples PROVE Delta2(m, i)' = Delta2(m, i)
      OBVIOUS
    <3>1. SnapsOf(m, Oldest(T))' = SnapsOf(m, Oldest(T))
      BY <2>5, <2>6, <2>7 DEF SnapsOf
    <3>2. SnapsOf(m, Newest(S))' = SnapsOf(m, Newest(S))
      BY <2>6, <2>7 DEF SnapsOf
    <3> QED
      BY <3>1, <3>2 DEF Delta2, S, T
  <2>9. /\ ScoreStatus(m, i)' = "unscoreable" <=> Cardinality(S) < Samples
        /\ Cardinality(S) >= Samples /\ Cardinality(T') >= Samples /\ Cardinality(T') \in Nat
             => ScoreStatus(m, i)' = "ok"
    BY <1>1, <1>3, <2>2 DEF ScoreStatus, S, T
  <2> QED
    BY <1>4, <2>5, <2>8, <2>9
<1>9. ASSUME NEW v \in SnapshotRows, NEW t \in Ticks, HistoryBackfilled(t, v)
      PROVE  FALSE
  BY <1>9 DEF HistoryBackfilled
<1>10. CASE \E r \in LogRows : RunIsLogged(r)
  BY <1>5, <1>6, <1>7, <1>10
<1>11. CASE runLog' = runLog /\ snap' = snap
  BY <1>5, <1>6, <1>11
<1> QED
  BY <1>8, <1>9, <1>10, <1>11
     DEF EfficacyNext, IsRejudged, SessionIsEmitted, TimePasses

\* For any window and limits with a warm-up of three runs, as the code has it
\* (skill_efficacy.py:18), or fewer: no cooldown or grant moves against a run's verdict,
\* a late success takes nothing away, and a score, once given, stays (skill_efficacy.py,
\* maturity.py, remediation.py, remediation_delta.py).
THEOREM GradesFollowRuns ==
  ASSUME Warmup <= 3 PROVE EfficacySpec => EfficacySteps
<1>1. EfficacyInit => EfficacyIInv /\ SnapsArePast
  BY EfficacyStarts DEF EfficacyInit, SnapsArePast
<1>2. EfficacyIInv /\ SnapsArePast /\ [EfficacyNext]_efficacyVars
        => (EfficacyIInv /\ SnapsArePast)'
  BY EfficacyStays, SnapsStayPast
<1>3. EfficacyIInv /\ SnapsArePast /\ [EfficacyNext]_efficacyVars
        => [CooldownIsEarned /\ GrantIsEarned /\ RejudgedHelps /\ ScoresStay]_efficacyVars
  BY CooldownsAreEarned, GrantsAreEarned, RejudgingHelps, ScoresAreKept
<1> QED
  BY <1>1, <1>2, <1>3, PTL DEF EfficacySpec, EfficacySteps

-----------------------------------------------------------------------------
(* The parts side by side                                                    *)

\* A step of all parts.
MCStep == [MCNext]_<<live, vars, partVars, logVars>>

\* The same part lives for ever, and behaves as its own specification says, whatever
\* the state in which the others keep still.
LEMMA PartsAreApart == MCSpec =>
  /\ PatchSpec \/ []~(live = "patch")
  /\ InstallerSpec \/ []~(live = "installer")
  /\ PipSpec \/ []~(live = "pip")
  /\ AlertsSpec \/ []~(live = "alerts")
  /\ EfficacySpec \/ []~(live = "efficacy")
  /\ RefreshSpec \/ []~(live = "refresh")
  /\ HistorySpec \/ []~(live = "history")
  /\ ThresholdsSpec \/ []~(live = "thresholds")
  /\ CardsSpec \/ []~(live = "cards")
<1>1. /\ MCInit /\ live = "patch" => PatchInit
      /\ MCStep => /\ [PatchNext]_patchVars
                   /\ (live = "patch" <=> (live = "patch")')
  BY DEF MCStep, MCInit, MCNext, partVars, logVars, gradeVars
<1>2. /\ MCInit /\ live = "pip" => PipInit
      /\ MCStep => /\ [PipNext]_pipVars
                   /\ (live = "pip" <=> (live = "pip")')
  BY DEF MCStep, MCInit, MCNext, partVars, logVars, gradeVars
<1>3. /\ MCInit /\ live = "alerts" => AlertsInit
      /\ MCStep => /\ [AlertsNext]_alertsVars
                   /\ (live = "alerts" <=> (live = "alerts")')
  BY DEF MCStep, MCInit, MCNext, partVars, logVars, gradeVars
<1>4. /\ MCInit /\ live = "efficacy" => EfficacyInit
      /\ MCStep => /\ [EfficacyNext]_efficacyVars
                   /\ (live = "efficacy" <=> (live = "efficacy")')
  BY DEF MCStep, MCInit, MCNext, partVars, logVars, gradeVars
<1>5. /\ MCInit /\ live = "refresh" => RefreshInit
      /\ MCStep => /\ [RefreshNext]_refreshVars
                   /\ (live = "refresh" <=> (live = "refresh")')
  BY DEF MCStep, MCInit, MCNext, partVars, logVars, gradeVars
<1>6. /\ MCInit /\ live = "history" => HistoryInit
      /\ MCStep => /\ [HistoryNext]_historyVars
                   /\ (live = "history" <=> (live = "history")')
  BY DEF MCStep, MCInit, MCNext, partVars, logVars, gradeVars
<1>7. /\ MCInit /\ live = "thresholds" => ThresholdsInit
      /\ MCStep => /\ [ThresholdsNext]_thresholdsVars
                   /\ (live = "thresholds" <=> (live = "thresholds")')
  BY DEF MCStep, MCInit, MCNext, partVars, logVars, gradeVars
<1>8. /\ MCInit /\ live = "cards" => CardsInit
      /\ MCStep => /\ [CardsNext]_cardsVars
                   /\ (live = "cards" <=> (live = "cards")')
  BY DEF MCStep, MCInit, MCNext, partVars, logVars, gradeVars
<1>9. /\ MCInit /\ live = "installer" => InstallerInit
      /\ MCStep => /\ [InstallerNext]_installerVars
                   /\ (live = "installer" <=> (live = "installer")')
  BY DEF MCStep, MCInit, MCNext, partVars, logVars, gradeVars
<1> QED
  BY <1>1, <1>2, <1>3, <1>4, <1>5, <1>6, <1>7, <1>8, <1>9, PTL
     DEF MCSpec, MCStep, PatchSpec, PipSpec, AlertsSpec, EfficacySpec, RefreshSpec,
         HistorySpec, ThresholdsSpec, CardsSpec, InstallerSpec

\* Side by side, patches and upgrades stay sound (worktree_patch_runner.py,
\* review_pending_patch.py, pip_safe_upgrade.py).
THEOREM ChangesAreKept == MCSpec => []ChangesKept
<1>1. (PatchInv \/ ~(live = "patch")) /\ (PipInv \/ ~(live = "pip")) => ChangesKept
  BY DEF ChangesKept
<1> QED
  BY <1>1, PartsAreApart, PatchesAreSound, UpgradesAreSound, PTL

\* Side by side, and until two commands run at once, no hook of the user is lost and
\* none of Samurai's runs twice (bin/samurai).
THEOREM InstallerIsKept == MCSpec => []InstallerKept
<1>1. (InstallerInv \/ ~(live = "installer")) => InstallerKept
  BY DEF InstallerKept
<1> QED
  BY <1>1, PartsAreApart, InstallerIsSound, PTL

\* Side by side, the human is told again no more often than loads and saves were lost
\* (bin/hitl_alerts.py).
THEOREM AlertsAreKept == MCSpec => []AlertsKept
<1>1. (AlertsInv \/ ~(live = "alerts")) => AlertsKept
  BY DEF AlertsKept
<1> QED
  BY <1>1, PartsAreApart, AlertsAreSound, PTL

\* Side by side, guards and cards stay sound (insights.py, threshold_audit.py,
\* reflex-engine.ts).
THEOREM GuardsAreKept == MCSpec => []GuardsKept
<1>1. (ThresholdsInv \/ ~(live = "thresholds")) /\ (CardsInv \/ ~(live = "cards"))
        => GuardsKept
  BY DEF GuardsKept
<1> QED
  BY <1>1, PartsAreApart, GuardsAreSound, CardsAreSound, PTL

\* Side by side, one run has one verdict (remediation.py, skill_efficacy.py,
\* maturity.py, reflex_eureka.py).
THEOREM EfficacyIsKept == MCSpec => []EfficacyKept
<1>1. (EfficacyInv \/ ~(live = "efficacy")) => EfficacyKept
  BY DEF EfficacyKept
<1> QED
  BY <1>1, PartsAreApart, RunsAreCountedOnce, PTL

\* Side by side, no run is missing from the telemetry and no week from the history
\* (refresh_dashboard.py, backfill_history.py, append_snapshot in insights.py).
THEOREM RecordsAreKept == MCSpec => []RecordsKept
<1>1. (RefreshInv \/ ~(live = "refresh")) /\ (HistoryInv \/ ~(live = "history"))
        => RecordsKept
  BY DEF RecordsKept
<1> QED
  BY <1>1, PartsAreApart, VerdictsAreEarned, PastIsKept, PTL

\* Side by side, grades go on following the runs (skill_efficacy.py, maturity.py,
\* remediation.py, remediation_delta.py).
THEOREM GradesKeepFollowing ==
  ASSUME Warmup <= 3 PROVE MCSpec => EfficacySteps
<1>1. MCStep => /\ live = "efficacy" <=> (live = "efficacy")'
                /\ ~(live = "efficacy") => UNCHANGED efficacyVars
  BY DEF MCStep, MCNext, partVars, logVars, gradeVars
<1>2. MCStep /\ ~(live = "efficacy")
        => [CooldownIsEarned /\ GrantIsEarned /\ RejudgedHelps /\ ScoresStay]_efficacyVars
  BY <1>1
<1> QED
  BY <1>2, PartsAreApart, GradesFollowRuns, PTL DEF MCSpec, MCStep, EfficacySteps
=============================================================================
