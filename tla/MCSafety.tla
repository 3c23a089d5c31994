------------------------------- MODULE MCSafety -------------------------------
(* The parts whose promises are safety alone: the approval queue under a skill  *)
(* table that changes (HitlQueue), the patch lanes, the installer, the package  *)
(* upgrade, the alerts, the efficacy of a skill, the refresh and its history,   *)
(* the guards of a metric and the cards made of its readings.                   *)
(* They share no state: a behaviour is one of a single part, which `live`       *)
(* names, while the variables of the others keep a state in which they are at   *)
(* rest.                                                                        *)
EXTENDS MCHitlQueue, PatchReview, MCInstaller, PipUpgrade, Alerts, Efficacy,
        Refresh, History, Thresholds, Cards

CONSTANTS
  brush, mirror,
  torch, requests,
  own, timer,
  snapA, snapB,
  auditA, auditB,
  cost, slop, turns

VARIABLE live

MCRounds == [l \in {brush, mirror} |-> IF l = brush THEN 2 ELSE 1]
MCPlace == [g \in Gauges |-> IF g = cost THEN 1 ELSE IF g = slop THEN 2 ELSE 3]
MCRisk == [p \in Packages |-> IF p = torch THEN 3 ELSE 1]

-----------------------------------------------------------------------------
(* A part that is at rest                                                    *)

QueueRest == queue = [i \in Rows |-> BlankRow] /\ Init

Resting(v) == v = "rest"

PatchRest ==
  /\ Resting(stray) /\ Resting(lane)
  /\ Resting(pending) /\ Resting(archived) /\ Resting(replaced) /\ Resting(refused)
  /\ Resting(review) /\ Resting(adopted)

InstallerRest ==
  /\ Resting(config) /\ Resting(manifest) /\ Resting(cmd) /\ Resting(user)
  /\ Resting(left) /\ Resting(lock)

PipRest ==
  /\ Resting(pip) /\ Resting(target) /\ Resting(before) /\ Resting(version)
  /\ Resting(step) /\ Resting(report) /\ Resting(condemned)

AlertsRest ==
  /\ Resting(date) /\ Resting(cond) /\ Resting(memory) /\ Resting(notifier)
  /\ Resting(mailer) /\ Resting(unrest) /\ Resting(request) /\ Resting(told)
  /\ Resting(mailed) /\ Resting(since) /\ Resting(extra) /\ Resting(lost)
  /\ Resting(changes) /\ Resting(mishaps)

EfficacyRest == verdictTier = TRUE /\ EfficacyInit

RefreshRest ==
  /\ Resting(breached) /\ Resting(execRows) /\ Resting(watermark)
  /\ Resting(bridged) /\ Resting(refresh) /\ Resting(data) /\ Resting(wid)
  /\ Resting(repair) /\ Resting(room) /\ Resting(tangled)

HistoryRest ==
  /\ Resting(store) /\ Resting(flock) /\ Resting(instant) /\ Resting(weekly)
  /\ Resting(snapshot) /\ Resting(fitted) /\ Resting(slack) /\ Resting(past)

ThresholdsRest ==
  /\ Resting(manual) /\ Resting(calibrated) /\ Resting(trail) /\ Resting(baseline)
  /\ Resting(audit) /\ Resting(seeds) /\ Resting(jumble) /\ Resting(leeway)

CardsRest ==
  /\ Resting(level) /\ Resting(outlook) /\ Resting(posted) /\ Resting(tally)
  /\ Resting(kept) /\ Resting(cardRun) /\ Resting(verdict)
  /\ Resting(cardLeft)

-----------------------------------------------------------------------------

MCInit ==
  /\ live \in {"queue", "patch", "installer", "pip", "alerts", "efficacy",
              "refresh", "history", "thresholds", "cards"}
  /\ IF live = "queue" THEN Init ELSE QueueRest
  /\ IF live = "patch" THEN PatchInit ELSE PatchRest
  /\ IF live = "installer" THEN InstallerInit ELSE InstallerRest
  /\ IF live = "pip" THEN PipInit ELSE PipRest
  /\ IF live = "alerts" THEN AlertsInit ELSE AlertsRest
  /\ IF live = "efficacy" THEN EfficacyInit ELSE EfficacyRest
  /\ IF live = "thresholds" THEN ThresholdsInit ELSE ThresholdsRest
  /\ IF live = "cards" THEN CardsInit ELSE CardsRest
  /\ IF live = "refresh" THEN RefreshInit ELSE RefreshRest
  /\ IF live = "history" THEN HistoryInit ELSE HistoryRest

gradeVars == <<thresholdsVars, cardsVars>>
logVars == <<efficacyVars, refreshVars, historyVars, gradeVars>>
partVars == <<patchVars, installerVars, pipVars, alertsVars>>

MCNext ==
  /\ UNCHANGED live
  /\ \/ live = "queue" /\ Next /\ UNCHANGED <<partVars, logVars>>
     \/ live = "patch" /\ PatchNext
        /\ UNCHANGED <<vars, installerVars, pipVars, alertsVars, logVars>>
     \/ live = "installer" /\ InstallerNext
        /\ UNCHANGED <<vars, patchVars, pipVars, alertsVars, logVars>>
     \/ live = "pip" /\ PipNext
        /\ UNCHANGED <<vars, patchVars, installerVars, alertsVars, logVars>>
     \/ live = "alerts" /\ AlertsNext
        /\ UNCHANGED <<vars, patchVars, installerVars, pipVars, logVars>>
     \/ live = "efficacy" /\ EfficacyNext
        /\ UNCHANGED <<vars, partVars, refreshVars, historyVars, gradeVars>>
     \/ live = "refresh" /\ RefreshNext
        /\ UNCHANGED <<vars, partVars, efficacyVars, historyVars, gradeVars>>
     \/ live = "history" /\ HistoryNext
        /\ UNCHANGED <<vars, partVars, efficacyVars, refreshVars, gradeVars>>
     \/ live = "thresholds" /\ ThresholdsNext
        /\ UNCHANGED <<vars, partVars, efficacyVars, refreshVars, historyVars,
                       cardsVars>>
     \/ live = "cards" /\ CardsNext
        /\ UNCHANGED <<vars, partVars, efficacyVars, refreshVars, historyVars,
                       thresholdsVars>>

MCSpec == MCInit /\ [][MCNext]_<<live, vars, partVars, logVars>>

-----------------------------------------------------------------------------
(* The promise of each part, looked at only while that part lives.  The         *)
(* conjuncts of each are stated, one by one, in its module.                     *)

\* PatchReview and PipUpgrade: no patch vanishes and none that was refused is applied;
\* what fails its audit is rolled back or reported.
ChangesKept ==
  /\ live = "patch" => PatchInv
  /\ live = "pip" => PipInv

\* Installer: the user's hooks stay, none of Samurai's runs twice.
InstallerKept == live = "installer" => InstallerInv

\* Alerts: the human is told, once.
AlertsKept == live = "alerts" => AlertsInv

\* Efficacy: one run, one verdict.
EfficacyKept == live = "efficacy" => EfficacyInv

\* Refresh and History: no run is missing from the telemetry, no verdict is unearned,
\* and what a week once said is never taken back.
RecordsKept ==
  /\ live = "refresh" => RefreshInv
  /\ live = "history" => HistoryInv

\* Thresholds and Cards: a guard is never laxer than it was set by hand and its changes
\* are on the trail; no breach is shown behind a milder one, and no run is credited with
\* nothing.
GuardsKept ==
  /\ live = "thresholds" => ThresholdsInv
  /\ live = "cards" => CardsInv
=============================================================================
