----------------------------- MODULE PipUpgrade -----------------------------
(***************************************************************************)
(* bin/pip_safe_upgrade.py: the packages of a dependency audit are taken   *)
(* in the order of their risk, dry-run, upgraded if the rules clear them,  *)
(* audited, and rolled back if the audit condemns the new version.         *)
(*                                                                         *)
(* Abstractions.                                                           *)
(*  - Versions are numbers, 0 for a package that is not installed.         *)
(*  - pip is a resolver, fixed for the run: what upgrading a package would *)
(*    install, and whether its output tells what it would uninstall.       *)
(*  - Packages whose names triage refuses are no candidates.               *)
(***************************************************************************)
EXTENDS Naturals

CONSTANTS
  Packages,
  Risk,        \* Risk[p]: 1 has a CVE, 2 security-adjacent, 3 the rest
  Held,        \* what an ML pin holds: torch, setuptools from 82 on
  MaxVersion

ASSUME PipAssumption ==
  /\ Packages # {} /\ Risk \in [Packages -> 1 .. 3] /\ Held \subseteq Packages
  /\ MaxVersion \in Nat \ {0}

VARIABLES
  pip,        \* [apply, ml, lists, all]: --apply, ML markers installed, the
              \* dry-run lists uninstalls, no --tiers (or else cve, security)
  target,     \* target[p]: what upgrading p makes of every package
  before,     \* versions when the run began
  version,    \* versions now
  step,       \* [at, on, prev]: where the run is, with which package, and
              \* the version of it to go back to, 0 if none was found
  report,     \* report[p]: the bucket p went to
  condemned   \* packages whose new version the audit found vulnerable

pipVars == <<pip, target, before, version, step, report, condemned>>

Versions == [Packages -> 0 .. MaxVersion]
Idle(at) == [at |-> at, on |-> CHOOSE p \in Packages : TRUE, prev |-> 0]
Buckets == {"none", "applied", "failed", "blocked", "skipped"}

PipTypeOK ==
  /\ pip \in [apply : BOOLEAN, ml : BOOLEAN, lists : BOOLEAN, all : BOOLEAN]
  /\ target \in [Packages -> Versions]
  /\ before \in Versions /\ version \in Versions
  /\ step \in [at : {"next", "upgrade", "audit", "rollback", "over"},
             on : Packages, prev : 0 .. MaxVersion]
  /\ report \in [Packages -> Buckets]
  /\ condemned \subseteq Packages

PipInit ==
  /\ pip \in [apply : BOOLEAN, ml : BOOLEAN, lists : BOOLEAN, all : BOOLEAN]
  /\ before \in Versions /\ version = before
  /\ target \in [Packages -> Versions]
  /\ step = Idle("next")
  /\ report = [p \in Packages |-> "none"]
  /\ condemned = {}

-----------------------------------------------------------------------------

Waiting == {p \in Packages : report[p] = "none" /\ (pip.all \/ Risk[p] < 3)}

\* triage: CVE first, then security-adjacent, then the rest.
IsNext(p) == p \in Waiting /\ \A q \in Waiting : Risk[p] <= Risk[q]

\* The audit's versions, whatever has been upgraded since; it tells none of a
\* package that has a CVE and is not outdated.
AlreadyCurrent(p) == Risk[p] > 1 /\ before[p] = target[p][p]

MlHardBlock(p) == pip.ml /\ p \in Held

\* detect_downgrades compares what would go with what would come.
Downgrades(p) ==
  pip.lists /\ \E q \in Packages : version[q] > 0 /\ target[p][q] < version[q]

Into(p, bucket) ==
  /\ report' = [report EXCEPT ![p] = bucket]
  /\ step' = Idle("next")

\* A package that needs no dry-run.
Settled(p) ==
  /\ step.at = "next" /\ IsNext(p)
  /\ \/ AlreadyCurrent(p) /\ Into(p, "skipped")
     \/ ~AlreadyCurrent(p) /\ MlHardBlock(p) /\ Into(p, "blocked")
  /\ UNCHANGED <<pip, target, before, version, condemned>>

\* The dry-run: it may fail, or tell of an incompatibility.  A version that
\* cannot be read is taken for that of a package that is not installed.
DryRun(p) ==
  /\ step.at = "next" /\ IsNext(p)
  /\ ~AlreadyCurrent(p) /\ ~MlHardBlock(p)
  /\ \/ Into(p, "blocked")
     \/ /\ ~Downgrades(p)
        /\ IF pip.apply
           THEN /\ \E prev \in {version[p], 0} :
                     step' = [at |-> "upgrade", on |-> p, prev |-> prev]
                /\ UNCHANGED report
           ELSE Into(p, "applied")
  /\ UNCHANGED <<pip, target, before, version, condemned>>

\* pip is at work at the upgrade of p: what has been installed so far.
Halfway(p) ==
  {v \in Versions : \A q \in Packages : v[q] \in {version[q], target[p][q]}}

\* `pip install --upgrade`, which fails part of the way, or succeeds; without an
\* auditor the new version is let pass, and so is one that cannot be read.
Upgrade ==
  /\ step.at = "upgrade"
  /\ \/ /\ Into(step.on, "failed")
        /\ version' \in Halfway(step.on)
     \/ /\ version' = target[step.on]
        /\ step' = [step EXCEPT !.at = "audit"]
        /\ UNCHANGED report
     \/ /\ version' = target[step.on]
        /\ Into(step.on, "applied")
  /\ UNCHANGED <<pip, target, before, condemned>>

\* pip-audit clears the version, gives no verdict, or condemns it.
Audit ==
  /\ step.at = "audit"
  /\ \/ Into(step.on, "applied") /\ UNCHANGED condemned
     \/ /\ step' = [step EXCEPT !.at = "rollback"]
        /\ condemned' = condemned \union {step.on}
        /\ UNCHANGED report
  /\ UNCHANGED <<pip, target, before, version>>

\* `pip install` of the version before, for which pip may move any other package;
\* `pip uninstall` if none was found, though the package was there.  Either may
\* fail or be killed, with some of it done.
Rolled(p) ==
  IF step.prev > 0
  THEN {v \in Versions : v[p] \in {version[p], step.prev}}
  ELSE {version, [version EXCEPT ![p] = 0]}

Rollback ==
  /\ step.at = "rollback"
  /\ version' \in Rolled(step.on)
  /\ Into(step.on, "failed")
  /\ UNCHANGED <<pip, target, before, condemned>>

\* pip outruns PIP_TIMEOUT_S in a dry-run or an upgrade: nothing catches it,
\* the run ends without its report.
TimesOut ==
  /\ \/ step.at = "next" /\ Waiting # {} /\ UNCHANGED version
     \/ step.at = "upgrade" /\ version' \in Halfway(step.on)
  /\ step' = Idle("over")
  /\ UNCHANGED <<pip, target, before, report, condemned>>

Reports ==
  /\ step.at = "next" /\ Waiting = {}
  /\ step' = Idle("over")
  /\ UNCHANGED <<pip, target, before, version, report, condemned>>

PipNext ==
  \/ \E p \in Packages : Settled(p) \/ DryRun(p)
  \/ Upgrade \/ Audit \/ Rollback \/ TimesOut \/ Reports

PipSpec == PipInit /\ [][PipNext]_pipVars

-----------------------------------------------------------------------------
(* Properties                                                              *)

\* A version the audit condemned is not reported as an upgrade, also when the
\* rollback fails or raises: that "would fabricate a remediation"
\* (bin/pip_safe_upgrade.py:418-433, 500-509).
CondemnedIsNotApplied == \A p \in condemned : report[p] # "applied"

\* Until a version is condemned no package is older than it was, neither the
\* one that is upgraded nor another that a constraint pulls back, in no upgrade
\* and in none that was cut short, if pip's dry-run lists what it would uninstall
\* (bin/pip_safe_upgrade.py:215-227).  A rollback promises nothing: it may
\* uninstall what was there (:325-334, 411-417), or pull others back.
NothingGoesBack ==
  pip.lists /\ condemned = {} => \A p \in Packages : version[p] >= before[p]

\* A run that is cut short has dealt with what is more at risk
\* (bin/pip_safe_upgrade.py:112-164).
RiskFirst ==
  \A p, q \in Packages :
    Risk[p] < Risk[q] /\ report[q] # "none" => report[p] # "none"

\* Whatever the resolver, the audit and the rollbacks do, and wherever a run
\* is cut short: no condemned version is reported as an upgrade, no upgrade makes
\* anything older, and what is more at risk came first (bin/pip_safe_upgrade.py).
PipInv ==
  /\ PipTypeOK
  /\ CondemnedIsNotApplied
  /\ NothingGoesBack
  /\ RiskFirst
=============================================================================
