# Order Samurai in TLA+

Order Samurai watches a developer's repositories and machine, proposes repairs,
and runs the ones it is allowed to run. What makes it trustworthy is not the
repairs but the machinery that decides which of them run, when, on whose word,
and what is remembered of them. This project models that machinery: the decision
tiers and the human approval queue, the reflex engine and the channels that start
processes, the tamper-evident log, the journals, ledgers and locks of the loops
that run overnight, and the records from which the next decision is made.

Paths below are relative to the repository root.

## 1. Inventory

| Part | Source | State it keeps | Operations | Talks to | Module |
|---|---|---|---|---|---|
| Decision engine | `agentica_core/bushido_engine.py` | none of its own; reads `skill_tiers.json`, the budget ledger, `MEDITATION_STATE.json` | `compute_tier`, `skill_to_work_item`, `resolve_ronin_mode`, `_is_hard_limit`, `decide` | the queue; run by `bin/bushido_check.py` as a child of the reflex engine | BushidoTier, BushidoPolicy |
| HITL queue | the same file | `hitl_queue.json` (under a flock), `hitl_standing_approvals.json`, the chained `review_ledger.jsonl` | `enqueue_hitl`, `_consume_approval`, `mark_complete`, the two reconcilers, `review_hitl`, settle and release of a push, grant and revoke | the chain ledger (inside the queue lock), the API server (outside it) | HitlOps, HitlQueue, Approval |
| Its files when they cannot be read | the same file, `atomic.py`, `bin/bushido_check.py` | quarantined copies | `_load_queue`, `_load_standing_approvals`, the verdict on an error | the reflex engine, which takes silence for leave | DecisionStores |
| `ronin` command line | `bin/ronin` | none | `approve-hitl`, `arm`, `disarm`, `propose`, `promote`, `status` | writes the queue and the backlog without their locks | HitlQueueCli, RoninDaemon, Backlog |
| Reflex engine | `api/src/reflex-engine.ts` | the booked runs, the running one, cooldowns, fruitless runs, queue-row ids | `_check`, `injectReflex`, `_drainQueue`, `_execute`, `_afterRun`, the kill ladder, the debounced save | decision engine, manual run channel, refresh | ReflexEngine, ReflexGate |
| Manual run channel | `api/src/server.ts` | `execChild`, `spawnExecActive` | `spawnExec`, kill timer, close and error handlers | reflex engine (each asks the other), WebSocket clients | ExecChannel |
| Dojo runner | `api/src/dojo.ts` | `running`, `queue`, one child | `enqueue`, `_spawn`, `_drainQueue`, kill timer, close and error handlers | the shared working tree | DojoRunner |
| Chain ledger | `agentica_core/chain_ledger.py` | an append-only JSONL file, a lock file with a pid | `append`, `held_lock`, `_try_reclaim_stale_lock`, `verify_chain` | the HITL queue, telemetry, experiments | ChainLedger |
| Fleet retirement | `bin/hitl_alerts.py` | `fleet_retirements.json` | `enqueue_fleet_hitl`, `sweep_fleet_hitl`, `_retire_job_transaction`, `_unwind` | launchd, the HITL queue | FleetRetirement |
| Alerts | the same file | `hitl_alert_state.json` | `--notify`, `--email` with banners, reminders, escalation, digest | the HITL queue, mail, the doctor | Alerts |
| Licensing and seats | `agentica_core/licensing.py` | `license.json` | activate, gate, revalidate, deactivate | a remote provider | License |
| LLM gateway | `agentica_core/llm/gateway.py` | none between calls; a child per strict call | `generate_text`, `call_routed_llm`, `generate_strict` | providers, Ollama | Gateway, StrictCall |
| Ronin daemon | `bin/ronin-daemon.sh` | budget ledger, baseline, pid and stop files | a cycle: gate, run, verify, keep or discard, record | git, the model | RoninDaemon |
| Overnight run | `bin/meditation_overnight.sh`, its reaper | a lock, `MEDITATION_STATE.json`, a worktree | lock, guards, stash, worktree, reaper, cycles | the backlog, git; an agent that outlives the script | Meditation |
| Backlog writers | `bin/replenish_backlog.py`, `bin/sensei_writeback.py` | `PROPOSED_BACKLOG.json` under a directory lock | load, add or mark, save; `ronin promote` | the loops | Backlog |
| Worktree patch runner | `execution/worktree_patch_runner.py`, `bin/review_pending_patch.py` | worktrees, staged patches | make, audit, stage, show, apply, archive, reject | the engine's own patch lane, the operator | PatchReview |
| Package upgrades | `bin/pip_safe_upgrade.py` | a report | triage, upgrade, audit, roll back | pip | PipUpgrade |
| samurai installer | `bin/samurai` | `install.json`, the hook files of each harness | `install`, `uninstall`, recovery of an interrupted command, adoption | the user's editor and the harness write the same files | Installer |
| Remediation and maturity | `agentica_core/remediation.py`, `skill_efficacy.py`, `maturity.py` | `exec_log.jsonl` and what is graded of it | three tiers, the efficacy window, grants and aging | aggregate, the engine's brakes | Efficacy |
| Refresh | `refresh_dashboard.py`, `bin/bridge*.py` | a watermark, the telemetry, the payload and its copy | bridge, aggregate, write, copy | the reflex engine reads what it writes | Refresh |
| History | `agentica_core/insights.py`, `backfill_history.py` | `history.jsonl` | populate, append a snapshot, rebuild | the cards | History |
| Thresholds | `insights.py`, `threshold_audit.py` | a baseline of guards and its trail | calibrate, audit | grades | Thresholds |
| Cards | `insights.py`, `reflex-engine.ts` | flags, trajectory cards | choose, rank, dispatch | the reflex engine | Cards |
| Dojo state, API boundary, routing, scheduled runs, reconciliation, scouts, verifiers, guards, telemetry, UI | the rest | none between two runs, or one file | one pass over logs or the tree | read-only, or best-effort appends | – |

`PROJECT.json` lists all parts with their files, what is left out of each, and why.

### What is hard here

* **Many short processes over JSON files.** `decide()` is one call but four
  acquisitions of the queue lock and two unlocked reads; anything may happen in
  between. `review_hitl` is a locked half, then a grant under another lock, then
  an HTTP POST under none, then a settlement under the lock again.
* **Copies.** A whole file is loaded, changed and written back: `approve-hitl`,
  `promote`, the alert state, the license, the history, the payload. What
  another process wrote meanwhile is lost unless a lock or a second read prevents it.
* **Time.** An execution lease runs out under a live run, an approval rots past
  its TTL, a POST times out after it started the run, a kill timer fires and the
  process ignores it, a lock is judged stale while its holder still works.
* **Death anywhere.** A script dies and its agent goes on. Or a process dies between the ledger row and the queue write, between claim and
  completion, between launchctl and the journal, between creating a lock file and
  writing the pid into it, between a run and the debounced save that remembers it.
* **Failures that are swallowed.** A file that cannot be read is taken for an empty one,
  a write that fails is passed over, a spawn throws after the mark was made: the next
  step works on something that was never so.
* **Late events in Node.** A `close` of a child that was superseded or timed out
  arrives when a newer child owns the same names; an awaited approval window ends when
  the reflex it was for has been booked by somebody else.
* **One promise, several sources.** A tier is computed from the table's blast
  radius and category, an explicit approval tier, the caller's category, the budget
  and ronin mode; a reflex's maturity from three tiers over two logs.
* **Feedback.** What a run changed is read from a payload that somebody else may
  have measured before the run and written after it.

### What makes each part correct

* Decision engine: the owner is asked about owner's work whatever the table, the
  caller or the mode say; ronin mode only ever turns a review of routine work into a run.
* Queue: one approval pays for one run; a denied row never runs; what was settled
  stays settled; every settlement is in the chained ledger; a dead process strands nothing.
* Stores: one failed read loses no approval a human gave; an error stops sensitive work.
* Reflex engine: one booking per reflex, in order of priority; time passes between two
  runs; a reflex that never helps is parked; a skill that may write is not started alone.
* Channels: one command is held by one channel, by its newest child; what is shown as
  running ends; who waits has somebody to wait for.
* Chain ledger: the chain verifies under a caller's lock; a log that verifies is complete.
* Fleet retirement: what the queue calls settled is disabled in launchd and durable in
  the journal; what is called rolled back runs. Alerts: noise is bounded by lost loads and saves, silence earned.
* Licence: seats are not exceeded; a refund settles nothing; only what the provider
  withdrew is revoked. Gateway: a local prompt stays local; a reply is whole.
* Loops: the daily budget, the ratchet, one run at a time; the backlog loses nothing.
* Patches and upgrades: what was refused is never applied; what was condemned is rolled back.
* Installer: the user's hooks stay, no hook runs twice, none outlives its script.
* Records: every run is counted once and graded by what was measured after it.

## 2. Modules

```
BushidoTier ─┬─ BushidoPolicy ───────────────────────────────┐
             └─ HitlOps ── HitlQueue ─┬─ HitlQueue_proofs     │
                 Approval ──INSTANCE──┤                       │
                                      ├─ HitlQueueCli         │
                                      └─ MCRaces, MCSafety    │
Gateway  StrictCall  ChainLedger  DecisionStores ─────────────┴─ MCCalls  (Calls_proofs)
FleetRetirement  RoninDaemon  Backlog  DojoRunner  ExecChannel ── MCLoops  (Loops_proofs)
ReflexEngine ── MCReflexEngine  (ReflexEngine_proofs)     ReflexGate ── MCReflexGate
Meditation  License ── MCRaces  (Races_proofs)
PatchReview  PipUpgrade  Efficacy  Thresholds  Cards ─┬─ MCSafety ── Safety_proofs
Alerts  Refresh  History ── Records_proofs ───────────┤
Installer ── MCInstaller ── Installer_proofs ─────────┘
```

Operators whose comment begins with "Mutant:" are wrong variants of the one below them;
they are used only to show that a property notices such a bug. The modules `MCRaces`,
`MCCalls`, `MCLoops` and `MCSafety` put several parts side by side. Parts share no
state: a behaviour is of one part (`live`) and the others stay in a state of rest. An
invariant named `...Kept` is the invariant of one part (or of a few) guarded by `live`.

**BushidoTier** has `compute_tier`, `_is_hard_limit` and `resolve_ceiling` as pure
operators over three fields of a work item. **BushidoPolicy** puts around it the skill
table's entry, the caller's category, the switches of ronin mode and the budget, each
edited at any time.

**HitlOps** says what each queue operation does to rows, **HitlQueue** who calls which
and when. A decider's `pc` follows `decide()` lock by lock (`lease`, `ttl`, `limits`,
`consume`, `route`, `enqueue`), then the run it was granted and `mark_complete`; a
reviewer's follows `review_hitl` (`grant`, `post`, `settle`, `release`). Queue operations
are atomic because `file_write_lock` is a flock over load, change and write, which the
kernel drops when its holder dies. The one place where that is not enough, the ledger
row written inside the lock before the queue is, has an action of its own, `ReviewDies`.
Files that other programs edit (tier table, budget, ronin mode) are read as an
arbitrary value at each read. `runs` and `ledger` record history. **Approval** is the
abstract promise (asked once, decided once, spent at most once); `HitlQueue!StageOf` is the
refinement mapping and `ImplementsApproval` the refinement. **HitlQueueCli** adds
`ronin approve-hitl`, the writer outside the lock. **DecisionStores** takes apart what
the queue model abstracts: reads that fail, quarantine by rename, readers without the
lock, a lock that is not had in time, and what the engine makes of an error.

**ReflexEngine** has the callbacks of the engine as actions: a check that books
reflexes in order of priority past cooldown, breaker and the exec channel; the
approval window it awaits; drain, spawn, the kill ladder (`SIGTERM`, `SIGKILL`,
give up), close and `_afterRun`; `injectReflex` and `clearStuck`; the debounced save and a
crash. What a skill may do is read from `skill_metadata.json` through a copy a minute old
(`copy`): the file changes at any time, the copy expires at any time, also in the middle of
a handler, and `lately` holds every command the file has called read-only since the copy
was read. **ReflexGate** asks only which queue row a run completes.
**DojoRunner** and **ExecChannel** do the same for `dojo.ts` and `spawnExec`: the closure of
each child (`timer`, `settled`) is a field of its child, `ProcessEnds` is the operating
system. Both mark what they start before they spawn it, and the spawn may throw: the mark
then stands for nothing.

**ChainLedger** takes `append()` apart into the system calls on its lock file, since
an `O_EXCL` file outlives its holder. `serialised` says whether callers hold a lock of
their own around it, as `review_hitl` does and others do not.

**FleetRetirement** takes a retirement apart into every launchctl call and every write,
any of which may fail, time out after it landed, or be the last thing the process does.
**RoninDaemon** follows a cycle of the daemon with its ledger on a disk that may be full.
**Backlog** has two locked writers and the unlocked `promote` around a directory lock that
goes stale; a read that fails leaves a run with an empty document, which it then writes.
**Meditation** is the overnight run: lock, guards, stash, worktree, reaper, cycles and
spending. A killed run leaves its agent at work (`orphaned`) and its lock to the next.

**Gateway** chooses a chain, filters it, and asks provider by provider; **StrictCall** is a
child process, a reader, a writer and a deadline. **License** is the operator, the gate with
and without the lock, the provider and its answers that get lost.

**PatchReview** has two lanes that stage patches under names and the operator who shows
one and applies it later. **PipUpgrade** runs the plan with every command failing at
will, the read of the version a rollback would go back to among them. **Installer** has the
manifest, the plan, the checked replace and the recovery, beside an editor, kills and writes
that fail. `lock` says which file is locked, the one at its path or one that an uninstall has
unlinked; the model follows the commands until, over that, two of them run at once. **Alerts** is the two modes that share a state file, which may be
unreadable and is then taken for empty. **Efficacy** counts the runs of one skill in the
windows of every metric it is the remedy of;
**Refresh** bridges and publishes them; **History** is the weekly store and its rebuild;
**Thresholds** the guards and their audit; **Cards** what is shown and dispatched of them.

## 3. Runs

| Run | Parts | What it checks |
|---|---|---|
| `races` | HitlQueue, Meditation, License | `TypeOK`, `AtMostOnce`, `DenialIsRespected`, `ResolutionIsChained`, `SettledIsFinal`, the refinement `ImplementsApproval`; `MeditationInv`; `LicenseInv`; liveness: `RowsMoveOn` |
| `calls` | Gateway, StrictCall, BushidoPolicy, ChainLedger, DecisionStores | `GatewayInv`, `StrictInv`, `ChainInv`, `OwnerIsAsked`, `ModeTradesQueueOnly`, `DecisionInv`; liveness: `CallsEnd` |
| `loops` | FleetRetirement, RoninDaemon, Backlog, DojoRunner, ExecChannel | `FleetInv`, `DaemonInv`, `BacklogInv`, `SomebodyDrains`, `HeldByTheNewest`, `ChannelsDedupe`, `RatchetHolds`, `DoneStaysDone`, `LateEventsAreSilent`; liveness: `ApprovedIsDisabled`, `LoopsEnd`, `StartedRunsEnd` |
| `reflex_engine` | ReflexEngine | `ReflexInv`, `NoAutonomousRepair`, `RestBetweenRuns`; liveness: `EngineComesBack` |
| `safety` | HitlQueue under a table that changes, PatchReview, PipUpgrade, Installer, Alerts, Efficacy, Refresh, History, Thresholds, Cards | `PolicyInv` and one `...Kept` invariant per part or group of parts, `EfficacySteps` |
| `cli_runs_twice` | HitlQueueCli | violated: `AtMostOnce` |
| `chain_two_holders` | ChainLedger, callers without a lock | violated: `OneHolder` |
| `reflex_gate` | ReflexGate | violated: `SettledWasReviewed` |
| `daemon_ledger` | RoninDaemon, one full disk | violated: `DailyCapHolds` |
| `license_removed` | License | violated: `RemovedStaysRemoved` |
| `installer_forgets` | Installer | violated: `NoScriptOutlivesUninstall` |
| `torn_payload` | Refresh | violated: `NoTornVerdict` |

The conjunctions: `ReflexInv` is types, `BookedOnce`, `ChannelsExclude` and
`FruitlessRunsAreBounded`. `PolicyInv` is `StandingIsAttested`, `OwnerWorkNeedsARow`,
`NoDuplicatePending`, `HumanBehindEveryRun`. `ChangesKept` is `RefusedIsNeverApplied`,
`NoPatchVanishes` for patches and `CondemnedIsNotApplied`,
`NothingGoesBack`, `RiskFirst` for packages. `InstallerKept` is `UserHooksStay`,
`NoHookRunsTwice`, `HooksAreFindable`, `InstallTakesUp`, `InstalledIsHealthy`,
`UninstallLeavesNothing`. `AlertsKept` is `NoiseIsBounded`, `QuietIsEarned`,
`AskedAboutFailingJobs`. `EfficacyKept` is `OneTierPerRun`, `ImprovedWasAttempted`,
`BrakeFollowsGrant`, `OneFinding`, and `EfficacySteps` the steps `CooldownIsEarned`,
`GrantIsEarned`, `RejudgedHelps`, `ScoresStay`. `RecordsKept` is `MarkedRunsAreBridged`,
`BridgedOnce`, `VerdictIsEarned` of the refresh and `NeverBackdated`, `NewestLiveStays`,
`CarriedStays`, `IdleStays`, `NoTwins` of the history. `GuardsKept` is
`CalibrationTightens`, `BaselineIsOnTrail`, `TrailEndsAtBaseline` of the thresholds and
`CreditIsForAChange`, `WorstFirst` of the cards. `DecisionInv` is
`OneMisreadLosesNothing`, `RevokedStaysRevoked`, `ErrorsStopSensitiveWork`, `PassesAreBacked`.
`RowsMoveOn`, `CallsEnd`, `LoopsEnd` and `StartedRunsEnd` join the liveness of their parts.

What these properties except, because the code does not do it (section 4 says why):

* `SomebodyDrains` holds until a spawn throws, and `ShownRunEnds`, the part of
  `StartedRunsEnd` about the exec channel, asks only while the channel has a child: after a
  spawn that throws, `server.ts:118` has shown a run that nothing will end.
* `BacklogInv` holds until a run trespassed: it lost its lock, wrote beside another without
  one, or wrote over a file it could not read.
* `MeditationInv` excepts a lock reclaimed from a living run and the agent of a killed one
  whose item may be requeued and whose worktree may be remade under it.
* `NoAutonomousRepair` lets a skill run that the metadata stopped calling read-only less than
  the copy's minute ago.
* `LocalStaysLocal` and the routed calls are asked where `LocalIsBare`: the name of the
  local model has no slash and no `:free` in it.
* `NothingGoesBack` is of upgrades, where pip's dry run lists what it would uninstall. A
  rollback promises nothing: a version read that failed makes it uninstall a package that
  was there (`pip_safe_upgrade.py:325-334, 411-417`), and pip may move others.
* `ImprovedWasAttempted` is of one metric at a time, while the engine's verdicts
  are counted. `ScoresStay` excepts the rows a backfill adds to the past, and every refresh with `--snapshot`
  backfills: what remains is that between two backfills nothing else changes a score.
* `NoiseIsBounded` counts lost loads and saves together: every read of the alert state that
  fails may cost a banner or a digest too many (`hitl_alerts.py:1441-1445, 1876-1879`).
* `BridgedOnce` excepts overlapping refreshes, a death, and a watermark that could not be
  read or written (`refresh_dashboard.py:54-58, 86-90`).
* `NewestLiveStays`, `CarriedStays` and `IdleStays` hold while the store is `Whole`: no rewrite was killed or failed
  to put back what it cut (`backfill_history.py:165-168`), no append failed.
* `InstallerKept` holds until two commands run at once.

### Bounds, and why they are enough

* Queue: rows interact only through equal proposals and shared approval classes. One
  row has every race about a row (`races`: two deciders, two reviewers, one crash); two
  rows of one class, one routine and one owner-decided, have every race about a class
  (`safety`: one decider, one reviewer). A full queue takes no new row; that is the bound's
  doing, not the code's. A death loses a process's memory and changes no file, so a
  second one adds an idle process. The theorems of section 5 drop these bounds.
* Meditation: two nights, one chore, two cycles: the one that takes over a lock and the one it
  was taken from, whose agent may still be at work. Hours are counted to one, which is past every limit.
* License: two keys, two gates on one machine (one of them forced), two machines, every
  limit one: a seat too many needs a second machine, a stale answer a second key.
* Gateway: ten model names, one of each shape the rosters or the environment hold;
  `MaxRetries` 2.
  `StrictLimit` 2: an output at, below and above the limit.
* ChainLedger: three writers, `MaxAppends` 2, `MaxDeaths` 2, `MaxTorn` 1. Judging one
  file takes two, a reclaimed lock a third; a reclaimer may die too.
* DecisionStores: two judges, two works, one misread, three calls, two reviews.
* FleetRetirement: one sweep (launchd runs one instance), two rows about one job, `MaxFaults` 3: a
  failed step, a failed rollback and one in the sweep that retries.
* RoninDaemon: `DailyLimit` 2, `MaxFails` 2, two days, one warning, one full disk.
* Backlog: three runs (a replenisher and two sensei), room for two numbers, four edits by
  those who take no lock: a lock judged by one, taken by another, removed under a third.
* DojoRunner, ExecChannel: three spawns, each of which may throw. A late event needs an old child, the one
  that replaced it and one more to be hurt.
* ReflexEngine: two reflexes behind one command, one a skill and one a reading mechanism;
  a cooldown of 1, both limits 2, one crash.
* Patches: two lanes, the engine's with two rounds, so that a name is used again.
  Installer: three harnesses, one with two events, one that refuses an install path; two
  commands and one edit or one fault (a kill or a write that fails), or one command and two
  edits or one of each. A config that cannot be read for a while is one that cannot be parsed for a
  while. Packages: two, two versions. Alerts: three days, three changes of the queue, one
  lost notice (`MaxLost`), one mishap (`MaxMishaps`: a load, a save or a run that fails).
  Efficacy: three ticks, three log rows, one metric (the property is of one metric at a time). Refresh: three rows, two
  repairs, one change of the metric, one engine start, one fault. History: four
  instants, two snapshots, one break. Thresholds: two limits, five readings on both sides of
  them, three audits, one edit, one death. Cards: three gauges of which two are shown.
* Deadlock is not checked where the system may really stop: everything decided, all
  children closed and no click owed, all writers done or dead.

### Fairness, and why the code justifies it

* Queue: somebody calls `decide()` again and again, because the engine checks its metrics
  after every refresh; a call under way goes on unless its process dies; leases run out.
  Nobody owes a review, a revocation or a crash.
* Gateway, StrictCall: a call goes on, the deadline passes. The child owes nothing.
* ChainLedger: a call under way goes on, time passes, appends go on until `MaxAppends`. One
  writer may be refused for ever while others succeed: the code polls and has no queue.
* FleetRetirement: launchd starts the sweep on a schedule; faults are finitely many.
  RoninDaemon and Backlog: a step that is due is taken; of the backlog this is asked only
  until somebody trespassed (a lock lost, or a write without one), as its property is.
* DojoRunner, ExecChannel: Node delivers events it owes and armed timers fire. No process
  need end by itself and no operator owes a click.
* ReflexEngine: weak fairness of Node's events; strong fairness of its timers, because a
  check blocks the event loop again and again, and a timer that is due fires between two.

In the combined runs each fairness condition is that of one part, guarded by `live`.

## 4. What the runs found

Each is a disagreement between the code and a sentence of the repository; the sentences
are quoted with their lines in `PROJECT.json`.

1. `bin/ronin:417-475` (`cli_runs_twice`). `approve-hitl` loads the queue and writes its copy
   back without the lock. A push claim in between is undone, the row is `approved` once
   more, and is consumed again: two runs on one approval.
2. `agentica_core/chain_ledger.py:106-125` (`chain_two_holders`). A stale lock is judged by
   `stat` and `read` and removed by path. Two processes judge the same file; the slower
   one removes the lock the faster has just taken. Inside `review_hitl` the queue lock makes
   this harmless, elsewhere `verify_chain` reports it (`ChainInv`).
3. `api/src/reflex-engine.ts:733-799` (`reflex_gate`). The id of a row that waits for a review
   is remembered per metric; an `auto` answer cached for another metric of the same skill frees
   this one without replacing the id, and the close of the run completes a row nobody reviewed.
4. `bin/ronin-daemon.sh:94-139,263` (`daemon_ledger`). A full disk leaves the ledger empty, and an
   unreadable ledger is reset to nothing spent just before the check that would refuse it.
5. `agentica_core/licensing.py:402` (`license_removed`). `deactivate()` unlinks the file without
   the lock; a gate that read it again under the lock writes it back.
6. `bin/samurai:768,1577` (`installer_forgets`). An install over hooks without a record that dies
   after its manifest leaves an entry that uninstall takes for its own work: the older
   hooks stay and their scripts are deleted.
7. `refresh_dashboard.py:253` (`torn_payload`). The payload the engine reads is a copy made in
   pieces; read in between it has no reflexes, and a run is credited with an improvement.

Six more break a sentence of the repository. They have no run of their own, but a state of
the model in which the promise is broken and which the property of that part excepts by name:

* `bin/samurai:1669`. An uninstall removes the directory of its lock file while it holds the
  lock; the next command opens a new file at the same path and runs beside it (`lock =
  "shared"`). `:595` says "Serialize Samurai's own writers on $SAMURAI_HOME/.lock", and
  `:1636` "Still under the lock, so a waiting install cannot write into a directory that is being deleted".
* `agentica_core/llm/gateway.py:67,409-412`. The local-only filter falls back to `LOCAL_MODEL`,
  which is not asked what the other names are asked: with a registry path in
  `LOCAL_MODEL_NAME` the dispatch sends a local prompt to a provider (`LocalIsBare`).
  `:405-407` says "Fail-closed privacy routing [...] never add cloud models".
* `api/src/dojo.ts:88-95`. The pillar is marked as running before a `spawn` with nothing around
  it. When that throws, the callers answer an error (`server.ts:506-511`) and every later
  request waits for a cycle that does not exist (`server = "threw"`). `:60` says "Runs
  immediately if nothing is in flight; queues otherwise". The reflex engine guards against
  this throw (`reflex-engine.ts:1018`); `server.ts:118,157` does not either.
* `bin/sensei_writeback.py:132-149,171-174`, `bin/replenish_backlog.py:161-165,382-384`. A
  backlog that cannot be read is taken for an empty one and written over, under the lock
  (`trespass` has `"blind"`). `sensei_writeback.py:127` says "Preserve whichever structure exists".
* `bin/meditation_overnight.sh:338`. The agent of a cycle outlives its killed script; the next run finds the
  pid in the lock dead (134-142), remakes the same worktree (235-243) and starts another
  (`orphaned`). `:128` says "Two concurrent runs share one branch and the same state/ files
  with no coordination", which the lock is there to prevent.
* `agentica_core/remediation.py:271-282`. One use of a skill that is the remedy of several
  metrics may improve a window of each, while `attempted` counts it once. `:148-149` says of
  the direct events that without a filter "`improved` could exceed its own `attempted` denominator".

The converse is proved for two of the seven: without a full disk the daily cap holds
(`CapHoldsOnAGoodDisk`), and under a caller's lock the chain never forks (`ChainIsKept`).

More of the same kind, met while modelling, each seen in a run of its module with two
actors or read off the code:

* A dojo cycle's late `close` removes its pillar's mark before it asks whether the cycle was
  settled, and a second cycle starts in the one working tree (`dojo.ts:119`); a cycle ended
  by somebody's signal stays shown as running (`dojo.ts:122-124`).
* The kill timer of a superseded exec child clears the newer child's mark (`server.ts:165-171`).
* Two sweeps: one that read a row before the other retired its job "restores" it
  (`hitl_alerts.py:1150-1160`). A refused `launchctl disable` over a half-disabled job is
  recorded as `failed` and reported by nobody (`hitl_alerts.py:1004`).
* `approve-hitl` writes no row of the review ledger, and approves non-routine rows without the
  hash `_consume_approval` asks for, so they never fire (`bin/ronin:472-477`). The docstring
  lets ronin mode collapse HITL to AUTO (`bushido_engine.py:16`); the code only QUEUE. Push-on-approve
  posts to `/api/reflex/exec`, a route `server.ts` does not define.
* Stores: `bushido_check.py:366-369` says an error never frees sensitive work, but the engine's
  10 s timeout on the child equals the lock's, so a wait for the lock becomes silence,
  and silence is leave. A second quarantine of a file overwrites the first. A lock timeout in the
  grant of "approve always" leaves the claimed row unpushed until its lease runs out.
* Thresholds: "no edit can happen invisibly" (`threshold_audit.py:6-8`) fails when two runs
  overlap, or when a torn baseline hides a removal. A baseline that is whole but cannot be
  read goes the same way and is not modelled: a metric dropped at that moment leaves the trail short.
* Cards: three flags are shown, so a metric pushed out counts as improved; a trajectory card
  disappears at the breach, so getting worse is an improvement; a metric that was stuck and
  recovers keeps `needs: human`.
* Engine: `remeasure_gate.still_breaching` knows only ids that begin with `metric:`, so
  trajectory cards of batch metrics are taken for phantoms; `destroy()` clears the save timer
  without saving; approval windows never grant, they only delay.
* Patches: the status of `git worktree remove --force` is not looked at
  (`reflex-engine.ts:1249-1258`), so a worktree may stay.
* Refresh: a slower refresh overwrites a newer payload; overlapping refreshes bridge a row
  twice; a torn payload makes `_check` drop its queue, and the server refuse to boot.
* Meditation: `git stash pop` pops whatever is on top; the reaper's "provably dead" does not hold
  for a manual run or a stamp with a date only. Alerts: one lost update of the digest's field
  raises a false "digest LAGGING" every day until the next digest is remembered. Efficacy: `entry_hash` is read and never written;
  nothing writes `exec_log_rejudge.jsonl`. License: a
  `uses` count that is absent or malformed in the provider's answer lets the seat pass (`gumroad_mcp.py:31-37`).

## 5. Theorems

Each holds for every value of the constants that the named assumptions of its module
allow. A safety property is proved from an inductive invariant (`...IInv`, `Safe`), which
TLC checked before the proof was written; the property itself is seldom inductive.

**`HitlQueue_proofs`** — `TypeCorrect`, `OneRunPerApproval`, `DenialStands`. Nothing in
`AtMostOnce` stops a second holder. The invariant `Safe` adds who may still run
something on a row. `UnclaimedIsFree`: a row in a status nobody owns has not run and nobody
is about to run it. `OneHolder`: at most one decider has been granted a row and not
started, or one reviewer has claimed it and not posted. `HeldIsUnspent`: while there is such
a holder, the row has not run. `RefusedIsFree`: a refused push that still owns its claim may
hand the row back, because nothing ran on it. `RowOnlyWhenGranted`, `NoClaimAtRest` and
`ReleasingIsReviewed` tie program counters to rows. An expired lease is harmless because it
leads to `failed`, from which no approval comes back. On top of it, `SettledRowsAreChained`,
`VerdictsStand` and `PolicyHolds` rest on `EveryStep`, which says once for every action what
it may do to a row, its ledger, its holders and its runs; so does `QueueImplementsApproval`,
the refinement of Approval: every step of the queue is, seen through `StageOf`, a step of
one row (`Turns`, `Advances`) or a stutter.

**`Calls_proofs`** — `OwnerAlwaysAsked`, `ArmingTradesQueueOnly`, `BindingNarrows` for
the tiers. `CallsStayInBounds` for the gateway: what is left of a chain is a part of the
one that was allowed (`Kept` is a recursive function; its induction is done by the
least element at which it would fail); that a local prompt stays is claimed for a bare
`LOCAL_MODEL` only (`LocalIsBare` is a premise of the property, no assumption). `StrictCallIsWhole`: a reply is handed on only
when the reader has seen its end. `ChainIsKept`: under a caller's lock one writer
is past the read of the head. `DecisionsAreKept` (`EntriesLoad` on the way): until a second
read of one file fails its shelf is empty, so no quarantine overwrites another; the copy
that the holder of the grants' lock has loaded is as good as the file; and the engine caches
only what was allowed.

**`ReflexEngine_proofs`** — `EngineKeepsItsBooks`, `RepairStaysRetired`, `RunsAreRested`.
`EngineIInv` is types and `Attended` (a booked run has somebody who moves it on),
`BookedOnce`, `ChannelsExclude`, `CountersAreLimited`, `ParkedIsNotBooked`,
`RunsAreCounted`, `FileIsOneBehind` (what a crash forgets is at most one run) and
`BookedHaveRested`. `RepairStaysRetired` speaks of what the engine last read of the skill
metadata (`copy`, up to 60 s old); `CopyFollows` says that it is made of what the
file said since that read.

**`Races_proofs`** — `LicenseIsKept`: what anybody holds, has read or is about to write
is sound, the lock of the file is the writers', and seats are counted with the answers
that are still on their way. `NightsKeepTheirHandsOff`: the lock and the worktree are of
one night, what is in flight is on its own branch, and a stash is of work that came
late, but for the cycle of a killed script, whose agent works on (`orphaned`). Both
for any number of processes.

**`Loops_proofs`** — RoninDaemon: `DiscardsAreBounded`, `BaselineNeverRises`, and
`CapHoldsOnAGoodDisk` under `MaxFull = 0`, the hypothesis that finding 4 shows to be
needed. Backlog: `BacklogIsKept` (the lock is the workers', the copies of its holder are
fresh until somebody trespasses: works without the lock, or writes over what it could not
read) and `FinishedStaysFinished`. FleetRetirement:
`RolledBackJobsRun` for any number of sweeps; `RetirementIsKept` under `OneSweep`, because
launchd runs one instance of a job and two would break it (section 4). DojoRunner:
`DojoTypeCorrect`, `WaitersHaveADrainer` (every mark is `Backed` by a cycle that is not
settled, until a spawn throws; the converse does not hold), `LateEventsStaySilent`. ExecChannel:
`ExecTypeCorrect`, `NewestHolds` (`OwnsItsCommand`, and the children are a `LaterView` of
what they were), `ChannelsStayApart`.

**`Records_proofs`** — `VerdictsAreEarned`: while the engine waits for its own refresh,
and no other had measured before, every measurement on its way into the payload is
`Fair`; until refreshes tangle one bridges at a time, from the watermark on, unless the file
of the watermark could not be read or written. `PastIsKept`: a merge carries to each week the last observation before its Monday. Rows
have a rank (how many come before), a later row has a higher one, so the newest live row
is the one kept, and a week's own row, the only one of its week, is the last at or before
its Monday: what it said is what it is given again. All of it while the store is `Whole`: a restore that
fails after a failed write leaves it cut. A week recorded as idle stays idle while
no run is logged in it, since then no event of it was counted by any rebuild, earlier
or now. What a holder of the lock has read is as good as the store was, and what it will
write is as good as that. `AlertsAreSound`: each channel has made less noise than loads
failed and saves were lost, or else the run under way, or the one that would begin now, knows what was told
today (`NoiseIsPaid`); until the first of these a run knows when the last digest went out
or has raised no false alarm (`NothingIsLost`). The first bound on noise, one too many per
lost save, counted false lag alarms too and was wrong: the proof got stuck at an alarm
on the third day, which TLC then found with one more day.

**`Installer_proofs`** — `InstallerIsSound`, for any harnesses in a fixed order, each with a
finite set of events of its own (not empty), any install paths, and any number of edits,
commands, kills and failed writes, until two commands run at once (an uninstall that has
removed its lock file, section 4). The invariant is one value per harness that neither a user's edit of
Samurai's groups nor a race has reached (`Clean`): the path its file runs Samurai from, or
`NoRoot`. `Books` says that the file runs each event once from that path and that the
manifest's record `Fits` it. Around a write a record must be true of the file before and
after: `pending` of what was there and what is coming, `removing` of what was there and of
nothing. That is what lets the next command take up whatever a dead one left, and it is why
what recovery yields (`Sure`) says where Samurai runs from. `Course` ties the command's copy
of the manifest to the file of it, and says who is to blame when an install refuses: if
every file is clean, none does. `Calm` is of the time before the first edit or kill, when no
record is left half-way. `HandsOff` counts the user's groups through every plan, in any file
that no editor has raced. Only a `pending` record without a prior fits two files that differ
in what an uninstall owes: the history of finding 6, which the property excepts.

**`Safety_proofs`** — `OnlyTightens`, `BaselineHasAnEntry`, `GuardsAreSound` (in a calm
trail one run compares at a time, and once it has written, the trail ends at its rule).
`CardsAreSound`: payloads are `Made` of their readings and a run is judged by two of
these; worst-first and credit by comparing how many go before. Whether a stuck card's question
was asked is not claimed: the question is a child's, and its failure is swallowed. `PatchesAreSound`: a round
that is still proposing has no record, and what waits has a name of its own and no
objection. `UpgradesAreSound`: the package at hand is the next by risk, and one condemned
has failed its audit or is about to. It promises nothing of a rollback, which uninstalls
a package whose version it could not read. `RunsAreCountedOnce`: each window of the engine is
that of an unjudged run of its own, and an attempt that nobody else counts.
`GradesFollowRuns`: what one more row does to the grades (`CountedMoves`, `TallyMoves`: it
comes in and pushes out at most one older row), from which it follows which way a brake and a
grant may move; and a snapshot, taken after all runs, is in nobody's first three once there
are three. Its hypothesis `Warmup <= 3` is `_WARMUP_RUNS` of the code (`skill_efficacy.py:18`):
with four, one success in the fourth run is a rate of a quarter, and would put the brake on.
`PartsAreApart` says that the part that lives behaves as its own specification, whatever the
state in which the others keep still, from which `ChangesAreKept`, `AlertsAreKept`,
`GuardsAreKept`, `EfficacyIsKept`, `RecordsAreKept`, `InstallerIsKept` and
`GradesKeepFollowing` follow: what the run checks of these parts.

### Only model-checked

* Liveness: `RowsMoveOn`, `CallsEnd`, `ApprovedIsDisabled`, `LoopsEnd`, `StartedRunsEnd`,
  `EngineComesBack`. Fairness and ENABLED are out of the prover's reach.
* What a recursive definition computes for every input: induction over data is not
  available to the prover. Where a proof needed it, the model has a recursive function and
  the proof the least-element principle, or sequences that are increasing by definition
  (the weeks of History) instead of a sort.

## 6. What is not modelled, and why

* Components marked `not_modelled` in `PROJECT.json`. Read-only passes (scouts, verifiers,
  doctor, guards), rendering, stateless lookups and best-effort appends have no behaviour over
  time; the dojo's state file is in the plan.
* Hash values, JSON text, the formatting of timestamps, digests, mails and banners: no property
  depends on them. A hash is the identity of what it hashes.
* flock, pids and the replace step of `atomic.py`: a flock is released when its holder
  dies, a replace happens or does not. Reuse of a pid by the operating system keeps a
  stale chain lock for ever and is left out.
* `BACKFILL_CARRY_FORWARD=false`, which turns the carrying of `History` off; a platform that does
  not resolve drops the rows of its weeks, and the model counts such weeks as missed.
* The installer's backups and Samurai's own `settings.json`; hosts without `fcntl`, on which
  the locks of `atomic.py` and of the backfill do nothing.
* `dojo_overnight.sh`, the experiment registry, `install.sh`, the HTTP routes and the WebSocket.
* The arithmetic of single metrics and of correlation scores; the spend of a single
  invocation (the overnight run has a sum).

`PROJECT.json` lists the hazards that weigh most. The models hold others of the same kind:
`mark_complete` settles whatever row bears its id, also one whose lease ran out meanwhile
(`bushido_engine.py:739`); the reconcilers run between two decisions on one row (`:1539`); a push
may be answered after its 5 s timeout (`:963`); the age of a chain lock is read before the pid in it
(`chain_ledger.py:112-119`); a cycle's kill timer and its close event both settle it
(`dojo.ts:105`, `:122`); the payload changes while a reflex waits in the queue
(`reflex-engine.ts:579`); the daemon's validator may die after a cycle that changed code
(`ronin-daemon.sh:315`).

## 7. Plan

Done: the modules of section 2 and the theorems of section 5.

Next:

1. **DojoState** (`state.ts`, `skills_tracker.py`): a toggle against shell writers and the watcher.
2. **Experiments** (`experiment_registry.py`): start, score, close over one chained file.
3. The refinement of a license's abstract promise (one seat per machine, withdrawn once).
