---------------------------- MODULE ReflexEngine ----------------------------
(***************************************************************************)
(* api/src/reflex-engine.ts: the queue of breached metrics, the run of one *)
(* of them at a time, and the three brakes on it: the cooldown, the loop   *)
(* breaker and the retirement of autonomous repair.                        *)
(*                                                                         *)
(* Node runs one handler at a time.  Two handlers are long and call        *)
(* programs that take seconds: _check, taken apart into one step per       *)
(* payload entry (todo holds what is left of it), and _drainQueue, whose   *)
(* early returns drain again (phase "drain").  While either is under way   *)
(* the loop is blocked: other programs go on, no Node event comes.         *)
(*                                                                         *)
(* Abstractions.                                                           *)
(*  - Reflexes are the ids that may appear in wid_payload.json; each has   *)
(*    one command.  Entries below HIGH, not active or with an unsafe       *)
(*    command are never eligible and are left out.                         *)
(*  - wid_payload.json lists any reflexes each time it is read.            *)
(*  - skill_efficacy.json, non_remediable_metrics.json, the batch window,  *)
(*    rival verdicts, the grant and the decision engine are read when an   *)
(*    entry is judged and belong to others: each judgement gets some       *)
(*    cooldown length and, from the rest, some yes or no.  ReflexGate      *)
(*    has what the decision engine is told and asked.                      *)
(*  - A unit of time is 7.5 minutes, a quarter of COOLDOWN_MS.             *)
(***************************************************************************)
EXTENDS Naturals, Sequences, SequencesExt

CONSTANTS
  Reflexes,        \* the metrics' reflexes
  Listing,         \* Reflexes in the order the payload lists them
  Commands,        \* the skills they call
  Diagnostic,      \* commands skill_metadata.json may call read-only
  Entry,           \* Entry[r]: tier, command and mechanism of r
  Nobody,          \* no reflex
  Windows,         \* approval windows configured: "none", "code", "all"
  Cooldowns,       \* COOLDOWN_MS times a multiplier, in units
  LoopBreakerLimit,
  IncompleteLimit,
  MaxCrashes       \* bound: restarts of the server in a behaviour

Entries ==
  [tier : {"CRITICAL", "HIGH"}, command : Commands,
   mechanism : {"none", "reads", "writes"}]

ASSUME EntryAssumption == Entry \in [Reflexes -> Entries]
ASSUME ListingAssumption ==
  /\ Listing \in Seq(Reflexes)
  /\ \A r \in Reflexes : \E i \in DOMAIN Listing : Listing[i] = r
ASSUME DiagnosticAssumption == Diagnostic \subseteq Commands
ASSUME NobodyAssumption == Nobody \notin Reflexes
ASSUME CooldownsAssumption ==
  Cooldowns \subseteq Nat \ {0} /\ \E n \in Cooldowns : \A m \in Cooldowns : m <= n
ASSUME LimitsAssumption ==
  LoopBreakerLimit \in Nat \ {0} /\ IncompleteLimit \in Nat \ {0}
ASSUME WindowsAssumption == Windows \subseteq {"none", "code", "all"}
ASSUME CrashAssumption == MaxCrashes \in Nat

VARIABLES
  window,     \* the approval window of this process
  readonly,   \* skill_metadata.json: the commands that change nothing
  copy,       \* what the engine last read of it, and for how long
  channel,    \* commands running in the exec channel
  todo,       \* entries a _check under way has still to judge
  queue,      \* entries waiting to execute
  active,     \* activeEntry, Nobody when idle
  phase,      \* where _execute is
  ladder,     \* the timers that end its child process
  brakes,     \* cooldowns and noImprovement
  saved,      \* reflex_engine_state.json
  dirty,      \* the debounced save is due
  crashes,    \* restarts so far
  fruitless,  \* history: runs of a reflex since it last made progress
  rested      \* history: time has passed since its last run, as far as known

engine == <<todo, queue, active, phase, ladder>>
disk   == <<saved, dirty, crashes>>
past   == <<fruitless, rested>>
world  == <<window, readonly, copy, channel>>
vars   == <<world, engine, brakes, disk, past>>

\* In a cooldown record the firing is age units ago; LongAgo also stands for
\* no record at all.
LongAgo == CHOOSE n \in Cooldowns : \A m \in Cooldowns : m <= n

Brake ==
  [age : 0 .. LongAgo, consecutive : Nat, incomplete : Nat, stuck : BOOLEAN]

Released == [age |-> LongAgo, consecutive |-> 0, incomplete |-> 0, stuck |-> FALSE]

\* _readonlySkillsCache: the commands it holds, whether it is more than 60 s old (or
\* there is none), and, a history, what the file has said since it was read.
Copies == [known : SUBSET Commands, expired : BOOLEAN, lately : SUBSET Commands]
NoCopy(said) == [known |-> {}, expired |-> TRUE, lately |-> said]

\* How far the kill ladder of the running child has come.
Ladder == {"off", "armed", "terminated", "killed"}

TypeOK ==
  /\ window \in Windows
  /\ readonly \subseteq Commands /\ copy \in Copies
  /\ channel \subseteq Commands
  /\ todo \in Seq(Reflexes)
  /\ queue \in Seq(Reflexes)
  /\ active \in Reflexes \union {Nobody}
  /\ phase \in {"idle", "drain", "approval", "mechanism", "skill"}
  /\ ladder \in Ladder
  /\ brakes \in [Reflexes -> Brake]
  /\ saved \in [Reflexes -> Brake]
  /\ dirty \in BOOLEAN
  /\ crashes \in Nat
  /\ fruitless \in [Reflexes -> Nat]
  /\ rested \in [Reflexes -> BOOLEAN]

Init ==
  /\ window \in Windows
  /\ readonly \in SUBSET Diagnostic /\ copy = NoCopy(readonly) /\ channel = {}
  /\ todo = << >> /\ queue = << >>
  /\ active = Nobody /\ phase = "idle" /\ ladder = "off"
  /\ brakes = [r \in Reflexes |-> Released]
  /\ saved = brakes /\ dirty = FALSE /\ crashes = 0
  /\ fruitless = [r \in Reflexes |-> 0]
  /\ rested = [r \in Reflexes |-> TRUE]

-----------------------------------------------------------------------------
(* Judging an entry                                                        *)

CommandOf(r) == Entry[r].command
Mechanism(r) == Entry[r].mechanism

Waiting == ToSet(queue)
Running == phase \in {"approval", "mechanism", "skill"}

\* isCommandActive, which the exec channel asks before it takes a command.
Held == {CommandOf(r) : r \in Waiting \union ({active} \ {Nobody})}

NodeIsFree == todo = << >> /\ phase /= "drain"

Cooling(r, cooldown) == brakes[r].age < cooldown

\* The part of _isEligible that reads the engine's own state.
Eligible(r, cooldown) ==
  /\ ~Cooling(r, cooldown)
  /\ ~brakes[r].stuck
  /\ CommandOf(r) \notin channel

\* _isSkillReadonly: what a call goes by, the copy or, when that has expired, the
\* file; a file that cannot be read holds no command.
Found == IF copy.expired THEN {readonly, {}} ELSE {copy.known}

\* A later call in the same handler, which may have taken more than a minute.
FoundAfter(known) == {known, readonly, {}}

Remembers(known) ==
  copy' = [known |-> known, expired |-> FALSE,
           lately |-> IF copy.expired THEN readonly ELSE copy.lately]

MayQueueRepair(r, known) == Mechanism(r) /= "none" \/ CommandOf(r) \in known

NotBooked(r) == r \notin Waiting /\ r /= active

TierOrder == [CRITICAL |-> 0, HIGH |-> 1]

Rank(r) == TierOrder[Entry[r].tier]

\* Before the first entry of a lower priority, else at the end.
InsertWithPriority(q, r) ==
  LET lower == {i \in DOMAIN q : Rank(q[i]) > Rank(r)}
  IN  IF lower = {} THEN Append(q, r)
      ELSE LET at == CHOOSE i \in lower : \A j \in lower : i <= j
           IN  SubSeq(q, 1, at - 1) \o <<r>> \o SubSeq(q, at, Len(q))

\* What Array.filter leaves of s.
Only(s, R) ==
  LET only[n \in 0 .. Len(s)] ==
        IF n = 0 THEN << >>
        ELSE IF s[n] \in R THEN Append(only[n - 1], s[n]) ELSE only[n - 1]
  IN  only[Len(s)]

\* A change of the file, or the poll, starts _check: the queue forgets what
\* the payload no longer lists.
Check ==
  /\ NodeIsFree
  /\ \E payload \in SUBSET Reflexes :
       /\ todo' = Only(Listing, payload)
       /\ queue' = Only(queue, payload)
  /\ UNCHANGED <<world, active, phase, ladder, brakes, disk, past>>

\* When the last entry has been judged an idle engine drains.
AfterEntry(rest, waiting) ==
  phase' = IF rest = << >> /\ waiting /= << >> /\ phase = "idle"
           THEN "drain" ELSE phase

CheckEntry ==
  /\ todo /= << >>
  /\ \E known \in Found, r \in {Head(todo)} :
       /\ Remembers(known)
       /\ \/ /\ \E cooldown \in Cooldowns : Eligible(r, cooldown)
             /\ MayQueueRepair(r, known) /\ NotBooked(r)
             /\ queue' = InsertWithPriority(queue, r)
          \/ UNCHANGED queue
  /\ todo' = Tail(todo)
  /\ AfterEntry(todo', queue')
  /\ UNCHANGED <<window, readonly, channel, active, ladder, brakes, disk, past>>

\* The remediation engine of server.ts reports a regression.
InjectReflex(r) ==
  /\ NodeIsFree
  /\ \E cooldown \in Cooldowns : Eligible(r, cooldown)
  /\ \E known \in Found : Remembers(known) /\ MayQueueRepair(r, known)
  /\ NotBooked(r)
  /\ queue' = InsertWithPriority(queue, r)
  /\ phase' = IF phase = "idle" THEN "drain" ELSE phase
  /\ UNCHANGED <<window, readonly, channel, todo, active, ladder, brakes, disk, past>>

-----------------------------------------------------------------------------
(* _drainQueue and _execute up to the point where it waits                 *)

\* activeEntry is given up and the queue is drained, in the same handler.
StandDown ==
  /\ active' = Nobody /\ phase' = "drain" /\ ladder' = "off"

\* A save is due in 500 ms, counted from the latest change.
SaveState == dirty' = TRUE /\ UNCHANGED <<saved, crashes>>

DrainNothing ==
  /\ phase = "drain" /\ todo = << >> /\ queue = << >>
  /\ phase' = "idle"
  /\ UNCHANGED <<world, todo, queue, active, ladder, brakes, disk, past>>

Popped ==
  /\ phase = "drain" /\ todo = << >> /\ queue /= << >>
  /\ queue' = Tail(queue)
  /\ UNCHANGED <<window, readonly, channel, todo>>

\* _getApprovalWindowMs: all skills, or those that modify code.
Windowed(r, known) ==
  \/ window = "all"
  \/ window = "code" /\ CommandOf(r) \notin known

\* No window is open; by the time of the run the metadata is judged once more.
RunsOn(r, known) ==
  \E seen \in Found : ~Windowed(r, seen) /\ known \in FoundAfter(seen)

AskOperator ==
  /\ Popped
  /\ \E known \in Found : Remembers(known) /\ Windowed(Head(queue), known)
  /\ active' = Head(queue) /\ phase' = "approval"
  /\ UNCHANGED <<ladder, brakes, disk, past>>

\* _suppressAsPhantom: the verify gate measured the metric and found it well.
Suppress ==
  /\ Popped
  /\ \E known \in Found : Remembers(known) /\ ~Windowed(Head(queue), known)
  /\ brakes' = [brakes EXCEPT ![Head(queue)].age = 0,
                              ![Head(queue)].consecutive = 0,
                              ![Head(queue)].incomplete = 0]
  /\ fruitless' = [fruitless EXCEPT ![Head(queue)] = 0]
  /\ StandDown /\ SaveState
  /\ UNCHANGED rested

\* Judged again at the time of the run: metadata may have changed meanwhile.
Retire ==
  /\ Popped
  /\ \E known \in SUBSET Commands :
       /\ RunsOn(Head(queue), known) /\ ~MayQueueRepair(Head(queue), known)
       /\ Remembers(known)
  /\ StandDown
  /\ UNCHANGED <<brakes, disk, past>>

\* Mutant: what was judged when it was queued is not judged again.
SpawnUnjudged ==
  /\ Popped
  /\ LET r == Head(queue)
     IN  /\ \E known \in SUBSET Commands : RunsOn(r, known) /\ Remembers(known)
         /\ active' = r
         /\ phase' = IF Mechanism(r) = "none" THEN "skill" ELSE "mechanism"
         /\ ladder' = "armed"
  /\ UNCHANGED <<brakes, disk, past>>

\* A mechanism when there is one, which never falls through to the skill
\* in an entry that is not manual, and none here is.
Spawn ==
  /\ Popped
  /\ LET r == Head(queue)
     IN  /\ \E known \in SUBSET Commands :
              RunsOn(r, known) /\ MayQueueRepair(r, known) /\ Remembers(known)
         /\ active' = r
         /\ phase' = IF Mechanism(r) = "none" THEN "skill" ELSE "mechanism"
         /\ ladder' = "armed"
  /\ UNCHANGED <<brakes, disk, past>>

-----------------------------------------------------------------------------
(* The approval window                                                     *)

\* Half of COOLDOWN_MS, in units, is deducted in advance.
Half == 2

\* Cancelled or not answered: silence does not authorize a repair.
WindowCloses ==
  /\ phase = "approval" /\ todo = << >>
  /\ brakes' = [brakes EXCEPT ![active].age = IF Half < LongAgo THEN Half ELSE LongAgo]
  /\ StandDown /\ SaveState
  /\ UNCHANGED <<world, todo, queue, past>>

-----------------------------------------------------------------------------
(* _afterRun                                                               *)

\* Mutant: a skill that does not finish is told apart by nobody.
CountedOnlyErrors(b, progress, status) ==
  IF progress THEN [b EXCEPT !.consecutive = 0, !.incomplete = 0]
  ELSE IF status = "timeout" THEN b
  ELSE [b EXCEPT !.consecutive = @ + 1]

\* An unfinished run counts against a budget of its own.
Counted(b, progress, status) ==
  IF progress THEN [b EXCEPT !.consecutive = 0, !.incomplete = 0]
  ELSE IF status = "timeout" THEN [b EXCEPT !.incomplete = @ + 1]
  ELSE [b EXCEPT !.consecutive = @ + 1]

Parked(b) ==
  IF b.consecutive >= LoopBreakerLimit \/ b.incomplete >= IncompleteLimit
  THEN [b EXCEPT !.stuck = TRUE] ELSE b

\* Mutant: the cooldown is left as it was.
AfterBrakesUncooled(r, progress, status) ==
  [brakes EXCEPT ![r] = Parked(Counted(brakes[r], progress, status))]

AfterBrakes(r, progress, status) ==
  [brakes EXCEPT ![r] = [Parked(Counted(brakes[r], progress, status)) EXCEPT !.age = 0]]

\* A clean read-only mechanism is progress although its metric never moves;
\* else the metric has to be gone from the payload a run that is done refreshes.
Progress(r, status) ==
  IF status /= "done" THEN {FALSE}
  ELSE IF Mechanism(r) = "reads" THEN {TRUE} ELSE BOOLEAN

AfterRun(r, status) ==
  /\ \E progress \in Progress(r, status) :
       /\ brakes' = AfterBrakes(r, progress, status)
       /\ fruitless' = [fruitless EXCEPT ![r] = IF progress THEN 0 ELSE @ + 1]
  /\ rested' = [rested EXCEPT ![r] = FALSE]
  /\ queue' = IF brakes'[r].stuck /\ ~brakes[r].stuck
              THEN Only(queue, Reflexes \ {r}) ELSE queue
  /\ StandDown /\ SaveState

\* git cannot make the worktree, or spawn throws.
SpawnFails ==
  LET r == Head(queue)
  IN  /\ phase = "drain" /\ todo = << >> /\ queue /= << >>
      /\ \E known \in SUBSET Commands :
           RunsOn(r, known) /\ MayQueueRepair(r, known) /\ Remembers(known)
      /\ brakes' = AfterBrakes(r, FALSE, "error")
      /\ fruitless' = [fruitless EXCEPT ![r] = @ + 1]
      /\ rested' = [rested EXCEPT ![r] = FALSE]
      /\ queue' = Tail(queue)
      /\ StandDown /\ SaveState
      /\ UNCHANGED <<window, readonly, channel, todo>>

\* A mechanism that does not end well is an error, a time-out included; so is
\* a run in a worktree whose patch the audit or pytest refuses.
MechanismStatus(timedOut) ==
  IF timedOut THEN {"error"} ELSE {"done", "error"}

\* A turn cap or a quota limit is an unfinished run, like a time-out.
SkillStatus(timedOut) ==
  IF timedOut THEN {"timeout"} ELSE {"done", "error", "timeout"}

Ended(timedOut) ==
  /\ \E known \in Found : Remembers(known)
  /\ \E status \in IF phase = "skill" THEN SkillStatus(timedOut)
                   ELSE MechanismStatus(timedOut) :
       AfterRun(active, status)

\* The child has ended by itself or by a signal, or there never was one: its
\* close or error event.
Close ==
  /\ ladder /= "off" /\ NodeIsFree
  /\ Ended(ladder /= "armed")
  /\ UNCHANGED <<window, readonly, channel, todo>>

\* SIGTERM after EXEC_TIMEOUT_MS, SIGKILL 5 s later.
KillTimer ==
  /\ ladder = "armed" /\ NodeIsFree
  /\ ladder' = "terminated"
  /\ UNCHANGED <<world, todo, queue, active, phase, brakes, disk, past>>

\* Mutant: the last rung of the ladder is missing.
EscalateAgain ==
  /\ ladder = "terminated" /\ NodeIsFree
  /\ UNCHANGED vars

Escalate ==
  /\ ladder = "terminated" /\ NodeIsFree
  /\ ladder' = "killed"
  /\ UNCHANGED <<world, todo, queue, active, phase, brakes, disk, past>>

\* Two seconds after SIGKILL the engine no longer waits for the process.
ForceSettle ==
  /\ ladder = "killed" /\ NodeIsFree
  /\ Ended(TRUE)
  /\ UNCHANGED <<window, readonly, channel, todo>>

-----------------------------------------------------------------------------
(* Operator, disk and the rest of the world                                *)

\* clearStuck and clearAllStuck.
ClearStuck(R) ==
  /\ NodeIsFree
  /\ \E r \in R : brakes[r].stuck
  /\ brakes' = [r \in Reflexes |->
                  IF r \in R THEN [Released EXCEPT !.age = brakes[r].age] ELSE brakes[r]]
  /\ fruitless' = [r \in Reflexes |-> IF r \in R THEN 0 ELSE fruitless[r]]
  /\ SaveState
  /\ UNCHANGED <<world, engine, rested>>

SaveTimer ==
  /\ dirty /\ NodeIsFree
  /\ saved' = brakes /\ dirty' = FALSE
  /\ UNCHANGED <<world, engine, brakes, crashes, past>>

\* The server dies and comes back: what _loadState finds is all it knows.
Restart ==
  /\ crashes < MaxCrashes /\ crashes' = crashes + 1
  /\ todo' = << >> /\ queue' = << >>
  /\ active' = Nobody /\ phase' = "idle" /\ ladder' = "off"
  /\ brakes' = saved /\ dirty' = FALSE /\ copy' = NoCopy(readonly)
  /\ rested' = [r \in Reflexes |-> rested[r] \/ saved[r].age /= brakes[r].age]
  /\ UNCHANGED <<window, readonly, channel, saved, fruitless>>

Older(b) == [b EXCEPT !.age = IF @ < LongAgo THEN @ + 1 ELSE @]

\* A unit is far longer than the 500 ms of a save and the 60 s of the copy.
Tick ==
  /\ ~dirty
  /\ \E r \in Reflexes : brakes[r].age < LongAgo
  /\ brakes' = [r \in Reflexes |-> Older(brakes[r])]
  /\ saved' = [r \in Reflexes |-> Older(saved[r])]
  /\ rested' = [r \in Reflexes |-> TRUE]
  /\ copy' = NoCopy(readonly)
  /\ UNCHANGED <<window, readonly, channel, engine, dirty, crashes, fruitless>>

CopyExpires ==
  /\ ~copy.expired /\ copy' = NoCopy(readonly)
  /\ UNCHANGED <<window, readonly, channel, engine, brakes, disk, past>>

MetadataChanges ==
  /\ readonly' \in SUBSET Diagnostic
  /\ copy' = [copy EXCEPT !.lately = IF copy.expired THEN readonly' ELSE @ \union readonly']
  /\ UNCHANGED <<window, channel, engine, brakes, disk, past>>

\* spawnExec asks isCommandActive before it takes a command.
ChannelTakes(c) ==
  /\ NodeIsFree /\ c \notin Held
  /\ channel' = channel \union {c}
  /\ UNCHANGED <<window, readonly, copy, engine, brakes, disk, past>>

ChannelGives(c) ==
  /\ NodeIsFree
  /\ channel' = channel \ {c}
  /\ UNCHANGED <<window, readonly, copy, engine, brakes, disk, past>>

Drain ==
  DrainNothing \/ AskOperator \/ Suppress \/ Retire \/ Spawn \/ SpawnFails

Node == CheckEntry \/ Drain

Timers == WindowCloses \/ KillTimer \/ Escalate \/ ForceSettle

Next ==
  \/ Check \/ Node \/ Timers \/ Close
  \/ \E r \in Reflexes : InjectReflex(r)
  \/ \E R \in SUBSET Reflexes : ClearStuck(R)
  \/ SaveTimer \/ Restart \/ Tick
  \/ MetadataChanges \/ CopyExpires
  \/ \E c \in Commands : ChannelTakes(c) \/ ChannelGives(c)

Spec == Init /\ [][Next]_vars

\* A handler that runs goes on, and Node's loop visits its expired timers on
\* every turn, however many file events come between (so SF: a check blocks
\* the loop each time).  No process need end, and nobody owes a click.
Fairness == WF_vars(Node) /\ SF_vars(Timers)

FairSpec == Spec /\ Fairness

-----------------------------------------------------------------------------
(* Safety                                                                  *)

\* Whatever _check, injectReflex, the drain and the pruning of a parked
\* reflex do in turn, no reflex is booked twice, none waits while it runs, and
\* what waits is in order of priority.
BookedOnce ==
  /\ \A i, j \in DOMAIN queue : i < j =>
       queue[i] /= queue[j] /\ Rank(queue[i]) <= Rank(queue[j])
  /\ active \notin Waiting

\* The exec channel and the engine ask each other before they take a command;
\* neither ever runs or queues what the other has.
ChannelsExclude == Held \cap channel = {}

\* The two counters of the loop breaker do not reset each other, and a
\* restart forgets at most the run whose save was still due: a reflex that
\* makes no progress is run a bounded number of times before it is parked.
FruitlessRunsAreBounded ==
  \A r \in Reflexes :
    fruitless[r] <= LoopBreakerLimit + IncompleteLimit - 1 + crashes

\* Checks, drains, injections, the other channel and a restart in any order:
\* one booking per reflex, one channel per command, a bound on fruitless runs
\* (api/src/reflex-engine.ts:574-606, 835-935, 1270-1403).
ReflexInv ==
  /\ TypeOK
  /\ BookedOnce
  /\ ChannelsExclude
  /\ FruitlessRunsAreBounded

Starts(r) == active /= r /\ active' = r /\ phase' \in {"mechanism", "skill"}

\* Autonomous repair is retired: a skill is spawned only if the metadata has called
\* it read-only since the copy in use was read, a minute ago at most, however long
\* ago it was queued.
NoAutonomousRepair ==
  [][phase /= "skill" /\ phase' = "skill" => CommandOf(active') \in copy.lately]_vars

\* A run is followed by at least a quarter of the cooldown before the next of
\* the same reflex, unless a crash lost the record of it.
RestBetweenRuns ==
  [][\A r \in Reflexes : Starts(r) => rested[r]]_vars

(* Liveness                                                                *)

\* The engine never wedges: a run, a window, a mechanism ends by itself, by
\* the operator or by the kill ladder, even if no process ever ends.
EngineComesBack == active /= Nobody ~> active = Nobody
=============================================================================
