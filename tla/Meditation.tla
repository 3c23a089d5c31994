------------------------------ MODULE Meditation ------------------------------
(* The overnight run (bin/meditation_overnight.sh): the lock directory that     *)
(* keeps a second run out, the guards that keep its hands off work in progress, *)
(* the disposable worktree, the requeueing of stranded backlog items, and the   *)
(* cycles.  A run may be killed outright, which skips its exit trap and leaves  *)
(* the agent of its cycle at work.                                              *)
EXTENDS Integers, FiniteSets

CONSTANTS
  Nights,        \* the invocations of the script
  Nobody,        \* no invocation
  Chores,        \* backlog items
  RunHours,      \* RUN_HOURS
  StaleHours,    \* MEDITATION_STALE_DOING_HOURS
  LastHour,      \* bound: the clock
  MaxCycles,     \* MAX_CYCLES
  Budget,        \* DAILY_BUDGET_USD
  FlatLimit,     \* KEIKO_FLAT_LIMIT
  MaxHands       \* bound: what users and signals do to the runs

ASSUME MeditationAssumption ==
  /\ Nobody \notin Nights
  /\ {RunHours, StaleHours, LastHour, MaxHands} \subseteq Nat
  /\ {MaxCycles, Budget, FlatLimit} \subseteq Nat \ {0}

VARIABLES
  night,      \* what each invocation is doing
  nightLock,  \* state/.meditation.lock and the pid file in it
  site,       \* the main working tree, the stash list and the worktree
  chore,      \* MEDITATION_STATE.json: the backlog
  keiko,      \* MEDITATION_STATE.json: flat_cycle_count; and MEDITATION_STOP
  clock,      \* hours
  hands,      \* bound: see MaxHands
  mark        \* history: what happened that a promise excepts

meditationVars == <<night, nightLock, site, chore, keiko, clock, hands, mark>>

NightUnlocked == [dir |-> FALSE, pid |-> Nobody]
NoPidYet == [dir |-> TRUE, pid |-> Nobody]
OwnedBy(n) == [dir |-> TRUE, pid |-> n]

NoNight == [at |-> "off", deadline |-> 0, stashed |-> FALSE, worktree |-> FALSE,
          cycle |-> 0, spend |-> 0, hand |-> {}]

\* An item nobody works on.
NoWorker == [st |-> "todo", since |-> 0]

\* kill -0: the process of n exists.  That of an orphaned run does not.
NightLives(n) == night[n].at \notin {"off", "over", "orphaned", "killed"}

MeditationInit ==
  /\ night = [n \in Nights |-> NoNight] /\ nightLock = NightUnlocked
  /\ site \in [isolated : BOOLEAN, churn : BOOLEAN, work : {FALSE},
               merging : {FALSE}, stash : {{}}, wt : {Nobody}]
  /\ site.isolated => ~site.churn
  /\ chore = [c \in Chores |-> NoWorker]
  /\ keiko = [flat |-> 0, stop |-> FALSE]
  /\ clock = 0 /\ hands = 0
  /\ mark = [usurped |-> FALSE, raced |-> FALSE, popFailed |-> FALSE,
             killed |-> FALSE, stolen |-> {}]

NightAt(n, here) == night[n].at = here
NightGoes(n, there) == night' = [night EXCEPT ![n].at = there]

-----------------------------------------------------------------------------
(* The lock                                                                   *)

\* The pause flag and the day's ledger are read before anything is taken.
NightStarts(n) ==
  /\ NightAt(n, "off") /\ ~keiko.stop
  /\ night' = [night EXCEPT ![n].at = "lock", ![n].deadline = clock + RunHours]
  /\ UNCHANGED <<nightLock, site, chore, keiko, clock, hands, mark>>

\* Mutant: mkdir -p, which does not mind a directory another run has just made.
LocksUnlessSigned(n) ==
  /\ NightAt(n, "lock")
  /\ nightLock' = IF nightLock.dir THEN nightLock ELSE NoPidYet
  /\ NightGoes(n, CASE nightLock.pid = Nobody -> "sign"
               [] nightLock.pid # Nobody /\ NightLives(nightLock.pid) -> "over"
               [] OTHER -> "reclaim")
  /\ UNCHANGED <<site, chore, keiko, clock, hands, mark>>

\* mkdir takes the lock; a run that finds it taken leaves if its owner lives.
NightLocks(n) ==
  /\ NightAt(n, "lock")
  /\ nightLock' = IF nightLock.dir THEN nightLock ELSE NoPidYet
  /\ NightGoes(n, CASE ~nightLock.dir -> "sign"
               [] nightLock.pid # Nobody /\ NightLives(nightLock.pid) -> "over"
               [] OTHER -> "reclaim")
  /\ UNCHANGED <<site, chore, keiko, clock, hands, mark>>

\* What kill -0 found is acted on later: the lock may have a living owner by now, or
\* one that has not written its pid yet.
NightReclaims(n) ==
  /\ NightAt(n, "reclaim")
  /\ nightLock' = NightUnlocked
  /\ mark' = [mark EXCEPT !.usurped =
       @ \/ \E m \in Nights : NightAt(m, "sign") \/ (nightLock.pid = m /\ NightLives(m))]
  /\ NightGoes(n, "retake")
  /\ UNCHANGED <<site, chore, keiko, clock, hands>>

NightRetakes(n) ==
  /\ NightAt(n, "retake")
  /\ nightLock' = IF nightLock.dir THEN nightLock ELSE NoPidYet
  /\ NightGoes(n, IF nightLock.dir THEN "over" ELSE "sign")
  /\ UNCHANGED <<site, chore, keiko, clock, hands, mark>>

\* The pid file cannot be written into a directory that is gone: set -e ends it.
NightSigns(n) ==
  /\ NightAt(n, "sign")
  /\ nightLock' = IF nightLock.dir THEN OwnedBy(n) ELSE nightLock
  /\ NightGoes(n, IF nightLock.dir THEN "guard" ELSE "over")
  /\ UNCHANGED <<site, chore, keiko, clock, hands, mark>>

-----------------------------------------------------------------------------
(* The guards, the worktree and the backlog                                   *)

\* A merge in progress stops every run.  A run in a worktree of its own leaves the
\* main tree alone; another refuses foreign work and, for mere churn, stashes.
NightGuards(n) ==
  /\ NightAt(n, "guard")
  /\ NightGoes(n, CASE site.merging -> "cleanup"
               [] ~site.merging /\ site.isolated -> "provision"
               [] ~site.merging /\ ~site.isolated /\ site.work -> "cleanup"
               [] OTHER -> IF site.churn THEN "stash" ELSE "provision")
  /\ UNCHANGED <<nightLock, site, chore, keiko, clock, hands, mark>>

\* git stash push -u takes everything that is dirty by now; or the setting that
\* allows it is off, or it fails, and the run aborts.
NightStashes(n) ==
  /\ NightAt(n, "stash")
  /\ \/ /\ site' = [site EXCEPT !.churn = FALSE, !.work = FALSE,
                      !.stash = @ \cup (IF site.work THEN {"churn", "work"} ELSE {"churn"})]
        /\ night' = [night EXCEPT ![n].at = "provision", ![n].stashed = TRUE]
     \/ NightGoes(n, "cleanup") /\ UNCHANGED site
  /\ UNCHANGED <<nightLock, chore, keiko, clock, hands, mark>>

\* The worktree of whoever used it last is removed and made again.
NightProvisions(n) ==
  /\ NightAt(n, "provision")
  /\ IF site.isolated
     THEN /\ site' = [site EXCEPT !.wt = n]
          /\ night' = [night EXCEPT ![n].at = "reap", ![n].worktree = TRUE]
     ELSE UNCHANGED site /\ NightGoes(n, "reap")
  /\ UNCHANGED <<nightLock, chore, keiko, clock, hands, mark>>

Stranded(c) == chore[c].st = "doing" /\ clock - chore[c].since >= StaleHours

\* The agent of a cycle is at work: its script waits for it, or was killed.
AgentWorks(n) == night[n].at \in {"agent", "orphaned"}

\* What the agent of n has in hand looks stranded.
InFlight(n) == AgentWorks(n) /\ \E c \in night[n].hand : Stranded(c)

\* bin/reap_stale_doing.py
NightReaps(n) ==
  /\ NightAt(n, "reap")
  /\ chore' = [c \in Chores |-> IF Stranded(c) THEN NoWorker ELSE chore[c]]
  /\ mark' = [mark EXCEPT !.stolen = @ \cup {m \in Nights : InFlight(m)}]
  /\ NightGoes(n, "loop")
  /\ UNCHANGED <<nightLock, site, keiko, clock, hands>>

-----------------------------------------------------------------------------
(* The cycles                                                                 *)

NightHalts(n) ==
  keiko.stop \/ clock >= night[n].deadline \/ night[n].cycle >= MaxCycles

NightLoops(n) ==
  /\ NightAt(n, "loop")
  /\ night' = [night EXCEPT ![n].at = IF NightHalts(n) THEN "cleanup" ELSE "launch",
                 ![n].cycle = IF NightHalts(n) THEN @ ELSE @ + 1]
  /\ UNCHANGED <<nightLock, site, chore, keiko, clock, hands, mark>>

\* The preflight is asked once more; then the agent takes an item, if one is left.
NightLaunches(n) ==
  /\ NightAt(n, "launch")
  /\ IF keiko.stop
     THEN NightGoes(n, "cleanup") /\ UNCHANGED chore
     ELSE \/ \E c \in Chores :
               /\ chore[c].st = "todo"
               /\ chore' = [chore EXCEPT ![c] = [st |-> "doing", since |-> clock]]
               /\ night' = [night EXCEPT ![n].at = "agent", ![n].hand = {c}]
          \/ /\ \A c \in Chores : chore[c].st # "todo"
             /\ NightGoes(n, "agent") /\ UNCHANGED chore
  /\ UNCHANGED <<nightLock, site, keiko, clock, hands, mark>>

FlatCycles(improved) == IF improved THEN 0 ELSE keiko.flat + 1

\* The agent writes what it had in hand as done, whoever has it now, or leaves it lying.
AgentLeaves(n, improved) ==
  chore' = [c \in Chores |-> IF improved /\ c \in night[n].hand
                             THEN [chore[c] EXCEPT !.st = "done"] ELSE chore[c]]

\* It ends, by itself or at the timeout.  A cost that cannot be read counts as nothing.
NightLands(n) ==
  /\ NightAt(n, "agent")
  /\ \E improved \in BOOLEAN, cost \in {0, 1} :
       /\ AgentLeaves(n, improved)
       /\ LET broke == night[n].spend + cost >= Budget
              flat == IF broke THEN keiko.flat ELSE FlatCycles(improved)
          IN /\ keiko' = [keiko EXCEPT !.flat =
                            IF flat > FlatLimit THEN FlatLimit ELSE flat]
             /\ night' = [night EXCEPT ![n].spend = @ + cost, ![n].hand = {},
                            ![n].at = IF broke \/ flat >= FlatLimit
                                      THEN "cleanup" ELSE "loop"]
  /\ UNCHANGED <<nightLock, site, clock, hands, mark>>

-----------------------------------------------------------------------------
(* The end                                                                    *)

\* _meditation_cleanup frees a lock that carries its own pid.
FreesOwnLock(n) == IF nightLock.pid = n THEN NightUnlocked ELSE nightLock

\* The stash comes back, and the worktree goes.
Restores(n) ==
  [site EXCEPT
     !.churn = @ \/ (night[n].stashed /\ "churn" \in site.stash),
     !.work = @ \/ (night[n].stashed /\ "work" \in site.stash),
     !.stash = IF night[n].stashed THEN {} ELSE @,
     !.wt = IF night[n].worktree THEN Nobody ELSE @]

\* Changed files the run left behind may refuse the stash.
NightCleansUp(n) ==
  /\ NightAt(n, "cleanup")
  /\ \/ site' = Restores(n) /\ UNCHANGED mark
     \/ /\ night[n].stashed
        /\ site' = [Restores(n) EXCEPT !.churn = site.churn, !.work = site.work,
                                       !.stash = site.stash]
        /\ mark' = [mark EXCEPT !.popFailed = TRUE]
  /\ nightLock' = FreesOwnLock(n)
  /\ night' = [night EXCEPT ![n] = [NoNight EXCEPT !.at = "over"]]
  /\ UNCHANGED <<chore, keiko, clock, hands>>

-----------------------------------------------------------------------------
(* What the runs do not control                                               *)

\* Its agent is a process of its own, with a timeout of its own.
NightKilled(n) ==
  /\ NightLives(n) /\ hands < MaxHands /\ hands' = hands + 1
  /\ night' = [night EXCEPT ![n] =
       [NoNight EXCEPT !.at = IF AgentWorks(n) THEN "orphaned" ELSE "killed",
                       !.hand = night[n].hand]]
  /\ mark' = [mark EXCEPT !.killed = TRUE]
  /\ UNCHANGED <<nightLock, site, chore, keiko, clock>>

\* Nobody reads the answer of such an agent.
OrphanEnds(n) ==
  /\ NightAt(n, "orphaned")
  /\ \E improved \in BOOLEAN : AgentLeaves(n, improved)
  /\ night' = [night EXCEPT ![n] = [NoNight EXCEPT !.at = "killed"]]
  /\ UNCHANGED <<nightLock, site, keiko, clock, hands, mark>>

\* A session edits a file, begins a merge or ends it; the owner pauses the runs.
SessionWorks ==
  /\ hands < MaxHands /\ hands' = hands + 1
  /\ \/ ~site.work /\ site' = [site EXCEPT !.work = TRUE] /\ UNCHANGED keiko
     \/ ~site.merging /\ site' = [site EXCEPT !.merging = TRUE] /\ UNCHANGED keiko
     \/ ~keiko.stop /\ keiko' = [keiko EXCEPT !.stop = TRUE] /\ UNCHANGED site
  /\ mark' = [mark EXCEPT !.raced = @ \/ \E n \in Nights : NightAt(n, "stash")]
  /\ UNCHANGED <<night, nightLock, chore, clock>>

HourPasses ==
  /\ clock < LastHour /\ clock' = clock + 1
  /\ UNCHANGED <<night, nightLock, site, chore, keiko, hands, mark>>

NightStep(n) ==
  \/ NightLocks(n) \/ NightReclaims(n) \/ NightRetakes(n) \/ NightSigns(n)
  \/ NightGuards(n) \/ NightStashes(n) \/ NightProvisions(n) \/ NightReaps(n)
  \/ NightLoops(n) \/ NightLaunches(n) \/ NightLands(n) \/ NightCleansUp(n)

MeditationNext ==
  \/ \E n \in Nights : NightStarts(n) \/ NightStep(n) \/ NightKilled(n) \/ OrphanEnds(n)
  \/ SessionWorks \/ HourPasses

MeditationSpec == MeditationInit /\ [][MeditationNext]_meditationVars

-----------------------------------------------------------------------------
(* Properties                                                                 *)

MeditationTypeOK ==
  /\ \A n \in Nights :
       /\ night[n].at \in {"off", "lock", "reclaim", "retake", "sign", "guard",
                           "stash", "provision", "reap", "loop", "launch", "agent",
                           "cleanup", "over", "orphaned", "killed"}
       /\ night[n].cycle \in 0 .. MaxCycles /\ night[n].spend \in 0 .. Budget
  /\ nightLock \in {NightUnlocked, NoPidYet} \cup {OwnedBy(n) : n \in Nights}
  /\ site.stash \subseteq {"churn", "work"} /\ site.wt \in Nights \cup {Nobody}
  /\ keiko.flat \in 0 .. FlatLimit /\ mark.stolen \subseteq Nights

InTheTree(n) ==
  NightLives(n) /\ night[n].at \notin {"lock", "reclaim", "retake", "sign"}

\* Unless a lock was reclaimed from a living run, the run past the lock is alone and
\* the lock carries its pid until its exit: no other run, aborted or finished, frees
\* it, and the lock of a dead run goes to one of those that find it.
OneNight ==
  ~mark.usurped =>
    \A n \in Nights : InTheTree(n) =>
      /\ nightLock = OwnedBy(n)
      /\ \A m \in Nights \ {n} : ~InTheTree(m)

\* reap_stale_doing takes no item from the agent of a living run, however long that
\* takes, unless a lock was reclaimed from a living run; the agent of a killed run may
\* lose what it is working on (bin/reap_stale_doing.py:14-17).
InFlightIsKept ==
  ~mark.usurped => \A n \in mark.stolen : night[n].at \in {"orphaned", "killed"}

\* Work of a live session is stashed only when it appeared between the guard's look
\* and the stash; and never from a run that has a worktree of its own.
WorkIsNotStashed == "work" \in site.stash => mark.raced /\ ~site.isolated

\* What was stashed is in the hands of a living run, unless one was killed or its
\* stash could not be popped.
StashComesBack ==
  site.stash # {} => \/ mark.killed \/ mark.popFailed
                     \/ \E n \in Nights : NightLives(n) /\ night[n].stashed

\* The cycle of a living run works in the worktree its own run made, with the same
\* exception; that of a killed run may have it removed and made again under it.
WorktreeIsMine ==
  \A n \in Nights :
    NightAt(n, "agent") /\ site.isolated /\ ~mark.usurped => site.wt = n

\* What the overnight run promises about its lock, the site and the backlog.  That no
\* two agents are at work is not part of it: the lock is freed by the death of the
\* script, which its agent survives.
MeditationInv ==
  /\ MeditationTypeOK /\ OneNight /\ InFlightIsKept /\ WorkIsNotStashed
  /\ StashComesBack /\ WorktreeIsMine
=============================================================================
