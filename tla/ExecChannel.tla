---------------------------- MODULE ExecChannel ----------------------------
(***************************************************************************)
(* The exec channel of api/src/server.ts: spawnExec runs the command an    *)
(* operator sends, one at a time, beside the reflex engine's own channel.  *)
(*                                                                         *)
(* Each request, timer and event handler is one step of Node's loop.  The  *)
(* reflex engine appears only as the set of commands it has queued or is   *)
(* running: spawnExec reads it (isCommandActive), and the engine takes a   *)
(* command only when spawnExecActive does not hold it.                     *)
(***************************************************************************)
EXTENDS Naturals, Sequences

CONSTANTS
  Commands,   \* skill and claude commands that pass the filters
  MaxExecs    \* bound: children spawned in a behaviour

ASSUME ExecAssumption == MaxExecs \in Nat

VARIABLES
  execChild,  \* the child the channel regards as its own, NoChild if none
  active,     \* spawnExecActive: the child that owns each command
  execs,      \* the child processes spawned so far, oldest first
  reflex,     \* commands queued or running in the reflex engine
  execShown   \* the last exec_status broadcast

execVars == <<execChild, active, execs, reflex, execShown>>

NoChild == 0
Slots == 1 .. MaxExecs

\* signalled: the child was sent SIGTERM; settled and timer are its closure's.
ExecRecord ==
  [command : Commands, proc : {"alive", "gone"}, signalled : BOOLEAN,
   timer : BOOLEAN, settled : BOOLEAN, closed : BOOLEAN]

ExecTypeOK ==
  /\ execChild \in Slots \union {NoChild}
  /\ active \in [Commands -> Slots \union {NoChild}]
  /\ execs \in Seq(ExecRecord) /\ Len(execs) <= MaxExecs
  /\ reflex \subseteq Commands
  /\ execShown \in {"idle", "running", "done", "error"}

ExecInit ==
  /\ execChild = NoChild
  /\ active = [c \in Commands |-> NoChild]
  /\ execs = << >>
  /\ reflex = {}
  /\ execShown = "idle"

\* The children once whatever the channel runs has been sent SIGTERM.
CurrentKilled ==
  IF execChild = NoChild THEN execs
  ELSE [execs EXCEPT ![execChild].signalled = TRUE]

\* Not a command this channel accepts.
RefuseExec ==
  /\ execShown' = "error"
  /\ UNCHANGED <<execChild, active, execs, reflex>>

\* The reflex engine has this command already.
DedupeExec(c) ==
  /\ c \in reflex
  /\ execShown' = "done"
  /\ UNCHANGED <<execChild, active, execs, reflex>>

\* A claude command with a forbidden flag is refused after the running child
\* has been killed.
ForbiddenExec(c) ==
  /\ c \notin reflex
  /\ execs' = CurrentKilled
  /\ execShown' = "error"
  /\ UNCHANGED <<execChild, active, reflex>>

\* Mutant: the reflex engine is not asked.
SpawnExecUnasked(c) ==
  LET k == Len(execs) + 1
  IN  /\ k <= MaxExecs
      /\ execs' = Append(CurrentKilled,
                            [command |-> c, proc |-> "alive", signalled |-> FALSE,
                             timer |-> TRUE, settled |-> FALSE, closed |-> FALSE])
      /\ execChild' = k
      /\ active' = [active EXCEPT ![c] = k]
      /\ execShown' = "running"
      /\ UNCHANGED reflex

SpawnExec(c) ==
  LET k == Len(execs) + 1
  IN  /\ k <= MaxExecs
      /\ c \notin reflex
      /\ execs' = Append(CurrentKilled,
                            [command |-> c, proc |-> "alive", signalled |-> FALSE,
                             timer |-> TRUE, settled |-> FALSE, closed |-> FALSE])
      /\ execChild' = k
      /\ active' = [active EXCEPT ![c] = k]
      /\ execShown' = "running"
      /\ UNCHANGED reflex

\* spawn throws: the socket that asked is told nothing, and what is shown stays.
SpawnExecThrows(c) ==
  /\ c \notin reflex
  /\ execs' = CurrentKilled
  /\ execShown' = "running"
  /\ UNCHANGED <<execChild, active, reflex>>

\* Mutant: a child that was superseded stays silent, and so does its timer.
ExecKillTimerSilent(k) ==
  /\ execs[k].timer
  /\ execs' = [execs EXCEPT ![k].timer = FALSE, ![k].settled = TRUE,
                                  ![k].signalled = TRUE]
  /\ execChild' = NoChild
  /\ UNCHANGED <<active, reflex, execShown>>

\* Whose child the channel holds by now is not asked.
ExecKillTimer(k) ==
  /\ execs[k].timer
  /\ execs' = [execs EXCEPT ![k].timer = FALSE, ![k].settled = TRUE,
                                  ![k].signalled = TRUE]
  /\ execChild' = NoChild
  /\ execShown' = "error"
  /\ UNCHANGED <<active, reflex>>

ExecEnds(k) ==
  /\ execs[k].proc = "alive"
  /\ execs' = [execs EXCEPT ![k].proc = "gone"]
  /\ UNCHANGED <<execChild, active, reflex, execShown>>

\* Mutant: the stale child evicts whoever owns the command now.
DisownAny(k) == [active EXCEPT ![execs[k].command] = NoChild]

\* Only the owner of a command gives it up.
Disown(k) ==
  IF active[execs[k].command] = k
  THEN [active EXCEPT ![execs[k].command] = NoChild] ELSE active

\* The close and error handlers; after an error of spawn, close comes too.
ExecSettle(k) ==
  /\ execs[k].proc = "gone" /\ ~execs[k].closed
  /\ active' = Disown(k)
  /\ \/ /\ execChild /= k
        /\ execs' = [execs EXCEPT ![k].timer = FALSE, ![k].closed = TRUE]
        /\ UNCHANGED <<execChild, execShown>>
     \/ /\ execChild = k
        /\ execChild' = NoChild
        /\ \E more \in BOOLEAN :
             execs' = [execs EXCEPT ![k].timer = FALSE, ![k].settled = TRUE,
                                          ![k].closed = ~more]
        /\ IF execs[k].settled THEN UNCHANGED execShown
           ELSE execShown' \in {"done", "error"}
  /\ UNCHANGED reflex

\* The reflex engine: queues what this channel does not hold, ends it later.
ReflexTakes(c) ==
  /\ active[c] = NoChild
  /\ reflex' = reflex \union {c}
  /\ UNCHANGED <<execChild, active, execs, execShown>>

ReflexEnds(c) ==
  /\ c \in reflex
  /\ reflex' = reflex \ {c}
  /\ UNCHANGED <<execChild, active, execs, execShown>>

ExecNext ==
  \/ RefuseExec
  \/ \E c \in Commands :
       \/ SpawnExec(c) \/ SpawnExecThrows(c) \/ DedupeExec(c) \/ ForbiddenExec(c)
       \/ ReflexTakes(c) \/ ReflexEnds(c)
  \/ \E k \in DOMAIN execs : ExecKillTimer(k) \/ ExecEnds(k) \/ ExecSettle(k)

ExecSpec == ExecInit /\ [][ExecNext]_execVars

\* Timers fire and owed events are delivered; nobody owes a request, and no
\* process need end by itself.
ExecFairness ==
  \A k \in Slots :
    /\ WF_execVars(k \in DOMAIN execs /\ ExecKillTimer(k))
    /\ WF_execVars(k \in DOMAIN execs /\ ExecSettle(k))

ExecFairSpec == ExecSpec /\ ExecFairness

-----------------------------------------------------------------------------
(* Properties                                                              *)

Newest(c, k) ==
  /\ execs[k].command = c
  /\ \A j \in DOMAIN execs : execs[j].command = c => j <= k

\* "so a stale child's close handler can't evict the entry a newer run of the
\* same command just registered": a command is held exactly by the newest
\* child that runs it, until that child's own end.
HeldByTheNewest ==
  \A k \in DOMAIN execs :
    LET c == execs[k].command
    IN  /\ active[c] = k => Newest(c, k)
        /\ Newest(c, k) /\ execs[k].proc = "alive" => active[c] = k

\* The two channels never hold one command at a time, though each asks the
\* other only once, before it starts.
ChannelsDedupe == \A c \in reflex : active[c] = NoChild

\* What the operator sees running ends, although the child need not; only a spawn
\* that threw while the channel had no child leaves "running" to the next request.
ShownRunEnds ==
  execShown = "running" /\ execChild /= NoChild ~> execShown /= "running"
=============================================================================
