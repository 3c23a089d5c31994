----------------------------- MODULE DojoRunner -----------------------------
(***************************************************************************)
(* AutoRemediationEngine of api/src/dojo.ts: manual pillar cycles, run one *)
(* after the other because they share one working tree.                    *)
(*                                                                         *)
(* Node runs one callback at a time, so enqueue, the kill timer and the    *)
(* close and error handlers are each one step.  The child processes are    *)
(* the operating system's: SIGTERM asks a child to go, and it goes when it *)
(* likes; anybody else may signal it too.                                  *)
(*                                                                         *)
(* spawn reports a failure by an event, or throws.  Nobody here catches    *)
(* what it throws: a request is answered by an error and the mark of its   *)
(* pillar stays, while a handler that was draining takes the whole server  *)
(* with it.  A server started again begins as this one did.                *)
(***************************************************************************)
EXTENDS Naturals, Sequences, SequencesExt

CONSTANTS
  Pillars,    \* PILLAR_SLUGS
  MaxSpawns   \* bound: cycles started or waiting, in a behaviour

ASSUME SpawnsAssumption == MaxSpawns \in Nat

VARIABLES
  running,    \* the pillars the engine believes are running
  queue,      \* the pillars waiting for their turn
  children,   \* the child processes spawned so far, oldest first
  shown,      \* the last status emitted for each pillar
  server      \* "threw" once a request's spawn has, "dead" once a handler's has

vars == <<running, queue, children, shown, server>>

\* proc is the process, "none" if it could not be spawned; timer, settled and
\* closed are the closure's: timer armed, outcome known, close event seen.
Child ==
  [pillar : Pillars, proc : {"alive", "exited", "signalled", "none"},
   timer : BOOLEAN, settled : BOOLEAN, closed : BOOLEAN]

TypeOK ==
  /\ running \subseteq Pillars
  /\ queue \in Seq(Pillars)
  /\ children \in Seq(Child) /\ Len(children) + Len(queue) <= MaxSpawns
  /\ shown \in [Pillars -> {"idle", "running", "done", "error"}]
  /\ server \in {"up", "threw", "dead"}

Init ==
  /\ running = {} /\ queue = << >> /\ children = << >> /\ server = "up"
  /\ shown = [p \in Pillars |-> "idle"]

\* _spawn(p); kids, marks and emitted are the children, the running set and
\* the statuses as its caller leaves them.
Spawn(p, kids, marks, emitted) ==
  /\ \E proc \in {"alive", "none"} :
       children' = Append(kids, [pillar |-> p, proc |-> proc, timer |-> TRUE,
                                 settled |-> FALSE, closed |-> FALSE])
  /\ running' = marks \union {p}
  /\ shown' = [emitted EXCEPT ![p] = "running"]
  /\ UNCHANGED server

\* The throw reaches the route or the socket that asked.
SpawnThrows(p) ==
  /\ running' = running \union {p}
  /\ shown' = [shown EXCEPT ![p] = "running"]
  /\ server' = "threw"
  /\ UNCHANGED <<queue, children>>

\* The throw reaches nobody.
ServerDies(kids, emitted) ==
  /\ children' = kids /\ running' = {} /\ queue' = << >>
  /\ shown' = [emitted EXCEPT ![Head(queue)] = "running"]
  /\ server' = "dead"

Enqueue(p) ==
  /\ server /= "dead"
  /\ Len(children) + Len(queue) < MaxSpawns
  /\ p \notin running
  /\ p \notin ToSet(queue)
  /\ \/ /\ running = {}
        /\ Spawn(p, children, running, shown)
        /\ UNCHANGED queue
     \/ running = {} /\ SpawnThrows(p)
     \/ /\ running /= {}
        /\ queue' = Append(queue, p)
        /\ shown' = [shown EXCEPT ![p] = "running"]
        /\ UNCHANGED <<children, running, server>>

\* Mutant: whoever waits goes on waiting.
DrainNobody(kids, marks, emitted) ==
  /\ children' = kids /\ running' = marks /\ shown' = emitted
  /\ UNCHANGED <<queue, server>>

\* _drainQueue
DrainQueue(kids, marks, emitted) ==
  \/ /\ queue = << >>
     /\ children' = kids /\ running' = marks /\ shown' = emitted
     /\ UNCHANGED <<queue, server>>
  \/ /\ queue /= << >>
     /\ Spawn(Head(queue), kids, marks, emitted)
     /\ queue' = Tail(queue)
  \/ queue /= << >> /\ ServerDies(kids, emitted)

\* What the close and error handlers do to the closure of child k.
Closed(k, closes) ==
  [children EXCEPT ![k].timer = FALSE, ![k].settled = TRUE, ![k].closed = closes]

Emitted(p, outcome) ==
  IF outcome = "nothing" THEN shown ELSE [shown EXCEPT ![p] = outcome]

\* Mutant: a handler that comes after the kill timer speaks and drains again.
SettleTwice(k, closes, outcome) ==
  LET p == children[k].pillar
  IN  DrainQueue(Closed(k, closes), running \ {p}, Emitted(p, outcome))

Settle(k, closes, outcome) ==
  LET p == children[k].pillar
  IN  \/ /\ children[k].settled
         /\ children' = Closed(k, closes)
         /\ running' = running \ {p}
         /\ UNCHANGED <<queue, shown, server>>
      \/ /\ ~children[k].settled
         /\ DrainQueue(Closed(k, closes), running \ {p}, Emitted(p, outcome))

\* A child a signal ended has no exit code, and then nothing is shown.
Outcomes(proc) ==
  CASE proc = "exited"    -> {"done", "error"}
    [] proc = "signalled" -> {"nothing"}
    [] proc = "none"      -> {"error"}
    [] proc = "alive"     -> {}

Close(k) ==
  /\ server /= "dead" /\ ~children[k].closed
  /\ children[k].proc = "none" => children[k].settled
  /\ \E outcome \in Outcomes(children[k].proc) : Settle(k, TRUE, outcome)

\* Node emits the error of a failed spawn before any timer, and close later.
SpawnError(k) ==
  /\ server /= "dead" /\ children[k].proc = "none" /\ ~children[k].settled
  /\ Settle(k, FALSE, "error")

\* The backstop: SIGTERM, then the next cycle, whether or not this one is gone.
KillTimer(k) ==
  LET p == children[k].pillar
  IN  /\ server /= "dead" /\ children[k].timer /\ children[k].proc /= "none"
      /\ DrainQueue([children EXCEPT ![k].timer = FALSE, ![k].settled = TRUE],
                    running \ {p}, [shown EXCEPT ![p] = "error"])

ProcessEnds(k) ==
  /\ children[k].proc = "alive"
  /\ \E end \in {"exited", "signalled"} :
       children' = [children EXCEPT ![k].proc = end]
  /\ UNCHANGED <<running, queue, shown, server>>

Next ==
  \/ \E p \in Pillars : Enqueue(p)
  \/ \E k \in DOMAIN children :
       Close(k) \/ SpawnError(k) \/ KillTimer(k) \/ ProcessEnds(k)

Spec == Init /\ [][Next]_vars

\* Node runs the handlers it owes and its timers fire; nobody owes a click,
\* and a cycle need not end by itself.
Fairness ==
  \A k \in 1 .. MaxSpawns :
    /\ WF_vars(k \in DOMAIN children /\ Close(k))
    /\ WF_vars(k \in DOMAIN children /\ SpawnError(k))
    /\ WF_vars(k \in DOMAIN children /\ KillTimer(k))

FairSpec == Spec /\ Fairness

-----------------------------------------------------------------------------
(* Properties                                                              *)

Live(k) == ~children[k].settled

\* Whoever waits is waiting for a handler that will drain the queue: the
\* queue is never left to the next click, until a spawn has thrown.
SomebodyDrains ==
  server = "up" /\ queue /= << >> => \E k \in DOMAIN children : Live(k)

\* Each cycle is settled once: the close of a child the kill timer or an error
\* event already answered for frees nobody's turn and shows nothing.
LateEventsAreSilent ==
  [][\A k \in DOMAIN children :
       children[k].settled /\ ~children[k].closed /\ children'[k].closed
         => UNCHANGED <<queue, shown>> /\ Len(children') = Len(children)]_vars

\* Every queued cycle gets its turn, although no cycle ends by itself, unless a spawn
\* threw before it was queued or throws while the queue is drained.
QueuedCyclesRun ==
  \A p \in Pillars : server = "up" /\ p \in ToSet(queue) ~> p \notin ToSet(queue)
=============================================================================
