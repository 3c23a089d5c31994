------------------------------ MODULE StrictCall ------------------------------
(***************************************************************************)
(* LLMGateway.generate_strict of agentica_core/llm/gateway.py: one call of *)
(* the claude program, with a thread that reads its output, a thread that  *)
(* writes the prompt, a deadline over all three, and no fallback.          *)
(*                                                                         *)
(* The names carry the prefix Strict so that Gateway and this module can   *)
(* be checked together.                                                    *)
(*                                                                         *)
(* Abstractions.                                                           *)
(*  - Output is counted in chunks; StrictLimit of them are 65536 bytes.    *)
(*  - held: a process that left the child's process group has the other    *)
(*    end of the pipes, so they stay open when the child has gone.         *)
(*  - A signal is delivered at once; stuck: it is not, the child is in the *)
(*    kernel for longer than the two seconds stop() gives it.              *)
(***************************************************************************)
EXTENDS Naturals, Sequences

CONSTANT StrictLimit  \* chunks the answer may have

ASSUME StrictLimitAssumption == StrictLimit \in Nat \ {0}

VARIABLES
  main,      \* where the calling thread is
  child,     \* the process: running, or how it ended
  held,      \* somebody else holds the pipes
  pipe,      \* chunks written and not yet read
  output,    \* chunks read
  reader, writer,  \* the threads
  failures,  \* what the threads report
  timeUp,    \* the deadline has passed
  ending     \* how the call ended

strictVars ==
  <<main, child, held, pipe, output, reader, writer, failures, timeUp, ending>>

threads == <<pipe, output, reader, writer, failures>>

Kinds == {"unavailable", "output_limit", "timeout", "invalid_reply"}

StrictTypeOK ==
  /\ main \in {"wait", "joinReader", "joinWriter", "stop", "over"}
  /\ child \in {"running", "done", "failed"}
  /\ held \in BOOLEAN /\ timeUp \in BOOLEAN
  /\ pipe \in 0 .. 2 /\ output \in 0 .. StrictLimit
  /\ reader \in {"alive", "ended"} /\ writer \in {"alive", "ended"}
  /\ failures \in Seq(Kinds)
  /\ ending \in {"none", "reply", "escaped"} \union Kinds

\* The request is valid and Popen succeeded; both threads are started.
StrictInit ==
  /\ main = "wait" /\ child = "running"
  /\ held \in BOOLEAN
  /\ pipe = 0 /\ output = 0
  /\ reader = "alive" /\ writer = "alive"
  /\ failures = << >> /\ timeUp = FALSE /\ ending = "none"

-----------------------------------------------------------------------------
(* The child                                                               *)

\* Bound: the child fills two chunks ahead of the reader.
ChildWrites ==
  /\ child = "running" /\ pipe < 2
  /\ pipe' = pipe + 1
  /\ UNCHANGED <<main, child, held, output, reader, writer, failures, timeUp,
                 ending>>

ChildExits ==
  /\ child = "running"
  /\ child' \in {"done", "failed"}
  /\ UNCHANGED <<main, held, threads, timeUp, ending>>

\* stop(): SIGKILL to the child's process group.
Killed == IF child = "running" THEN "failed" ELSE child

-----------------------------------------------------------------------------
(* The threads                                                             *)

ReaderReads ==
  /\ reader = "alive" /\ pipe > 0
  /\ pipe' = pipe - 1
  /\ IF output + 1 > StrictLimit
     THEN /\ failures' = Append(failures, "output_limit")
          /\ child' = Killed /\ reader' = "ended"
          /\ UNCHANGED output
     ELSE /\ output' = output + 1
          /\ UNCHANGED <<failures, child, reader>>
  /\ UNCHANGED <<main, held, writer, timeUp, ending>>

PipesClosed == child /= "running" /\ ~held

ReaderEnds ==
  /\ reader = "alive" /\ pipe = 0 /\ PipesClosed
  /\ reader' = "ended"
  /\ UNCHANGED <<main, child, held, pipe, output, writer, failures, timeUp, ending>>

\* The prompt is written, or nobody is left to read it.
WriterEnds ==
  /\ writer = "alive"
  /\ writer' = "ended"
  /\ \/ UNCHANGED failures
     \/ failures' = Append(failures, "unavailable")
  /\ UNCHANGED <<main, child, held, pipe, output, reader, timeUp, ending>>

Deadline ==
  /\ main /= "over" /\ ~timeUp
  /\ timeUp' = TRUE
  /\ UNCHANGED <<main, child, held, threads, ending>>

-----------------------------------------------------------------------------
(* The calling thread                                                      *)

MoveTo(place) ==
  /\ main' = place
  /\ UNCHANGED <<child, held, threads, timeUp, ending>>

\* proc.wait within the time that is left.
Waits ==
  /\ main = "wait"
  /\ \/ child /= "running" /\ MoveTo("joinReader")
     \/ timeUp /\ child = "running" /\ MoveTo("stop")

JoinsReader ==
  /\ main = "joinReader"
  /\ reader = "ended" \/ timeUp
  /\ MoveTo("joinWriter")

End(kind) ==
  /\ main' = "over" /\ ending' = kind
  /\ UNCHANGED <<held, threads, timeUp>>

\* What is raised, or what _parse_strict_reply makes of the output.
Endings ==
  IF failures /= << >> THEN {Head(failures)}
  ELSE IF child = "failed" THEN {"unavailable"}
  ELSE {"reply", "invalid_reply"}

\* Mutant: a thread that is still at work is not noticed.
JoinsWriterAnyway ==
  /\ main = "joinWriter"
  /\ writer = "ended" \/ timeUp
  /\ \E kind \in Endings : End(kind) /\ UNCHANGED child

JoinsWriter ==
  /\ main = "joinWriter"
  /\ writer = "ended" \/ timeUp
  /\ IF reader = "alive" \/ writer = "alive" THEN MoveTo("stop")
     ELSE \E kind \in Endings : End(kind) /\ UNCHANGED child

\* The group is killed, waited for two seconds, and each thread joined for
\* one; a child that has not gone by then makes wait() raise.
Stops ==
  /\ main = "stop"
  /\ \/ child' = Killed /\ End("timeout")
     \/ child = "running" /\ UNCHANGED child /\ End("escaped")

StrictMain == Waits \/ JoinsReader \/ JoinsWriter \/ Stops

StrictThreads == ReaderReads \/ ReaderEnds \/ WriterEnds

StrictNext ==
  StrictMain \/ StrictThreads \/ ChildWrites \/ ChildExits \/ Deadline

\* The caller's thread is scheduled and the clock runs.  The child owes
\* nothing, and the threads wait for the child.
StrictFairness == WF_strictVars(StrictMain) /\ WF_strictVars(Deadline)

StrictSpec == StrictInit /\ [][StrictNext]_strictVars /\ StrictFairness

-----------------------------------------------------------------------------
\* A reply is made of everything a well-behaved child wrote: the reader saw
\* the end of the output, and the child had the whole prompt.
ReplyIsWhole ==
  ending = "reply" =>
    reader = "ended" /\ writer = "ended" /\ pipe = 0 /\ child = "done"

\* No call leaves its child behind, whichever of the deadline, the limit and
\* the child's own end came first, unless the kernel would not let it die.
ChildIsGone == ending \notin {"none", "escaped"} => child /= "running"

\* Whichever of deadline, limit and the child's end comes first, a reply is
\* whole and the child is gone (agentica_core/llm/gateway.py).
StrictInv == StrictTypeOK /\ ReplyIsWhole /\ ChildIsGone

\* The call ends although neither the child nor the holder of its pipes does.
StrictCallEnds == <>(main = "over")
=============================================================================
