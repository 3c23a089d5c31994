---------------------------- MODULE HitlQueueCli ----------------------------
(***************************************************************************)
(* HitlQueue with the writer that does not take the queue lock:            *)
(* `ronin approve-hitl` (bin/ronin, cmd_approve_hitl) loads                *)
(* hitl_queue.json, approves rows in its copy and writes the copy back.    *)
(* It stamps no proposal hash and writes no row of the review ledger.      *)
(***************************************************************************)
EXTENDS HitlQueue

VARIABLE cli  \* the copy `ronin approve-hitl` works on

cliVars == <<vars, cli>>

NoCopy == << >>

Pending(copy) == {i \in Rows : copy[i].status = "pending"}

CliInit == Init /\ cli = NoCopy

\* Without a pending row the command reports that and ends.
CliLoad ==
  /\ cli = NoCopy
  /\ Pending(queue) /= {}
  /\ cli' = queue
  /\ UNCHANGED vars

ApprovedIn(copy, chosen) ==
  [i \in Rows |-> IF i \in chosen THEN [copy[i] EXCEPT !.status = "approved"]
                  ELSE copy[i]]

\* One pending row by id, or with --all every queue-tier one.
CliWrite ==
  /\ cli /= NoCopy
  /\ \E chosen \in SUBSET Pending(cli) :
       /\ \/ \E i \in Rows : chosen = {i}
          \/ chosen = {i \in Pending(cli) : cli[i].tier = "queue"} /\ chosen /= {}
       /\ queue' = ApprovedIn(cli, chosen)
  /\ cli' = NoCopy
  /\ UNCHANGED <<ledger, standing, decider, reviewer, runs, crashes>>

\* The operator lists the pending rows, or interrupts the command.
CliQuit ==
  /\ cli /= NoCopy
  /\ cli' = NoCopy
  /\ UNCHANGED vars

CliNext ==
  \/ Next /\ UNCHANGED cli
  \/ CliLoad
  \/ CliWrite
  \/ CliQuit

CliSpec == CliInit /\ [][CliNext]_cliVars

-----------------------------------------------------------------------------
\* The property at stake is HitlQueue's AtMostOnce: the claims that keep it
\* rest on every writer of the file holding its lock.
=============================================================================
