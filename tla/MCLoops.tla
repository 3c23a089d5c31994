------------------------------- MODULE MCLoops --------------------------------
(* What starts and follows processes: fleet retirement, the daemon, the writers   *)
(* of the backlog, and the two channels of the API server an operator starts      *)
(* runs by.  They share no state: a behaviour is one of a single  *)
(* part, which `live` names, while the variables of the others keep a state in    *)
(* which they have come to rest.                                                  *)
EXTENDS FleetRetirement, RoninDaemon, Backlog, DojoRunner, ExecChannel

CONSTANTS
  i1, i2,
  rep, sen1, sen2, titleA, titleB, titleR

VARIABLE live

MCKind == [r \in Runs |-> IF r = rep THEN "AUTO" ELSE "SENSEI"]
MCTopics ==
  [r \in Runs |-> IF r = rep THEN {titleA} ELSE IF r = sen1 THEN {titleR} ELSE {titleR, titleB}]

-----------------------------------------------------------------------------
(* A part that is at rest                                                    *)

FleetRest == FleetInit

DaemonRest ==
  /\ daemon = [at |-> "over", fails |-> 0, prev |-> 0, exit |-> "ok", dry |-> FALSE]
  /\ stop = FALSE /\ approved = FALSE /\ ledger = [day |-> NoLedger, spent |-> 0]
  /\ today = 1 /\ tree = [work |-> 0, kept |-> 0] /\ baseline = 0
  /\ unrecorded = 0 /\ paid = 0 /\ full = 0

BacklogRest ==
  /\ items = {} /\ lock = Free /\ run = [r \in Runs |-> "over"]
  /\ copy = [r \in Runs |-> {}] /\ promote = [at |-> "idle", copy |-> {}]
  /\ added = {} /\ edits = 0 /\ trespass = {}

\* No handler is owed in a channel without children.
ChannelsRest == Init /\ ExecInit

-----------------------------------------------------------------------------

MCInit ==
  /\ live \in {"fleet", "daemon", "backlog", "dojo", "exec"}
  /\ IF live = "fleet" THEN FleetInit ELSE FleetRest
  /\ IF live = "daemon" THEN DaemonInit ELSE DaemonRest
  /\ IF live = "backlog" THEN BacklogInit ELSE BacklogRest
  /\ ChannelsRest

loopVars == <<fleetVars, daemonVars, backlogVars>>
channelVars == <<vars, execVars>>

MCNext ==
  \/ live = "fleet" /\ FleetNext
     /\ UNCHANGED <<live, daemonVars, backlogVars, channelVars>>
  \/ live = "daemon" /\ DaemonNext
     /\ UNCHANGED <<live, fleetVars, backlogVars, channelVars>>
  \/ live = "backlog" /\ BacklogNext
     /\ UNCHANGED <<live, fleetVars, daemonVars, channelVars>>
  \/ live = "dojo" /\ Next /\ UNCHANGED <<live, loopVars, execVars>>
  \/ live = "exec" /\ ExecNext /\ UNCHANGED <<live, loopVars, vars>>

MCSpec ==
  /\ MCInit
  /\ [][MCNext]_<<live, loopVars, channelVars>>
  /\ \A s \in Sweeps :
       /\ WF_fleetVars(live = "fleet" /\ SweepStep(s))
       /\ \A i \in Requests : WF_fleetVars(live = "fleet" /\ BeginRetirement(s, i))
  /\ WF_daemonVars(live = "daemon" /\ DaemonStep)
  /\ \A r \in Runs : WF_backlogVars(live = "backlog" /\ trespass = {} /\ RunStep(r))
  /\ Fairness /\ ExecFairness

\* The daemon halts, and every run that writes the backlog comes to its end.
LoopsEnd == DaemonHalts /\ RunsEnd

\* A queued dojo cycle is started, and a run that is shown comes to its end.
StartedRunsEnd == QueuedCyclesRun /\ ShownRunEnds
=============================================================================
