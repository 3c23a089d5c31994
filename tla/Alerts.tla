-------------------------------- MODULE Alerts --------------------------------
(***************************************************************************)
(* bin/hitl_alerts.py as what reaches the human: `--notify` every 30       *)
(* minutes (banners, escalation of a failing launchd job, the sweep) and   *)
(* `--email` once a day.  Each loads hitl_alert_state.json, works on its   *)
(* copy and replaces the file, without a lock: whoever saves last takes    *)
(* back what the other has saved in between.                               *)
(*                                                                         *)
(* Abstractions.                                                           *)
(*  - Time is in days, REMIND_HOURS being one: two runs of one day are     *)
(*    less than a reminder apart, runs of two days are not.                *)
(*  - What there is to tell on a channel is its signature.  The queue      *)
(*    channel has the ids that wait; patches are ids too.                  *)
(*  - A run finds the probe it refreshed, which is true, or a stale one.   *)
(*    A stale probe's own banner is left out, so is one more dispatch      *)
(*    about jobs that need a manual revert, which keeps no state.          *)
(*  - One job.  Its retirement is one step; FleetRetirement takes it apart.*)
(*  - A run that cannot read the file goes on as if nothing had ever been  *)
(*    told and saves nothing: two losses, of the load and of the save.     *)
(***************************************************************************)
EXTENDS Integers

CONSTANTS
  Signatures,       \* what there may be to tell
  Silent,           \* nothing to tell
  DigestDay,        \* FLEET_DIGEST_DAY
  HitlDay,          \* FLEET_HITL_DAY
  Expiry,           \* FLEET_HITL_EXPIRY_DAYS
  Redecide,         \* FLEET_REDECIDE_DAYS
  EmailLag,         \* EMAIL_LAG_DAYS
  Unrest,           \* bound: the sets of channels that change together
  LastDate,         \* bound: days
  MaxChanges,       \* bound: changes of what there is to tell
  MaxLost,          \* bound: no digest begins once so much was lost
  MaxMishaps        \* bound: failed dispatches, sends, loads and saves, and deaths

ASSUME AlertsAssumption ==
  /\ Silent \notin Signatures
  /\ DigestDay \in Nat /\ HitlDay \in Nat /\ Redecide \in Nat
  /\ Expiry \in Nat \ {0} /\ EmailLag \in Nat \ {0}
  /\ LastDate \in Nat /\ MaxChanges \in Nat
  /\ MaxLost \in Nat /\ MaxMishaps \in Nat

VARIABLES
  date,
  unrest,       \* the channels that have something to tell in this behaviour
  cond,         \* cond[k]: what there is to tell
  memory,       \* hitl_alert_state.json
  notifier,     \* where `--notify` is, with its copy
  mailer,       \* where `--email` is, with its copy
  request,      \* the job's row of hitl_queue.json
  told,         \* history: the last banner of a channel, and of what incident
  mailed,       \* history: the day of the last digest
  since,        \* history: the day since which every probe has found it failing
  extra,        \* history: what nobody should have got: banners of a channel told
                \* that day, digests mailed that day, alarms about no lagging digest
  lost,         \* history: loads and saves that failed, saves that were skipped or
                \* took others back, snapshots lost
  changes, mishaps

heard == <<told, mailed, since, extra, lost>>
alertsVars ==
  <<date, cond, memory, notifier, mailer, unrest, request, heard, changes, mishaps>>

Signed == {"queue", "fleet", "doctor"}
Channels == Signed \union {"lag"}
Noises == Channels \union {"mail", "alarm"}
Days == 0 .. LastDate
Never == LastDate + 1

Memory ==
  [sig : [Signed -> Signatures \union {Silent}],
   at : [Channels -> Days \union {Never}],
   seen : Days \union {Never}, email : Days \union {Never}]

NothingToldYet ==
  [sig |-> [k \in Signed |-> Silent], at |-> [k \in Channels |-> Never],
   seen |-> Never, email |-> Never]

NotRunning == [at |-> "idle"]
NoRequest == [status |-> "none", day |-> 0, failing |-> 0]

AlertsTypeOK ==
  /\ date \in Days /\ unrest \in Unrest
  /\ cond \in [Signed -> Signatures \union {Silent}]
  /\ memory \in Memory
  /\ notifier \in {NotRunning}
       \union [at : {"queue", "lag", "fleet", "escalate", "doctor", "save"},
               copy : Memory, quiet : SUBSET Signed, base : Memory, read : BOOLEAN]
  /\ mailer \in {NotRunning}
       \union [at : {"send", "save"}, copy : Memory, base : Memory, today : Days,
               read : BOOLEAN]
  /\ request \in [status : {"none", "pending", "approved", "rejected", "expired",
                            "retired", "done"},
                  day : Days, failing : Days]
  /\ told \in [Channels ->
       [sig : Signatures \union {Silent}, day : Days \union {Never}]]
  /\ mailed \in Days \union {Never} /\ since \in Days \union {Never}
  /\ extra \in [Noises -> Nat] /\ lost \in Nat
  /\ changes \in 0 .. MaxChanges /\ mishaps \in 0 .. MaxMishaps

AlertsInit ==
  /\ date = 0
  /\ unrest \in Unrest
  /\ cond = [k \in Signed |-> Silent]
  /\ memory = NothingToldYet
  /\ notifier = NotRunning /\ mailer = NotRunning
  /\ request = NoRequest
  /\ told = [k \in Channels |-> [sig |-> Silent, day |-> Never]]
  /\ mailed = Never /\ since = Never
  /\ extra = [k \in Noises |-> 0] /\ lost = 0
  /\ changes = 0 /\ mishaps = 0

Mishap == mishaps < MaxMishaps /\ mishaps' = mishaps + 1

-----------------------------------------------------------------------------
(* What there is to tell, the human, and time                              *)

OnlyWorld == UNCHANGED <<memory, notifier, mailer, unrest, heard, mishaps>>

Failing == cond["fleet"] # Silent
Disabled == request.status \in {"done", "retired"}

\* A run reads each file once, so what changes in a run might as well change
\* after it.
Changes(k) ==
  /\ notifier = NotRunning
  /\ changes < MaxChanges /\ changes' = changes + 1
  /\ k \in unrest /\ (k = "fleet" => ~Disabled)
  /\ \E s \in (Signatures \union {Silent}) \ {cond[k]} :
       cond' = [cond EXCEPT ![k] = s]
  /\ UNCHANGED <<date, request>> /\ OnlyWorld

\* A run of the notifier takes minutes: it lies within one of these days.
DatePasses ==
  /\ notifier = NotRunning
  /\ date < LastDate /\ date' = date + 1
  /\ UNCHANGED <<cond, request, changes>> /\ OnlyWorld

\* A refusal, a retirement and an expiry by the human are one here.
HumanDecides ==
  /\ notifier = NotRunning
  /\ request.status = "pending"
  /\ \E status \in {"approved", "rejected"} :
       request' = [request EXCEPT !.status = status, !.day = date]
  /\ UNCHANGED <<date, cond, changes>> /\ OnlyWorld

-----------------------------------------------------------------------------
(* --notify                                                                *)

OnlyNotifier == UNCHANGED <<date, mailer, unrest, mailed, changes>>

\* The last banner of the channel is REMIND_HOURS old.
ReminderDue(copy, k) == copy.at[k] = Never \/ date > copy.at[k]

Due(copy, k) == cond[k] # copy.sig[k] \/ ReminderDue(copy, k)

Acknowledged(copy, k) ==
  [copy EXCEPT !.sig[k] = cond[k], !.at[k] = date]

Cleared(copy, k) == [copy EXCEPT !.sig[k] = Silent]

Tells(k, sig) == told' = [told EXCEPT ![k] = [sig |-> sig, day |-> date]]

Needless(k, so) == [extra EXCEPT ![k] = @ + IF so THEN 1 ELSE 0]

ToldToday(k) == told[k] = [sig |-> cond[k], day |-> date]

\* n is the run before the channel's turn.  Nothing to tell; or told lately; or
\* a banner, which is acknowledged or not.
Channel(n, k, next, failed) ==
  LET due == cond[k] # Silent /\ Due(n.copy, k)
  IN \/ /\ cond[k] = Silent
        /\ notifier' = [n EXCEPT !.at = next, !.copy = Cleared(n.copy, k)]
        /\ told' = [told EXCEPT ![k].sig = Silent]
        /\ UNCHANGED <<extra, mishaps>>
     \/ /\ cond[k] # Silent /\ ~due
        /\ notifier' = [n EXCEPT !.at = next, !.quiet = @ \union {k}]
        /\ UNCHANGED <<told, extra, mishaps>>
     \/ /\ due
        /\ notifier' = [n EXCEPT !.at = next, !.copy = Acknowledged(n.copy, k)]
        /\ Tells(k, cond[k]) /\ extra' = Needless(k, ToldToday(k))
        /\ UNCHANGED mishaps
     \/ /\ due /\ Mishap
        /\ notifier' = failed
        /\ UNCHANGED <<told, extra>>

Begun ==
  [at |-> "queue", copy |-> memory, base |-> memory, quiet |-> {}, read |-> TRUE]

\* The run under way, or the one that would begin now.
Run == IF notifier = NotRunning THEN Begun ELSE notifier

\* The state cannot be read.
Unreadable == Mishap /\ lost' = lost + 1

NotifyBlind ==
  /\ notifier = NotRunning /\ Unreadable
  /\ notifier' = [Begun EXCEPT !.copy = NothingToldYet, !.base = NothingToldYet,
                              !.read = FALSE]
  /\ UNCHANGED <<cond, memory, request, told, since, extra>> /\ OnlyNotifier

\* The first thing a run does with its copy; a banner that fails ends the run.
NotifyQueue ==
  /\ notifier.at \in {"idle", "queue"}
  /\ Channel(Run, "queue", "lag", NotRunning)
  /\ UNCHANGED <<cond, memory, request, since, lost>> /\ OnlyNotifier

\* A queue that cannot be read has no ids: the snapshot is lost.
NotifyUnread ==
  /\ notifier.at \in {"idle", "queue"} /\ Unreadable
  /\ notifier' = [Run EXCEPT !.at = "lag", !.copy = Cleared(Run.copy, "queue")]
  /\ UNCHANGED <<cond, memory, request, told, since, extra>> /\ OnlyNotifier

\* _maybe_lag_banner: ids wait and no digest was delivered for EMAIL_LAG_DAYS.
DigestLags(n) ==
  /\ n.copy.sig["queue"] # Silent
  /\ n.copy.email # Never /\ date > n.copy.email + EmailLag
  /\ ReminderDue(n.copy, "lag")

NotifyLag ==
  /\ notifier.at = "lag"
  /\ \/ /\ DigestLags(notifier)
        /\ notifier' = [notifier EXCEPT !.at = "fleet", !.copy.at["lag"] = date]
        /\ Tells("lag", Silent)
        /\ extra' = [Needless("lag", told["lag"].day = date) EXCEPT
             !["alarm"] = @ + IF date <= mailed + EmailLag THEN 1 ELSE 0]
        /\ UNCHANGED mishaps
     \/ /\ IF DigestLags(notifier) THEN Mishap ELSE UNCHANGED mishaps
        /\ notifier' = [notifier EXCEPT !.at = "fleet"]
        /\ UNCHANGED <<told, extra>>
  /\ UNCHANGED <<cond, memory, request, since, lost>> /\ OnlyNotifier

NotifyChannel(k, next) ==
  /\ notifier.at = k
  /\ Channel(notifier, k, next, [notifier EXCEPT !.at = next])
  /\ UNCHANGED <<cond, memory, request, since, lost>> /\ OnlyNotifier

\* Mutant: a job that recovered is not forgotten.
FirstSeenForEver(seen) == IF seen = Never /\ Failing THEN date ELSE seen

\* track_fleet_first_seen
FirstSeen(seen) ==
  IF ~Failing THEN Never ELSE IF seen = Never THEN date ELSE seen

\* No open row, and none decided within FLEET_REDECIDE_DAYS.
Askable ==
  \/ request.status = "none"
  \/ request.status \in {"rejected", "expired", "done", "retired"}
     /\ date >= request.day + Redecide

\* The truth FirstSeen is after, whatever becomes of the file.
ProbedFailingSince ==
  CASE ~Failing -> Never [] Failing /\ since = Never -> date [] OTHER -> since

Raises(seen) == Failing /\ date >= seen + HitlDay /\ Askable

\* sweep_fleet_hitl: the job is disabled, or an attempt failed and was undone.
Disables(status) ==
  \/ /\ request' = [request EXCEPT !.status = status, !.day = date]
     /\ cond' = [cond EXCEPT !["fleet"] = Silent] /\ UNCHANGED mishaps
  \/ Mishap /\ UNCHANGED <<request, cond>>

Overdue == request.status = "pending" /\ date >= request.day + Expiry

\* The flag and the registry may forbid that silence disables the job.
SweepRequest ==
  \/ request.status = "approved" /\ Disables("done")
  \/ Overdue /\ Disables("retired")
  \/ /\ Overdue
     /\ request' = [request EXCEPT !.status = "expired", !.day = date]
     /\ UNCHANGED <<cond, mishaps>>
  \/ request.status # "approved" /\ ~Overdue /\ UNCHANGED <<request, cond, mishaps>>

\* _maybe_fleet_escalations, with a probe it just refreshed; with a stale one it
\* only sweeps, and with a queue it cannot read it does nothing.
NotifyEscalates ==
  LET seen == FirstSeen(notifier.copy.seen)
  IN /\ notifier.at = "escalate"
     /\ \/ /\ notifier' = [notifier EXCEPT !.at = "doctor", !.copy.seen = seen]
           /\ since' = ProbedFailingSince
           /\ IF Raises(seen)
              THEN /\ request' = [status |-> "pending", day |-> date,
                                  failing |-> date - since']
                   /\ UNCHANGED <<cond, mishaps>>
              ELSE SweepRequest
        \/ /\ SweepRequest /\ UNCHANGED since
           /\ notifier' = [notifier EXCEPT !.at = "doctor"]
        \/ /\ Mishap /\ notifier' = [notifier EXCEPT !.at = "doctor"]
           /\ UNCHANGED <<request, cond, since>>
     /\ UNCHANGED <<memory, told, extra, lost>> /\ OnlyNotifier

\* A save loses what was saved since the load.
Saves(copy, base) ==
  /\ memory' = copy
  /\ lost' = lost + IF memory = base THEN 0 ELSE 1

SaveFails == Mishap /\ lost' = lost + 1 /\ UNCHANGED memory

\* What could not be read is not written.
SavesNothing == lost' = lost + 1 /\ UNCHANGED <<memory, mishaps>>

NotifySaves ==
  /\ notifier.at = "save"
  /\ \/ notifier.read /\ Saves(notifier.copy, notifier.base) /\ UNCHANGED mishaps
     \/ notifier.read /\ SaveFails
     \/ ~notifier.read /\ SavesNothing
  /\ notifier' = NotRunning
  /\ UNCHANGED <<cond, request, told, since, extra>> /\ OnlyNotifier

NotifierDies ==
  /\ notifier # NotRunning /\ notifier' = NotRunning /\ SaveFails
  /\ UNCHANGED <<cond, request, told, since, extra>> /\ OnlyNotifier

NotifierStep ==
  \/ NotifyBlind \/ NotifyQueue \/ NotifyUnread \/ NotifyLag
  \/ NotifyChannel("fleet", "escalate") \/ NotifyEscalates
  \/ NotifyChannel("doctor", "save")
  \/ NotifySaves

-----------------------------------------------------------------------------
(* --email                                                                 *)

OnlyMailer ==
  UNCHANGED <<date, cond, notifier, request, unrest, told, since, changes>>

\* fleet_subject_clause names a job from FLEET_DIGEST_DAY on.
SomethingToMail(copy) ==
  \/ cond["queue"] # Silent \/ cond["doctor"] # Silent
  \/ Failing /\ copy.seen # Never /\ date >= copy.seen + DigestDay

\* decide_email, without --force.
DigestIsDue(copy) == copy.email # date /\ SomethingToMail(copy)

MailBeginsWith(copy, read) ==
  /\ mailer = NotRunning /\ DigestIsDue(copy) /\ lost < MaxLost
  /\ mailer' = [at |-> "send", copy |-> copy, base |-> copy, today |-> date,
                read |-> read]
  /\ UNCHANGED <<memory, mailed, extra>> /\ OnlyMailer

MailBegins == MailBeginsWith(memory, TRUE) /\ UNCHANGED <<lost, mishaps>>
MailBeginsBlind == MailBeginsWith(NothingToldYet, FALSE) /\ Unreadable

\* Resend, or Mail.app where that fails.
MailSends ==
  /\ mailer.at = "send"
  /\ \/ /\ mailer' = [mailer EXCEPT !.at = "save"]
        /\ extra' = Needless("mail", mailed = mailer.today)
        /\ UNCHANGED mishaps
     \/ Mishap /\ mailer' = NotRunning /\ UNCHANGED extra
  /\ UNCHANGED <<memory, mailed, lost>> /\ OnlyMailer

MailSaves ==
  /\ mailer.at = "save"
  /\ \/ /\ mailer.read /\ UNCHANGED mishaps
        /\ Saves([mailer.copy EXCEPT !.email = mailer.today], mailer.base)
     \/ mailer.read /\ SaveFails
     \/ ~mailer.read /\ SavesNothing
  /\ mailer' = NotRunning /\ mailed' = mailer.today
  /\ UNCHANGED extra /\ OnlyMailer

AlertsNext ==
  \/ \E k \in Signed : Changes(k)
  \/ DatePasses \/ HumanDecides
  \/ NotifierStep \/ NotifierDies
  \/ MailBegins \/ MailBeginsBlind \/ MailSends \/ MailSaves

AlertsSpec == AlertsInit /\ [][AlertsNext]_alertsVars

-----------------------------------------------------------------------------
(* Properties                                                              *)

\* No condition is told twice within a day, no digest sent twice, more often than a
\* load or a save of the alert state was lost; and no false alarm about the digest is
\* raised unless one was, to be counted when the run that raised it has saved.  That one
\* loss may cost an alarm a day until the next digest is remembered
\* (bin/hitl_alerts.py:19-21, 655-660, 1441-1445, 1489, 1798-1800).
NoiseIsBounded ==
  /\ \A k \in Noises \ {"alarm"} : extra[k] <= lost
  /\ notifier = NotRunning /\ extra["alarm"] > 0 => lost > 0

\* A run is silent about a condition only when a banner told it within the day,
\* about this incident unless a loss brought an old signature back
\* (bin/hitl_alerts.py:1374-1389).
QuietIsEarned ==
  notifier # NotRunning =>
    \A k \in notifier.quiet :
      told[k].day = date /\ (lost = 0 => told[k].sig # Silent)

\* The human is asked about a job that every probe has found failing for
\* FLEET_HITL_DAY days, unless a loss brought an old date back
\* (bin/hitl_alerts.py:802-805).
AskedAboutFailingJobs ==
  request.status # "none" /\ lost = 0 => request.failing >= HitlDay

AlertsInv ==
  /\ AlertsTypeOK
  /\ NoiseIsBounded
  /\ QuietIsEarned
  /\ AskedAboutFailingJobs
===============================================================================
