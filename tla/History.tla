------------------------------- MODULE History -------------------------------
(* metrics_history.jsonl.  Every refresh with --snapshot rebuilds its weekly    *)
(* rows from the telemetry (backfill_history.py) and appends a live row with    *)
(* what it measures now (insights.py); several refreshes may run at the same    *)
(* time.  Two metrics stand for all: "scout" is seen only when it is measured,  *)
(* and its value is named by the instant it was; "loop" is counted from the     *)
(* events of a week, or is idle by design.                                      *)
EXTENDS Integers, Sequences, FiniteSets, SequencesExt

CONSTANTS
  Snapshots,     \* refreshes that run with --snapshot
  LastInstant,   \* bound: the clock, two instants a week
  MaxSnapshots,  \* bound: refreshes started
  MaxWeekEvents, \* bound: heartbeats, runs and bridged runs
  MaxBreaks,     \* bound: deaths, failing writes, telemetry that does not resolve
  Unseen         \* a metric without a number

ASSUME HistoryAssumption ==
  /\ {LastInstant, MaxSnapshots, MaxWeekEvents, MaxBreaks} \subseteq Nat
  /\ LastInstant >= 1 /\ Unseen \notin Int /\ Unseen \notin Snapshots

VARIABLES
  store,     \* the rows of metrics_history.jsonl, in the order of the file
  flock,     \* who holds the lock on it, and what it has read and will write
  instant,   \* the clock
  weekly,    \* what is known of each week: runs, bridged runs, heartbeats
  snapshot,  \* per refresh: where it is and what it holds
  fitted,    \* thresholds.json holds bands
  slack,     \* what is left of the bounds
  past       \* history: torn, the weeks a rebuild missed, the newest live row, and
             \* what each week's row first said

historyVars == <<store, flock, instant, weekly, snapshot, fitted, slack, past>>

Weeks == 1 .. (LastInstant + 1) \div 2

\* The ISO week of an instant.
WeekOf(t) == (t + 1) \div 2

Nobody == [by |-> Unseen, prior |-> << >>, next |-> << >>]

\* A row: weekly ones are stamped with the Monday of their week.
WeekRow(w, loop, idle) ==
  [kind |-> "weekly", week |-> w, ts |-> 0, scout |-> Unseen, loop |-> loop,
   idle |-> idle]

LiveRow(t, scout, loop) ==
  [kind |-> "live", week |-> WeekOf(t), ts |-> t, scout |-> scout, loop |-> loop,
   idle |-> FALSE]

NoSnapshot == [at |-> "none", rows |-> << >>, now |-> Unseen]

HistoryTypeOK ==
  /\ \A k \in DOMAIN store :
       /\ store[k].kind \in {"weekly", "live"} /\ store[k].week \in Weeks
       /\ store[k].ts \in 0 .. instant /\ store[k].idle \in BOOLEAN
       /\ store[k].scout \in {Unseen} \cup 1 .. instant
       /\ store[k].loop \in {Unseen} \cup 0 .. MaxWeekEvents
  /\ flock.by \in {Unseen} \cup Snapshots
  /\ instant \in 1 .. LastInstant /\ fitted \in BOOLEAN
  /\ weekly \in [Weeks -> [runs : Nat, bridged : Nat, hearts : BOOLEAN]]
  /\ \A s \in Snapshots :
       snapshot[s].at \in {"none", "rebuild", "merge", "write", "calibrate",
                           "measure", "append"}

HistoryInit ==
  /\ store = << >> /\ flock = Nobody /\ instant = 1 /\ fitted = FALSE
  /\ weekly = [w \in Weeks |-> [runs |-> 0, bridged |-> 0, hearts |-> FALSE]]
  /\ snapshot = [s \in Snapshots |-> NoSnapshot]
  /\ slack = [snapshots |-> MaxSnapshots, events |-> MaxWeekEvents,
              breaks |-> MaxBreaks]
  /\ past = [torn |-> FALSE, missed |-> {}, live |-> 0,
             scout |-> [w \in Weeks |-> Unseen], idle |-> {}]

-----------------------------------------------------------------------------
(* The world                                                                 *)

ThisWeek == WeekOf(instant)

HistoryTick ==
  /\ instant < LastInstant /\ instant' = instant + 1
  /\ UNCHANGED <<store, flock, weekly, snapshot, fitted, slack, past>>

\* The reflex loop runs a skill, or finds nothing to run and says that it lives; a
\* run becomes an event later; heartbeats rotate away.
WeekEvent ==
  /\ slack.events > 0 /\ slack' = [slack EXCEPT !.events = @ - 1]
  /\ \/ weekly' = [weekly EXCEPT ![ThisWeek].runs = @ + 1]
     \/ \E w \in Weeks : /\ weekly[w].bridged < weekly[w].runs
                         /\ weekly' = [weekly EXCEPT ![w].bridged = @ + 1]
     \/ /\ ~weekly[ThisWeek].hearts
        /\ weekly' = [weekly EXCEPT ![ThisWeek].hearts = TRUE]
     \/ \E w \in Weeks : /\ weekly[w].hearts
                         /\ weekly' = [weekly EXCEPT ![w].hearts = FALSE]
  /\ UNCHANGED <<store, flock, instant, snapshot, fitted, past>>

-----------------------------------------------------------------------------
(* What a rebuild writes                                                     *)

\* _mechanism_liveness: the events of the week; idle when there are none, no run was
\* logged and the heartbeats show that the loop lived.
IdleByDesign(w) == weekly[w].bridged = 0 /\ weekly[w].hearts /\ weekly[w].runs = 0

Rebuilt(w) ==
  LET idle == IdleByDesign(w)
  IN WeekRow(w, IF idle THEN Unseen ELSE weekly[w].bridged, idle)

\* The rows in the order of their time: a week's own row comes before what was
\* measured in it.
Before(a, b) ==
  \/ a.week < b.week
  \/ a.week = b.week /\ a.kind = "weekly" /\ b.kind = "live"
  \/ a.week = b.week /\ a.kind = b.kind /\ a.ts < b.ts

\* The stable sort of _existing_rows, seen from one row.
Rank(rows, k) ==
  Cardinality({i \in DOMAIN rows : Before(rows[i], rows[k])
                                   \/ (~Before(rows[k], rows[i]) /\ i < k)})

LastOf(rows, K) == CHOOSE k \in K : \A i \in K : Rank(rows, i) <= Rank(rows, k)

\* Rows stamped at or before the Monday of week w.
UpTo(rows, w) ==
  {k \in DOMAIN rows : rows[k].week < w
                       \/ (rows[k].week = w /\ rows[k].kind = "weekly")}

\* The newest observation at or before the week.
Carried(rows, w) ==
  LET K == {k \in UpTo(rows, w) : rows[k].scout # Unseen}
  IN IF K = {} THEN Unseen ELSE rows[LastOf(rows, K)].scout

\* _keep_recorded_idle: a week recorded as idle stays so, unless the rebuild saw
\* events or a run has been logged in it.
StaysIdle(rows, row) ==
  /\ \E k \in DOMAIN rows :
       rows[k].kind = "weekly" /\ rows[k].week = row.week /\ rows[k].idle
  /\ weekly[row.week].runs = 0
  /\ row.loop = Unseen \/ row.loop = 0

CarryForward(row, rows) ==
  LET idle == row.idle \/ StaysIdle(rows, row) IN
  [row EXCEPT !.scout = Carried(rows, row.week), !.idle = idle,
              !.loop = IF idle THEN Unseen ELSE row.loop]

\* The newest live row survives.
KeptLive(rows) ==
  LET K == {k \in DOMAIN rows : rows[k].kind = "live"}
  IN IF K = {} THEN << >> ELSE << rows[LastOf(rows, K)] >>

Merged(rows, prior) ==
  [k \in DOMAIN rows |-> CarryForward(rows[k], prior)] \o KeptLive(prior)

-----------------------------------------------------------------------------
(* One refresh                                                               *)

Goes(s, place) == snapshot' = [snapshot EXCEPT ![s].at = place]

\* Some of the weeks until now, in their order.
FoundWeeks ==
  {found \in SeqOf(1 .. ThisWeek, ThisWeek) :
     \A i, k \in DOMAIN found : i < k => found[i] < found[k]}

\* The telemetry is read before the lock is taken: all of it (there are sessions in
\* every week), or only some weeks of it when a platform does not resolve.
ReadTelemetry(s) ==
  /\ snapshot[s].at = "none" /\ slack.snapshots > 0
  /\ \E found \in FoundWeeks :
       /\ Len(found) < ThisWeek => slack.breaks > 0
       /\ slack' = [slack EXCEPT !.snapshots = @ - 1,
                                 !.breaks = IF Len(found) < ThisWeek THEN @ - 1 ELSE @]
       /\ snapshot' = [snapshot EXCEPT
            ![s] = [at |-> "merge", now |-> Unseen,
                    rows |-> [k \in DOMAIN found |-> Rebuilt(found[k])]]]
  /\ UNCHANGED <<store, flock, instant, weekly, fitted, past>>

\* No row was rebuilt, and there is a store: it is left as it is.
KeepStore(s) ==
  /\ snapshot[s].at = "merge" /\ flock.by = Unseen
  /\ snapshot[s].rows = << >> /\ store # << >>
  /\ Goes(s, "calibrate")
  /\ UNCHANGED <<store, flock, instant, weekly, fitted, slack, past>>

\* Under the lock the store is read and merged, and then cut to nothing.
Merge(s) ==
  /\ snapshot[s].at = "merge" /\ flock.by = Unseen
  /\ snapshot[s].rows # << >> \/ store = << >>
  /\ flock' = [by |-> s, prior |-> store, next |-> Merged(snapshot[s].rows, store)]
  /\ store' = << >>
  /\ snapshot' = [snapshot EXCEPT ![s].at = "write", ![s].rows = << >>]
  /\ UNCHANGED <<instant, weekly, fitted, slack, past>>

\* What the weeks' rows say, once they are written, and the weeks that lost theirs.
Noted(rows) ==
  LET of(w, these) ==
        {k \in DOMAIN these : these[k].kind = "weekly" /\ these[k].week = w}
      says(w) == of(w, rows) IN
  [past EXCEPT
    !.missed = @ \cup {w \in Weeks : says(w) = {} /\ of(w, flock.prior) # {}},
    !.scout = [w \in Weeks |->
                 IF @[w] = Unseen /\ says(w) # {}
                   THEN rows[CHOOSE k \in says(w) : TRUE].scout ELSE @[w]],
    !.idle = @ \cup {w \in Weeks : \E k \in says(w) : rows[k].idle}]

\* The rows are written and the lock is released.
WriteStore(s) ==
  /\ snapshot[s].at = "write"
  /\ store' = flock.next /\ flock' = Nobody
  /\ past' = Noted(flock.next)
  /\ Goes(s, "calibrate")
  /\ UNCHANGED <<instant, weekly, fitted, slack>>

\* The write fails: what was there goes back, or as much of it as can still be written,
\* and the refresh carries on.
WriteFails(s) ==
  /\ snapshot[s].at = "write" /\ slack.breaks > 0
  /\ slack' = [slack EXCEPT !.breaks = @ - 1]
  /\ \E n \in 0 .. Len(flock.prior) :
       /\ store' = SubSeq(flock.prior, 1, n)
       /\ past' = [past EXCEPT !.torn = @ \/ n < Len(flock.prior)]
  /\ flock' = Nobody
  /\ Goes(s, "calibrate")
  /\ UNCHANGED <<instant, weekly, fitted>>

\* calibrate() reads the store as it is, with no lock, and writes what it finds.
Calibrate(s) ==
  /\ snapshot[s].at = "calibrate"
  /\ fitted' = (store # << >>)
  /\ Goes(s, "measure")
  /\ UNCHANGED <<store, flock, instant, weekly, slack, past>>

\* aggregate() measures what is there now; a scout may have nothing to say.
Measure(s) ==
  /\ snapshot[s].at = "measure"
  /\ \E scout \in {Unseen, instant} :
       snapshot' = [snapshot EXCEPT
         ![s].at = "append",
         ![s].now = LiveRow(instant, scout,
                            IF IdleByDesign(ThisWeek) THEN Unseen
                            ELSE weekly[ThisWeek].bridged)]
  /\ UNCHANGED <<store, flock, instant, weekly, fitted, slack, past>>

\* append_snapshot(): under the lock, unless the same row is the last one.  A row
\* behind the half line of a torn write cannot be read.
AppendLive(s) ==
  /\ snapshot[s].at = "append" /\ flock.by = Unseen
  /\ \/ store' = IF store # << >> /\ store[Len(store)] = snapshot[s].now
                   THEN store ELSE Append(store, snapshot[s].now)
     \/ past.torn /\ UNCHANGED store
  /\ past' = [past EXCEPT !.live = IF @ < snapshot[s].now.ts
                                     THEN snapshot[s].now.ts ELSE @]
  /\ snapshot' = [snapshot EXCEPT ![s] = NoSnapshot]
  /\ UNCHANGED <<flock, instant, weekly, fitted, slack>>

\* The row cannot be written, or only half of it; the refresh carries on.
AppendFails(s) ==
  /\ snapshot[s].at = "append" /\ flock.by = Unseen /\ slack.breaks > 0
  /\ slack' = [slack EXCEPT !.breaks = @ - 1]
  /\ past' = [past EXCEPT !.torn = TRUE]
  /\ snapshot' = [snapshot EXCEPT ![s] = NoSnapshot]
  /\ UNCHANGED <<store, flock, instant, weekly, fitted>>

\* A refresh is killed; in the middle of the rewrite the store stays cut.
SnapshotDies(s) ==
  /\ snapshot[s].at # "none" /\ slack.breaks > 0
  /\ slack' = [slack EXCEPT !.breaks = @ - 1]
  /\ snapshot' = [snapshot EXCEPT ![s] = NoSnapshot]
  /\ IF flock.by = s
       THEN flock' = Nobody /\ past' = [past EXCEPT !.torn = TRUE]
       ELSE UNCHANGED <<flock, past>>
  /\ UNCHANGED <<store, instant, weekly, fitted>>

HistoryNext ==
  \/ HistoryTick \/ WeekEvent
  \/ \E s \in Snapshots :
       \/ ReadTelemetry(s) \/ KeepStore(s) \/ Merge(s) \/ WriteStore(s)
       \/ WriteFails(s) \/ Calibrate(s) \/ Measure(s) \/ AppendLive(s)
       \/ AppendFails(s) \/ SnapshotDies(s)

HistorySpec == HistoryInit /\ [][HistoryNext]_historyVars

-----------------------------------------------------------------------------
(* What the store promises                                                   *)

WeekRows(w) == {k \in DOMAIN store : store[k].kind = "weekly" /\ store[k].week = w}

\* A week's row never carries a value that was observed after its Monday
\* (backfill_history.py:91-92).
NeverBackdated ==
  \A k \in DOMAIN store :
    store[k].kind = "weekly" /\ store[k].scout # Unseen
      => WeekOf(store[k].scout) < store[k].week

\* Between two rewrites, and unless one was killed, one could not put back what it
\* had cut, or an append failed:
Whole == flock.by = Unseen /\ ~past.torn

\* the newest live row is in the store, however the refreshes overlap,
NewestLiveStays ==
  Whole /\ past.live > 0 =>
    \E k \in DOMAIN store : store[k].kind = "live" /\ store[k].ts = past.live

\* what a week's row once carried it carries for ever, as long as every
\* rewrite knew of the week,
CarriedStays ==
  Whole => \A w \in Weeks \ past.missed :
    past.scout[w] # Unseen =>
      \E k \in WeekRows(w) : store[k].scout = past.scout[w]

\* and a week recorded as idle is never graded afterwards, nor given an older
\* number, unless a run was logged in it.
IdleStays ==
  Whole => \A w \in past.idle \ past.missed :
    weekly[w].runs = 0 =>
      \A k \in WeekRows(w) : store[k].idle /\ store[k].loop = Unseen

\* Two refreshes that say the same at the same instant leave one row.
NoTwins ==
  \A k \in 2 .. Len(store) : store[k].kind = "live" => store[k] # store[k - 1]

HistoryInv ==
  /\ HistoryTypeOK
  /\ NeverBackdated /\ NewestLiveStays /\ CarriedStays /\ IdleStays /\ NoTwins
=============================================================================
