---------------------------- MODULE ChainLedger ----------------------------
(***************************************************************************)
(* The hash-chained log of agentica_core/chain_ledger.py: append() under a *)
(* lock FILE (O_EXCL create, pid inside, stale after 900 s), and           *)
(* verify_chain().                                                         *)
(*                                                                         *)
(* Unlike the queue's flock this lock outlives its holder, so every system *)
(* call on it is a step: another process may come between any two.         *)
(*                                                                         *)
(* Abstractions.  A row's hash is the row's own number (SHA-256: distinct  *)
(* rows have distinct hashes), counted from 1 in the order of writing.     *)
(* old says that the lock file's mtime is more than 900 s ago: a holder    *)
(* may die or hold on that long, but not between creating the file and     *)
(* stamping it.  On a full disk the pid may not be written at all, and a   *)
(* line only in part: the code does not look at how much it wrote.         *)
(***************************************************************************)
EXTENDS Naturals, Sequences, SequencesExt

CONSTANTS
  Writers,     \* processes that append; a writer is its own pid
  MaxAppends,  \* bound: no append begins once so many lines are written
  MaxDeaths,   \* bound: writers that die
  MaxTorn,     \* bound: writes the full disk fails or cuts short
  None         \* no process

ASSUME BoundsAssumption == MaxAppends \in Nat /\ MaxDeaths \in Nat /\ MaxTorn \in Nat
ASSUME NoneAssumption == None \notin Writers

VARIABLES
  lock,     \* the lock file
  log,      \* the lines of the log
  appender,  \* where each writer is
  serialised,  \* callers append inside another lock, as review_hitl does
  outer,    \* who holds the callers' own lock, when they have one
  written,  \* history: the lines written, torn or whole
  deaths, torn

chainVars == <<lock, log, appender, serialised, outer, written, deaths, torn>>

NoLock == [by |-> None, pid |-> FALSE, old |-> FALSE]

Lock == [by : Writers \union {None}, pid : BOOLEAN, old : BOOLEAN]

\* "unended" and "torn" lines lack their newline; the first still parses.
Line ==
  [kind : {"row", "unended", "torn", "garbage"}, seq : Nat, prev : Nat, hash : Nat]

WriterState ==
  [pc : {"idle", "open", "stat", "judge", "reclaim", "stamp", "read", "write",
         "unlock", "dead"},
   seq : Nat, prev : Nat]

TypeOK ==
  /\ lock \in Lock
  /\ log \in Seq(Line)
  /\ appender \in [Writers -> WriterState]
  /\ serialised \in BOOLEAN /\ outer \in Writers \union {None}
  /\ written \in Nat /\ deaths \in 0 .. MaxDeaths /\ torn \in 0 .. MaxTorn

At(pc) == [pc |-> pc, seq |-> 0, prev |-> 0]

ChainInit ==
  /\ lock = NoLock /\ log = << >> /\ serialised \in BOOLEAN /\ outer = None
  /\ appender = [w \in Writers |-> At("idle")]
  /\ written = 0 /\ deaths = 0 /\ torn = 0

Moves(w, from, to) ==
  /\ appender[w].pc = from
  /\ appender' = [appender EXCEPT ![w] = At(to)]

Freed(w) == IF outer = w THEN None ELSE outer

BeginAppend(w) ==
  /\ Moves(w, "idle", "open")
  /\ written < MaxAppends
  /\ IF serialised THEN outer = None /\ outer' = w ELSE UNCHANGED outer
  /\ UNCHANGED <<serialised, lock, log, written, deaths, torn>>

-----------------------------------------------------------------------------
(* _acquire_lock and _try_reclaim_stale_lock                               *)

OpenLock(w) ==
  /\ \/ /\ lock = NoLock
        /\ lock' = [by |-> w, pid |-> FALSE, old |-> FALSE]
        /\ Moves(w, "open", "stamp")
     \/ /\ lock /= NoLock
        /\ Moves(w, "open", "stat")
        /\ UNCHANGED lock
  /\ UNCHANGED <<serialised, log, outer, written, deaths, torn>>

\* Not stale: poll again, or give up at the deadline (LockTimeoutError).
Refused(w) ==
  \/ appender' = [appender EXCEPT ![w].pc = "open"] /\ UNCHANGED outer
  \/ appender' = [appender EXCEPT ![w].pc = "idle"] /\ outer' = Freed(w)

StatLock(w) ==
  /\ appender[w].pc = "stat"
  /\ \/ /\ lock = NoLock
        /\ Moves(w, "stat", "open") /\ UNCHANGED outer
     \/ /\ lock /= NoLock /\ ~lock.old
        /\ Refused(w)
     \/ /\ lock.old
        /\ Moves(w, "stat", "judge") /\ UNCHANGED outer
  /\ UNCHANGED <<serialised, lock, log, written, deaths, torn>>

PidAlive(p) == p /= None /\ appender[p].pc /= "dead"

JudgeLock(w) ==
  /\ appender[w].pc = "judge"
  /\ IF lock.pid /\ PidAlive(lock.by)
     THEN Refused(w)
     ELSE Moves(w, "judge", "reclaim") /\ UNCHANGED outer
  /\ UNCHANGED <<serialised, lock, log, written, deaths, torn>>

\* The file judged is a path: what is unlinked is whatever has it by now.
ReclaimLock(w) ==
  /\ Moves(w, "reclaim", "open")
  /\ lock' = NoLock
  /\ UNCHANGED <<serialised, log, outer, written, deaths, torn>>

\* The pid goes to the file that was created, be it still at its path or not.
StampPid(w) ==
  /\ Moves(w, "stamp", "read")
  /\ lock' = IF lock.by = w THEN [lock EXCEPT !.pid = TRUE] ELSE lock
  /\ UNCHANGED <<serialised, log, outer, written, deaths, torn>>

\* The write of the pid raised: the caller has an exception and not the lock,
\* and the file it created stays.
StampFails(w) ==
  /\ Moves(w, "stamp", "idle")
  /\ torn < MaxTorn /\ torn' = torn + 1
  /\ outer' = Freed(w)
  /\ UNCHANGED <<serialised, lock, log, written, deaths>>

-----------------------------------------------------------------------------
(* append and verify_chain                                                 *)

Parses(line) == line.kind \in {"row", "unended"}

Parseable == {n \in DOMAIN log : Parses(log[n])}

\* _read_last_row skips lines that do not parse.
LastRow == CHOOSE n \in Parseable : \A m \in Parseable : m <= n

ReadLastRow(w) ==
  /\ appender[w].pc = "read"
  /\ appender' = [appender EXCEPT ![w] =
                  IF Parseable = {} THEN [pc |-> "write", seq |-> 1, prev |-> 0]
                  ELSE [pc |-> "write", seq |-> log[LastRow].seq + 1,
                        prev |-> log[LastRow].hash]]
  /\ UNCHANGED <<serialised, lock, log, outer, written, deaths, torn>>

\* The log with one more line of the given kind.  A line without an end takes
\* the next one onto itself, and then neither parses.
WithLine(line) ==
  IF log = << >> \/ Last(log).kind \in {"row", "garbage"}
  THEN Append(log, line)
  ELSE [log EXCEPT ![Len(log)] =
          [line EXCEPT !.kind = IF line.kind = "row" THEN "garbage" ELSE "torn"]]

AppendLine(w) ==
  /\ Moves(w, "write", "unlock")
  /\ written' = written + 1
  /\ \E kind \in {"row", "unended", "torn"} :
       /\ log' = WithLine([kind |-> kind, seq |-> appender[w].seq,
                           prev |-> appender[w].prev, hash |-> written'])
       /\ torn' = IF kind = "row" THEN torn ELSE torn + 1
  /\ torn' <= MaxTorn
  /\ UNCHANGED <<serialised, lock, outer, deaths>>

\* Reading or writing the log raised; the finally clause still releases.
AppendRaises(w) ==
  /\ appender[w].pc \in {"read", "write"}
  /\ appender' = [appender EXCEPT ![w] = At("unlock")]
  /\ UNCHANGED <<serialised, lock, log, outer, written, deaths, torn>>

\* _release_lock unlinks the path, and the caller's lock goes after it.
ReleaseLock(w) ==
  /\ Moves(w, "unlock", "idle")
  /\ lock' = NoLock
  /\ outer' = Freed(w)
  /\ UNCHANGED <<serialised, log, written, deaths, torn>>

PrevHash(n) == IF n = 1 THEN 0 ELSE log[n - 1].hash

\* Mutant: the audit skips what the append skips.
VerifySkipsCorrupt ==
  \A n \in Parseable : log[n].seq = n /\ log[n].prev = PrevHash(n)

\* verify_chain(log)["ok"]
Verify ==
  \A n \in DOMAIN log :
    /\ Parses(log[n])
    /\ log[n].seq = n
    /\ log[n].prev = PrevHash(n)

-----------------------------------------------------------------------------
(* Processes and the clock                                                 *)

Dies(w) ==
  /\ appender[w].pc \notin {"idle", "dead"}
  /\ deaths < MaxDeaths
  /\ deaths' = deaths + 1
  /\ appender' = [appender EXCEPT ![w] = At("dead")]
  /\ outer' = Freed(w)
  /\ UNCHANGED <<serialised, lock, log, written, torn>>

LockAges ==
  /\ lock /= NoLock /\ ~lock.old
  /\ appender[lock.by].pc /= "stamp"
  /\ lock' = [lock EXCEPT !.old = TRUE]
  /\ UNCHANGED <<serialised, log, appender, outer, written, deaths, torn>>

WriterStep(w) ==
  \/ OpenLock(w)
  \/ StatLock(w)
  \/ JudgeLock(w)
  \/ ReclaimLock(w)
  \/ StampPid(w) \/ StampFails(w)
  \/ ReadLastRow(w)
  \/ AppendLine(w) \/ AppendRaises(w)
  \/ ReleaseLock(w)

ChainNext ==
  \/ \E w \in Writers : BeginAppend(w) \/ WriterStep(w) \/ Dies(w)
  \/ LockAges

ChainSpec == ChainInit /\ [][ChainNext]_chainVars

\* A call that began goes on, time passes, and somebody appends now and then.
ChainFairness ==
  /\ \A w \in Writers : WF_chainVars(WriterStep(w))
  /\ WF_chainVars(LockAges)
  /\ WF_chainVars(\E w \in Writers : BeginAppend(w))

FairSpec == ChainSpec /\ ChainFairness

-----------------------------------------------------------------------------
(* Properties                                                              *)

\* Under the queue lock, where review_hitl appends, deaths at any system call
\* and the stale locks they leave never fork the chain, as long as the disk
\* takes what is written.
ChainVerifies == serialised /\ torn = 0 => Verify

\* "A tampered or truncated row is still caught by verify_chain": whatever
\* two holders or a cut-short write do to the log, if it verifies then every
\* line ever written is in it, in order.
VerifiedIsComplete ==
  Verify => /\ Len(log) = written
            /\ \A n \in DOMAIN log : log[n].hash = n

\* The log, through deaths at any system call and writes cut short
\* (agentica_core/chain_ledger.py:163-240).
ChainInv == TypeOK /\ ChainVerifies /\ VerifiedIsComplete

Abandoned ==
  /\ lock.by /= None
  /\ appender[lock.by].pc \notin {"stamp", "read", "write", "unlock"}

\* A lock whose holder died, or could not stamp it, is reclaimed as long as
\* somebody wants it.
AbandonedIsReclaimed ==
  Abandoned ~> ~Abandoned \/ written >= MaxAppends

\* held_lock: "Hold <base_path>.lock for the body, or raise": two writers are
\* never both past _acquire_lock.
OneHolder ==
  \A v, w \in Writers :
    /\ appender[v].pc \in {"read", "write", "unlock"}
    /\ appender[w].pc \in {"read", "write", "unlock"}
    => v = w
=============================================================================
