------------------------------ MODULE Backlog ------------------------------
(***************************************************************************)
(* state/PROPOSED_BACKLOG.json and its writers: bin/replenish_backlog.py   *)
(* and bin/sensei_writeback.py, which hold one lock directory for a whole  *)
(* load-mutate-write, and `ronin promote` of bin/ronin, which holds none.  *)
(*                                                                         *)
(* Abstractions.                                                           *)
(*  - What an item proposes is a topic: the title of a METRICS.md row for  *)
(*    replenish, the reflex_id of an entry for sensei.                     *)
(*  - The file is the set of its items; a write replaces it in one step.   *)
(*  - A file that cannot be read, or parsed after an edit by hand, is one a run *)
(*    takes for an empty one: "blind", which the run itself does not know.  *)
(*  - Time: a lock is fresh or older than LOCK_STALE_S.                    *)
(***************************************************************************)
EXTENDS Naturals, FiniteSets, FiniteSetsExt

CONSTANTS
  Runs,        \* runs of the two writers
  Kind,        \* Kind[r]: "AUTO" (replenish) or "SENSEI"
  Topics,      \* Topics[r]: what run r would propose
  Cap,         \* DEFAULT_PENDING_CAP
  Batch,       \* items one replenish run adds at most
  MaxEdits     \* bound on the operator's edits of the file

Nobody == "nobody"

ASSUME BacklogAssumption ==
  /\ IsFiniteSet(Runs) /\ Nobody \notin Runs /\ Kind \in [Runs -> {"AUTO", "SENSEI"}]
  /\ \A r \in Runs : IsFiniteSet(Topics[r])
  /\ Cap \in Nat /\ Batch \in Nat \ {0} /\ MaxEdits \in Nat

Statuses == {"proposed", "approved_for_work", "implemented"}
AllTopics == UNION {Topics[r] : r \in Runs}
Items ==
  [kind : {"AUTO", "SENSEI"}, n : Nat, topic : AllTopics, status : Statuses,
   approved : BOOLEAN]

VARIABLES
  items,     \* PROPOSED_BACKLOG.json
  lock,      \* [by, old]: the lock directory; by = Nobody when there is none
  run,       \* run[r]: where a run is
  copy,      \* copy[r]: what it read
  promote,   \* [at, copy]: `ronin promote`
  added,     \* topics of the runs that finished
  edits,     \* the operator's edits so far
  trespass   \* "reclaim": a run at work has lost its lock directory;
             \* "promote": one that takes no lock wrote beside another;
             \* "blind": a run wrote over a file it could not read

backlogVars == <<items, lock, run, copy, promote, added, edits, trespass>>

BacklogTypeOK ==
  /\ items \subseteq Items
  /\ lock \in [by : Runs \union {Nobody}, old : BOOLEAN]
  /\ run \in [Runs -> {"waiting", "reclaim", "inside", "read", "blind", "written", "over", "dead"}]
  /\ copy \in [Runs -> SUBSET Items]
  /\ promote \in [at : {"idle", "loaded"}, copy : SUBSET Items]
  /\ added \subseteq AllTopics /\ edits \in 0 .. MaxEdits
  /\ trespass \subseteq {"reclaim", "promote", "blind"}

Free == [by |-> Nobody, old |-> FALSE]

BacklogInit ==
  /\ items = {} /\ lock = Free
  /\ run = [r \in Runs |-> "waiting"] /\ copy = [r \in Runs |-> {}]
  /\ promote = [at |-> "idle", copy |-> {}]
  /\ added = {} /\ edits = 0 /\ trespass = {}

-----------------------------------------------------------------------------
(* backlog_lock, the same in both scripts                                  *)

Takes(r) ==
  /\ run[r] = "waiting" /\ lock.by = Nobody
  /\ lock' = [by |-> r, old |-> FALSE]
  /\ run' = [run EXCEPT ![r] = "inside"]
  /\ UNCHANGED <<items, copy, promote, added, edits, trespass>>

AtWork(r) == run[r] \in {"inside", "read", "blind", "written"}

\* rmdir does not ask whose directory it is.
Rmdir(r) ==
  /\ lock' = Free
  /\ trespass' = IF lock.by \in Runs \ {r} /\ AtWork(lock.by)
                 THEN trespass \union {"reclaim"} ELSE trespass

\* The directory is older than LOCK_STALE_S; it is removed in a later step,
\* whoever has made it by then.
Judges(r) ==
  /\ run[r] = "waiting" /\ lock.old
  /\ run' = [run EXCEPT ![r] = "reclaim"]
  /\ UNCHANGED <<items, lock, copy, promote, added, edits, trespass>>

Reclaims(r) ==
  /\ run[r] = "reclaim"
  /\ Rmdir(r)
  /\ run' = [run EXCEPT ![r] = "waiting"]
  /\ UNCHANGED <<items, copy, promote, added, edits>>

\* LOCK_WAIT_S is over: the run raises rather than write without the lock.
GivesUp(r) ==
  /\ run[r] = "waiting" /\ lock.by # Nobody /\ ~lock.old
  /\ run' = [run EXCEPT ![r] = "over"]
  /\ UNCHANGED <<items, lock, copy, promote, added, edits, trespass>>

Releases(r) ==
  /\ run[r] = "written"
  /\ Rmdir(r)
  /\ run' = [run EXCEPT ![r] = "over"]
  /\ UNCHANGED <<items, copy, promote, added, edits>>

\* A run dies with the lock, or is slow with it: the directory grows old.
Dies(r) ==
  /\ run[r] \in {"inside", "read", "blind"}
  /\ run' = [run EXCEPT ![r] = "dead"]
  /\ copy' = [copy EXCEPT ![r] = {}]
  /\ UNCHANGED <<items, lock, promote, added, edits, trespass>>

GrowsOld ==
  /\ lock.by # Nobody /\ ~lock.old
  /\ lock' = [lock EXCEPT !.old = TRUE]
  /\ UNCHANGED <<items, run, copy, promote, added, edits, trespass>>

-----------------------------------------------------------------------------
(* One load-mutate-write                                                   *)

RunReads(r) ==
  /\ run[r] = "inside"
  /\ \/ /\ run' = [run EXCEPT ![r] = "read"]
        /\ copy' = [copy EXCEPT ![r] = items]
     \/ /\ run' = [run EXCEPT ![r] = "blind"]
        /\ copy' = [copy EXCEPT ![r] = {}]
  /\ UNCHANGED <<items, lock, promote, added, edits, trespass>>

\* next_auto_id, and the number after the last SENSEI one.
NextNumber(s, kind) == Max({i.n : i \in {j \in s : j.kind = kind}} \union {0}) + 1

Pending(s) == Cardinality({i \in s : i.status = "proposed" /\ ~i.approved})

\* Mutant: what is under way already is not looked for.
ProposesAll(s, r) == Topics[r]

\* replenish proposes nothing twice, whatever became of it; sensei only
\* skips a reflex whose earlier entry is not resolved.
Proposes(s, r) ==
  IF Kind[r] = "AUTO"
  THEN Topics[r] \ {i.topic : i \in s}
  ELSE Topics[r] \ {i.topic : i \in {j \in s : j.kind = "SENSEI"}}

Numbered(new, first) ==
  {f \in [new -> first .. first + Cardinality(new) - 1] :
     \A t, u \in new : f[t] = f[u] => t = u}

Written(s, new, f, kind) ==
  s \union {[kind |-> kind, n |-> f[t], topic |-> t, status |-> "proposed",
             approved |-> FALSE] : t \in new}

\* What a run adds: replenish nothing at the cap and a batch at most, in an
\* order METRICS.md decides; sensei all of it.
Additions(s, r) ==
  LET all == Proposes(s, r)
  IN IF Kind[r] = "SENSEI" THEN {all}
     ELSE IF Pending(s) >= Cap THEN {{}}
     ELSE kSubset(Min({Batch, Cardinality(all)}), all)

\* An exception on the way to the write: the lock is released all the same.
RunFails(r) ==
  /\ run[r] \in {"read", "blind"}
  /\ run' = [run EXCEPT ![r] = "written"]
  /\ copy' = [copy EXCEPT ![r] = {}]
  /\ UNCHANGED <<items, lock, promote, added, edits, trespass>>

\* A run that has nothing to add leaves the file alone (replenish), or
\* writes what it read (sensei).
RunWrites(r) ==
  /\ run[r] \in {"read", "blind"}
  /\ \E new \in Additions(copy[r], r) :
       \E f \in Numbered(new, NextNumber(copy[r], Kind[r])) :
         /\ items' = IF new = {} /\ Kind[r] = "AUTO" THEN items
                     ELSE Written(copy[r], new, f, Kind[r])
         /\ added' = added \union new
  /\ run' = [run EXCEPT ![r] = "written"]
  /\ copy' = [copy EXCEPT ![r] = {}]
  /\ trespass' = trespass
       \union (IF promote.at = "loaded" THEN {"promote"} ELSE {})
       \union (IF run[r] = "blind" /\ items' # items THEN {"blind"} ELSE {})
  /\ UNCHANGED <<lock, promote, edits>>

-----------------------------------------------------------------------------
(* Writers without the lock: the operator, `ronin promote`, and the nightly *)
(* sweep that works on what was promoted                                    *)

Unlocked(new) ==
  /\ items' = new
  /\ edits < MaxEdits /\ edits' = edits + 1
  /\ trespass' = trespass
       \union (IF \E r \in Runs : run[r] = "read" THEN {"promote"} ELSE {})
       \union (IF promote.at = "loaded" /\ promote'.at = "loaded" THEN {"promote"} ELSE {})
  /\ UNCHANGED <<lock, run, copy, added>>

\* The operator approves a proposal, the sweep finishes one.
Edits ==
  \E i \in items :
    /\ UNCHANGED promote
    /\ \/ /\ i.status = "proposed" /\ ~i.approved
          /\ Unlocked((items \ {i}) \union {[i EXCEPT !.approved = TRUE]})
       \/ /\ i.status = "approved_for_work"
          /\ Unlocked((items \ {i}) \union {[i EXCEPT !.status = "implemented"]})

\* Mutant: promote goes by the ratification alone.
RatifiedEver(i) == i.approved

Promotable(i) == i.approved /\ i.status = "proposed"

PromoteLoads ==
  /\ promote.at = "idle" /\ items # {}
  /\ promote' = IF \E i \in items : Promotable(i)
                THEN [at |-> "loaded", copy |-> items] ELSE promote
  /\ UNCHANGED <<items, lock, run, copy, added, edits, trespass>>

PromoteWrites ==
  /\ promote.at = "loaded"
  /\ promote' = [at |-> "idle", copy |-> {}]
  /\ Unlocked({IF Promotable(i) THEN [i EXCEPT !.status = "approved_for_work"] ELSE i :
               i \in promote.copy})

RunStep(r) == Takes(r) \/ Judges(r) \/ Reclaims(r) \/ GivesUp(r) \/ RunReads(r) \/ RunFails(r)
                \/ RunWrites(r) \/ Releases(r)

\* The model stops at the first trespass, past which nothing is promised.
BacklogNext ==
  /\ trespass = {}
  /\ \/ \E r \in Runs : RunStep(r) \/ Dies(r)
     \/ GrowsOld \/ Edits \/ PromoteLoads \/ PromoteWrites

BacklogSpec ==
  BacklogInit /\ [][BacklogNext]_backlogVars
    /\ \A r \in Runs : WF_backlogVars(trespass = {} /\ RunStep(r))

-----------------------------------------------------------------------------
(* Properties                                                              *)

\* What a run that finished has added is in the file, no id stands for two
\* items and no reflex is escalated twice while it is open, unless a run at
\* work lost its lock directory to another, one of those that take no lock
\* wrote at the same time, or a run wrote over a file it could not read
\* (bin/replenish_backlog.py:53-87, 161-165, bin/sensei_writeback.py:78-149).
NothingIsLost ==
  trespass = {} =>
    /\ added \subseteq {i.topic : i \in items}
    /\ \A i, j \in items : i # j => <<i.kind, i.n>> # <<j.kind, j.n>>
    /\ \A i, j \in items : i # j /\ i.kind = j.kind => i.topic # j.topic

\* With any interleaving of the runs, their deaths and the operator
\* (bin/replenish_backlog.py:319-383, bin/sensei_writeback.py:125-175).
BacklogInv == BacklogTypeOK /\ NothingIsLost

\* Work that is done is not queued again: the flag an operator sets stays
\* for ever, and promote must look past it (bin/ronin:283-292).
DoneStaysDone ==
  [][trespass' = {} =>
       \A i \in items : i.status = "implemented" =>
         \A j \in items' : <<j.kind, j.n>> = <<i.kind, i.n>> => j.status = "implemented"]_backlogVars

\* A lock somebody died with does not hold up the others for ever (bin/
\* replenish_backlog.py:67-82).
RunsEnd == \A r \in Runs : <>(run[r] \in {"over", "dead"} \/ trespass # {})
=============================================================================
