---------------------------- MODULE Loops_proofs ----------------------------
(***************************************************************************)
(* Proofs about the loops that run on a schedule: the daemon's ratchet     *)
(* (RoninDaemon), the writers of the backlog (Backlog), the retirement of  *)
(* a failing launchd job (FleetRetirement), and the server's two ways to   *)
(* run a child process: the dojo's cycles (DojoRunner), for any pillars    *)
(* and any number of cycles, and the manual run channel (ExecChannel), for *)
(* any commands and any number of children.                                *)
(***************************************************************************)
EXTENDS RoninDaemon, Backlog, FleetRetirement, DojoRunner, ExecChannel,
        FiniteSetTheorems, TLAPS

-----------------------------------------------------------------------------
(* The daemon                                                              *)

USE DaemonAssumption

\* Past the gates the baseline is the one the gate read, a failure may still be
\* counted and a cycle still be paid for.
GatePassed ==
  daemon.at \in {"cycle", "judge"} =>
    /\ baseline = daemon.prev
    /\ daemon.fails < MaxFails
    /\ ledger.spent < DailyLimit

\* No cycle is thrown away without a failure that is counted.
DiscardsAreFailures == unrecorded <= daemon.fails

DaemonIInv == DaemonTypeOK /\ GatePassed /\ DiscardsAreFailures

\* What the run checks follows.
LEMMA DaemonFollows == DaemonIInv => DaemonInv
BY DEF DaemonIInv, DaemonInv, DaemonTypeOK, Daemons, DiscardsAreFailures, UnrecordedIsBounded

\* A daemon that has not started has failed nothing.
LEMMA DaemonStart == DaemonInit => DaemonIInv
<1> SUFFICES ASSUME DaemonInit PROVE DaemonIInv
  OBVIOUS
<1>1. /\ daemon.at = "off" /\ daemon.fails = 0
      /\ daemon \in Daemons
  BY DEF DaemonInit, Daemons, Exits
<1>2. ledger \in [day : Unreadable .. LastDay, spent : 0 .. DailyLimit]
  BY DEF DaemonInit, Unreadable, NoLedger
<1>3. paid \in 0 .. DailyLimit + 1
  BY <1>2 DEF DaemonInit
<1>4. DaemonTypeOK
  BY <1>1, <1>2, <1>3 DEF DaemonInit, DaemonTypeOK
<1> QED  BY <1>1, <1>4 DEF DaemonInit, DaemonIInv, GatePassed, DiscardsAreFailures

\* Every step keeps the invariant.
LEMMA DaemonStepKeeps == DaemonIInv /\ [DaemonNext]_daemonVars => DaemonIInv'
<1> SUFFICES ASSUME DaemonIInv, [DaemonNext]_daemonVars PROVE DaemonIInv'
  OBVIOUS
<1> USE DEF DaemonIInv
<1>1. /\ DaemonTypeOK
      /\ daemon.fails \in 0 .. MaxFails /\ daemon.prev \in 0 .. MaxWarns
      /\ unrecorded \in Nat /\ unrecorded <= daemon.fails
  BY DEF DaemonTypeOK, Daemons, DiscardsAreFailures
<1>2. /\ InitBudgetLedger \in [day : Unreadable .. LastDay, spent : 0 .. DailyLimit]
  BY <1>1 DEF InitBudgetLedger, DaemonTypeOK, Unreadable
<1>3. CASE StartDaemon
  <2>1. tree.work /= NoVerdict => tree.work \in 0 .. MaxWarns
    BY <1>1 DEF DaemonTypeOK, Warns, NoVerdict
  <2>2. DaemonTypeOK' /\ daemon'.at \in {"over", "gate"} /\ daemon'.fails = daemon.fails
    BY <1>1, <1>2, <1>3, <2>1 DEF StartDaemon, DaemonTypeOK, Daemons
  <2> QED  BY <1>1, <1>3, <2>2 DEF StartDaemon, GatePassed, DiscardsAreFailures
<1>4. CASE ArmAgain \/ Disarm
  <2>1. /\ UNCHANGED <<ledger, today, tree, baseline, approved, unrecorded, paid, full>>
        /\ stop' \in BOOLEAN
        /\ daemon' \in {daemon, [daemon EXCEPT !.at = "over"]}
    BY <1>4 DEF ArmAgain, Disarm
  <2>2. DaemonTypeOK'
    BY <1>1, <2>1 DEF DaemonTypeOK, Daemons
  <2>3. GatePassed' /\ DiscardsAreFailures'
    BY <1>1, <2>1 DEF DaemonTypeOK, Daemons, GatePassed, DiscardsAreFailures
  <2> QED  BY <2>2, <2>3
<1>5. CASE Gate
  <2> DEFINE l == InitBudgetLedger
             go == ~stop /\ CheckBudget(l) /\ daemon.fails < MaxFails /\ approved
  <2>1. /\ ledger' = IF stop THEN ledger ELSE l
        /\ daemon' = [daemon EXCEPT !.at = IF go THEN "cycle" ELSE "over",
                                    !.prev = IF go THEN baseline ELSE @]
        /\ UNCHANGED <<stop, today, tree, baseline, approved, unrecorded, paid, full>>
    BY <1>5 DEF Gate
  <2>2. go => /\ ledger' = l /\ l.spent < DailyLimit /\ daemon.fails < MaxFails
    BY <2>1 DEF CheckBudget
  <2>3. l \in [day : Unreadable .. LastDay, spent : 0 .. DailyLimit]
    BY <1>2
  <2> HIDE DEF l, go
  <2>4. DaemonTypeOK'
    <3>1. daemon' \in Daemons
      BY <1>1, <2>1 DEF DaemonTypeOK, Daemons
    <3>2. ledger' \in [day : Unreadable .. LastDay, spent : 0 .. DailyLimit]
      BY <1>1, <2>1, <2>3 DEF DaemonTypeOK
    <3> QED  BY <1>1, <2>1, <3>1, <3>2 DEF DaemonTypeOK
  <2>5. GatePassed' /\ DiscardsAreFailures'
    BY <1>1, <2>1, <2>2 DEF DaemonTypeOK, Daemons, GatePassed, DiscardsAreFailures
  <2> QED  BY <2>4, <2>5
<1>6. CASE Cycle
  <2>1. PICK w \in Warns, exit \in Exits :
          /\ daemon' = [daemon EXCEPT !.at = "judge", !.exit = exit]
          /\ \E k \in {tree.kept, w} : tree' = [work |-> w, kept |-> k]
    BY <1>6 DEF Cycle
  <2>2. /\ UNCHANGED <<stop, ledger, today, baseline, approved, unrecorded, paid, full>>
        /\ daemon.at = "cycle"
    BY <1>6 DEF Cycle
  <2>3. DaemonTypeOK'
    <3>1. daemon' \in Daemons
      BY <1>1, <2>1 DEF DaemonTypeOK, Daemons
    <3>2. tree' \in [work : Warns, kept : Warns]
      BY <1>1, <2>1 DEF DaemonTypeOK
    <3> QED  BY <1>1, <2>2, <3>1, <3>2 DEF DaemonTypeOK
  <2>4. GatePassed' /\ DiscardsAreFailures'
    BY <1>1, <2>1, <2>2 DEF DaemonTypeOK, Daemons, GatePassed, DiscardsAreFailures
  <2> QED  BY <2>3, <2>4
<1>7. CASE Discard
  <2>1. daemon.fails < MaxFails
    BY <1>7 DEF Discard, GatePassed
  <2>2. /\ daemon' = [daemon EXCEPT !.at = "gate", !.fails = @ + 1, !.exit = "ok"]
        /\ tree' = [tree EXCEPT !.work = tree.kept]
        /\ unrecorded' = unrecorded + 1
        /\ UNCHANGED <<stop, ledger, today, baseline, approved, paid, full>>
    BY <1>1, <1>7, <2>1 DEF Discard, OneMore
  <2>3. DaemonTypeOK'
    <3> DEFINE f == daemon.fails + 1
    <3>0. f \in 0 .. MaxFails /\ daemon' = [daemon EXCEPT !.at = "gate", !.fails = f,
                                                         !.exit = "ok"]
      BY <1>1, <2>1, <2>2
    <3> HIDE DEF f
    <3>1. daemon' \in Daemons
      BY <1>1, <3>0 DEF DaemonTypeOK, Daemons, Exits
    <3>2. unrecorded' \in 0 .. MaxFails + 1
      BY <1>1, <2>1, <2>2
    <3> QED  BY <1>1, <2>2, <3>1, <3>2 DEF DaemonTypeOK
  <2>4. GatePassed' /\ DiscardsAreFailures'
    BY <1>1, <2>2 DEF DaemonTypeOK, Daemons, GatePassed, DiscardsAreFailures
  <2> QED  BY <2>3, <2>4
<1>8. CASE Accept
  <2>1. /\ daemon.fails < MaxFails /\ ledger.spent < DailyLimit
        /\ tree.work \in 0 .. MaxWarns
    BY <1>1, <1>8 DEF Accept, GatePassed, Rejected, DaemonTypeOK, Warns
  <2>2. /\ ledger' \in [day : Unreadable .. LastDay, spent : 0 .. DailyLimit]
        /\ full' \in 0 .. MaxFull
    <3>1. CASE ledger' = [ledger EXCEPT !.spent = @ + 1] /\ full' = full
      BY <1>1, <2>1, <3>1 DEF DaemonTypeOK
    <3>2. CASE /\ full < MaxFull /\ full' = full + 1
               /\ ledger' = [day |-> Unreadable, spent |-> 0]
      BY <1>1, <3>2 DEF DaemonTypeOK, Unreadable
    <3> QED  BY <1>8, <3>1, <3>2 DEF Accept, RecordCycleCost
  <2>3. paid' \in 0 .. DailyLimit + 1
    BY <1>1, <1>8 DEF Accept, OneMore, DaemonTypeOK
  <2>4. /\ baseline' = tree.work /\ unrecorded' = 0
        /\ UNCHANGED <<stop, today, tree, approved>>
        /\ daemon' = [daemon EXCEPT !.at = IF daemon.dry THEN "over" ELSE "gate",
                                    !.exit = "ok",
                                    !.fails = IF daemon.exit = "ok" THEN 0 ELSE @ + 1]
    BY <1>8 DEF Accept
  <2>5. DaemonTypeOK'
    <3> DEFINE f == IF daemon.exit = "ok" THEN 0 ELSE daemon.fails + 1
               where == IF daemon.dry THEN "over" ELSE "gate"
    <3>0. /\ f \in 0 .. MaxFails /\ where \in {"over", "gate"}
          /\ daemon' = [daemon EXCEPT !.at = where, !.exit = "ok", !.fails = f]
      BY <1>1, <2>1, <2>4
    <3> HIDE DEF f, where
    <3>1. daemon' \in Daemons
      BY <1>1, <3>0 DEF DaemonTypeOK, Daemons, Exits
    <3>2. baseline' \in 0 .. MaxWarns /\ unrecorded' \in 0 .. MaxFails + 1
      BY <1>1, <2>1, <2>4
    <3> QED  BY <1>1, <2>2, <2>3, <2>4, <3>1, <3>2 DEF DaemonTypeOK
  <2>6. GatePassed' /\ DiscardsAreFailures'
    BY <1>1, <2>1, <2>4 DEF DaemonTypeOK, Daemons, GatePassed, DiscardsAreFailures
  <2> QED  BY <2>5, <2>6
<1>9. CASE Midnight \/ BacklogChanges
  <2>1. /\ UNCHANGED <<daemon, stop, ledger, tree, baseline, unrecorded, full>>
        /\ today' \in 1 .. LastDay /\ paid' \in 0 .. DailyLimit + 1 /\ approved' \in BOOLEAN
    <3>1. /\ today \in 1 .. LastDay /\ paid \in 0 .. DailyLimit + 1 /\ approved \in BOOLEAN
      BY <1>1 DEF DaemonTypeOK
    <3>2. CASE Midnight
      BY <3>1, <3>2 DEF Midnight
    <3>3. CASE BacklogChanges
      BY <3>1, <3>3 DEF BacklogChanges
    <3> QED  BY <1>9, <3>2, <3>3
  <2>2. DaemonTypeOK'
    BY <1>1, <2>1 DEF DaemonTypeOK
  <2> QED  BY <2>1, <2>2 DEF GatePassed, DiscardsAreFailures
<1>10. CASE UNCHANGED daemonVars
  BY <1>10 DEF daemonVars, DaemonTypeOK, GatePassed, DiscardsAreFailures
<1> QED
  BY <1>3, <1>4, <1>5, <1>6, <1>7, <1>8, <1>9, <1>10 DEF DaemonNext, DaemonStep

\* The daemon's counters, for any budget and any limits (bin/ronin-daemon.sh:
\* 251-372).
LEMMA DaemonAlways == DaemonSpec => []DaemonIInv
BY DaemonStart, DaemonStepKeeps, PTL DEF DaemonSpec

\* For any budget and any limits: no more than MaxFails cycles lie between two that
\* are recorded, and the counters stay within what the gates leave them
\* (bin/ronin-daemon.sh:251-334).
THEOREM DiscardsAreBounded == DaemonSpec => []DaemonInv
BY DaemonAlways, DaemonFollows, PTL

\* The baseline never rises while a daemon runs, whatever a cycle leaves or commits
\* (bin/ronin-daemon.sh:323-337).
THEOREM BaselineNeverRises == DaemonSpec => RatchetHolds
<1>1. DaemonIInv /\ [DaemonNext]_daemonVars
        => [daemon.at # "off" => baseline' <= baseline]_daemonVars
  <2> SUFFICES ASSUME DaemonIInv, DaemonNext, daemon.at # "off"
               PROVE  baseline' <= baseline
    OBVIOUS
  <2>1. DaemonTypeOK /\ GatePassed /\ baseline \in Nat
    BY DEF DaemonIInv, DaemonTypeOK
  <2>2. CASE Accept
    <3>1. baseline = daemon.prev /\ baseline' = tree.work /\ ~(tree.work > daemon.prev)
      BY <2>1, <2>2 DEF Accept, GatePassed, Rejected
    <3>2. tree.work \in Int
      BY <2>1 DEF DaemonTypeOK, Warns, NoVerdict
    <3> QED  BY <2>1, <3>1, <3>2
  <2>3. CASE ~Accept
    <3>1. baseline' = baseline
      BY <2>3 DEF DaemonNext, DaemonStep, StartDaemon, ArmAgain, Disarm, Gate, Cycle, Discard,
         Midnight, BacklogChanges
    <3> QED  BY <2>1, <3>1
  <2> QED  BY <2>2, <2>3
<1> QED  BY <1>1, DaemonAlways, PTL DEF DaemonSpec, RatchetHolds

\* What was recorded today is in the ledger, when the disk takes what is written.
PaidIsLedgered ==
  /\ full = 0
  /\ IF ledger.day = today THEN paid = ledger.spent ELSE paid = 0
  /\ ledger.day <= today

\* The daily cap holds on a disk that is never full: what breaks it, in the run
\* daemon_ledger, is the ledger left empty (bin/ronin-daemon.sh:123-133, 163-170).
THEOREM CapHoldsOnAGoodDisk ==
  ASSUME MaxFull = 0 PROVE DaemonSpec => []DailyCapHolds
<1>1. DaemonInit => PaidIsLedgered
  BY DEF DaemonInit, PaidIsLedgered, NoLedger
<1>2. DaemonIInv /\ PaidIsLedgered /\ [DaemonNext]_daemonVars => PaidIsLedgered'
  <2> SUFFICES ASSUME DaemonIInv, PaidIsLedgered, [DaemonNext]_daemonVars
               PROVE  PaidIsLedgered'
    OBVIOUS
  <2>1. DaemonTypeOK /\ GatePassed /\ ledger.day \in Int /\ today \in Nat
    BY DEF DaemonIInv, DaemonTypeOK, Unreadable
  <2>2. ASSUME ledger' \in {ledger, InitBudgetLedger}, UNCHANGED <<today, paid, full>>
        PROVE  PaidIsLedgered'
    BY <2>1, <2>2 DEF PaidIsLedgered, InitBudgetLedger
  <2>3. CASE Accept
    <3>1. ledger' = [ledger EXCEPT !.spent = @ + 1] /\ full' = full
      BY <2>3, MaxFull = 0 DEF Accept, RecordCycleCost, PaidIsLedgered
    <3>2. ledger'.day = ledger.day /\ ledger'.spent = ledger.spent + 1
      BY <2>1, <3>1 DEF DaemonTypeOK
    <3>3. ledger.day = today => paid' = ledger.spent + 1
      BY <2>1, <2>3 DEF Accept, GatePassed, OneMore, PaidIsLedgered, DaemonTypeOK
    <3> QED  BY <2>3, <3>1, <3>2, <3>3 DEF Accept, PaidIsLedgered
  <2>4. CASE Midnight
    BY <2>1, <2>4 DEF Midnight, PaidIsLedgered
  <2>5. CASE ~Accept /\ ~Midnight
    <3>1. ledger' \in {ledger, InitBudgetLedger} /\ UNCHANGED <<today, paid, full>>
      BY <2>5 DEF DaemonNext, DaemonStep, StartDaemon, ArmAgain, Disarm, Gate, Cycle, Discard,
         BacklogChanges, daemonVars
    <3> QED  BY <2>2, <3>1
  <2> QED  BY <2>3, <2>4, <2>5
<1>3. DaemonIInv /\ PaidIsLedgered => DailyCapHolds
  BY DEF DaemonIInv, DaemonTypeOK, PaidIsLedgered, DailyCapHolds
<1> QED  BY <1>1, <1>2, <1>3, DaemonAlways, PTL DEF DaemonSpec

-----------------------------------------------------------------------------
(* The backlog                                                             *)

\* A nonempty set of numbers has a least one.
LEMMA LeastExists ==
  ASSUME NEW T, T \subseteq Nat, T /= {}
  PROVE  \E x \in T : \A y \in T : x <= y
<1> DEFINE R == OpToRel(<, Nat)
<1>1. IsWellFoundedOn(R, Nat)
  BY NatLessThanWellFounded
<1>2. \A x, y \in Nat : <<y, x>> \in R <=> y < x
  BY DEF OpToRel
<1> HIDE DEF R
<1>3. \E x \in T : \A y \in T : <<y, x>> \notin R
  BY <1>1, WFMin
<1>4. \A x, y \in T : <<y, x>> \notin R => x <= y
  <2> SUFFICES ASSUME NEW x \in T, NEW y \in T, <<y, x>> \notin R PROVE x <= y
    OBVIOUS
  <2>1. x \in Nat /\ y \in Nat
    OBVIOUS
  <2>2. ~(y < x)
    BY <1>2, <2>1
  <2> QED  BY <2>1, <2>2
<1> QED  BY <1>3, <1>4

\* A nonempty set of numbers below a bound has a greatest one.
LEMMA GreatestExists ==
  ASSUME NEW k \in Nat, NEW T, T \subseteq 0 .. k, T /= {}
  PROVE  \E x \in T : \A y \in T : y <= x
<1> DEFINE U == {k - n : n \in T}
<1>1. \A n \in T : k - n \in Nat
  OBVIOUS
<1>2. U \subseteq Nat /\ U /= {}
  BY <1>1
<1>3. PICK u \in U : \A v \in U : u <= v
  BY <1>2, LeastExists
<1>4. PICK x \in T : u = k - x
  BY <1>3
<1>5. ASSUME NEW y \in T PROVE y <= x
  <2>1. k - y \in U /\ y \in 0 .. k /\ x \in 0 .. k
    OBVIOUS
  <2>2. k - x <= k - y
    BY <1>3, <1>4, <2>1
  <2> QED  BY <2>1, <2>2
<1> QED  BY <1>5

USE BacklogAssumption

\* The numbers of some items have a bound.
Bounded(s) == \E b \in Nat : \A i \in s : i.n <= b

NumbersAreBounded ==
  Bounded(items) /\ Bounded(promote.copy) /\ \A r \in Runs : Bounded(copy[r])

\* Until the first trespass the lock directory is that of the run at work ...
LockIsTheWorkers == trespass = {} => \A r \in Runs : AtWork(r) => lock.by = r

\* ... and what a writer has read is what the file holds.
CopiesAreFresh ==
  trespass = {} =>
    /\ \A r \in Runs : run[r] = "read" => copy[r] = items
    /\ promote.at = "loaded" => promote.copy = items

BacklogIInv ==
  /\ BacklogTypeOK /\ NumbersAreBounded
  /\ LockIsTheWorkers /\ CopiesAreFresh /\ NothingIsLost

\* No item of some stands for what another does.
Distinct(s) ==
  /\ \A i, j \in s : i # j => <<i.kind, i.n>> # <<j.kind, j.n>>
  /\ \A i, j \in s : i # j /\ i.kind = j.kind => i.topic # j.topic

\* The first number a run gives is past every one its kind has.
LEMMA NextIsNew ==
  ASSUME NEW s \in SUBSET Items, Bounded(s), NEW kind
  PROVE  /\ NextNumber(s, kind) \in Nat
         /\ \A i \in s : i.kind = kind => i.n < NextNumber(s, kind)
<1> DEFINE T == {i.n : i \in {j \in s : j.kind = kind}} \union {0}
<1>1. PICK b \in Nat : \A i \in s : i.n <= b
  BY DEF Bounded
<1>2. T \subseteq 0 .. b /\ T /= {}
  BY <1>1 DEF Items
<1>3. \A i \in s : i.kind = kind => i.n \in T
  OBVIOUS
<1>4. NextNumber(s, kind) = Max(T) + 1
  BY DEF NextNumber
<1> HIDE DEF T
<1>5. \E x \in T : \A y \in T : x >= y
  <2>1. PICK x \in T : \A y \in T : y <= x
    BY <1>1, <1>2, GreatestExists
  <2>2. \A y \in T : x >= y
    BY <1>2, <2>1
  <2> QED  BY <2>2
<1>6. Max(T) \in T /\ \A y \in T : Max(T) >= y
  BY <1>5 DEF Max
<1>7. \A y \in T : y \in Nat
  BY <1>1, <1>2
<1>8. Max(T) \in Nat
  BY <1>6, <1>7
<1> QED  BY <1>3, <1>4, <1>6, <1>7, <1>8

\* What a run adds is of its topics, and they are not in its kind's items yet.
LEMMA AddedAreNew ==
  ASSUME NEW s \in SUBSET Items, NEW r \in Runs, NEW new \in Additions(s, r)
  PROVE  /\ new \subseteq Topics[r] /\ IsFiniteSet(new) /\ Cardinality(new) \in Nat
         /\ \A t \in new, i \in s : i.kind = Kind[r] => i.topic # t
<1>1. new \subseteq Proposes(s, r)
  <2>1. CASE Kind[r] = "SENSEI"
    BY <2>1 DEF Additions
  <2>2. CASE Kind[r] # "SENSEI" /\ Pending(s) >= Cap
    BY <2>2 DEF Additions
  <2>3. CASE Kind[r] # "SENSEI" /\ ~(Pending(s) >= Cap)
    BY <2>3 DEF Additions, kSubset
  <2> QED  BY <2>1, <2>2, <2>3
<1>2. Proposes(s, r) \subseteq Topics[r]
  BY DEF Proposes
<1>3. \A t \in Proposes(s, r), i \in s : i.kind = Kind[r] => i.topic # t
  BY DEF Proposes
<1>4. IsFiniteSet(new)
  BY <1>1, <1>2, FS_Subset
<1> QED  BY <1>1, <1>2, <1>3, <1>4, FS_CardinalityType

\* One write of a run: the items it read stay, and what it adds is told apart from
\* them and from one another.
LEMMA WrittenIsDistinct ==
  ASSUME NEW s \in SUBSET Items, Bounded(s), NEW r \in Runs, NEW new \in Additions(s, r),
         NEW f \in Numbered(new, NextNumber(s, Kind[r]))
  PROVE  LET w == Written(s, new, f, Kind[r])
         IN  /\ w \in SUBSET Items /\ Bounded(w) /\ s \subseteq w
             /\ \A t \in new : \E i \in w : i.topic = t
             /\ \A i \in w : i \in s \/ /\ i.status = "proposed" /\ i.topic \in new
                                        /\ \A j \in s : <<j.kind, j.n>> # <<i.kind, i.n>>
             /\ Distinct(s) => Distinct(w)
<1> DEFINE first == NextNumber(s, Kind[r])
           row(t) == [kind |-> Kind[r], n |-> f[t], topic |-> t, status |-> "proposed",
                      approved |-> FALSE]
           w == Written(s, new, f, Kind[r])
<1>1. first \in Nat /\ \A i \in s : i.kind = Kind[r] => i.n < first
  BY NextIsNew
<1>2. /\ new \subseteq Topics[r] /\ Cardinality(new) \in Nat
      /\ \A t \in new, i \in s : i.kind = Kind[r] => i.topic # t
  BY AddedAreNew
<1> HIDE DEF first
<1>3. /\ \A t \in new : f[t] \in Nat /\ first <= f[t] /\ f[t] <= first + Cardinality(new)
      /\ \A t, u \in new : f[t] = f[u] => t = u
  <2>1. f \in [new -> first .. first + Cardinality(new) - 1]
        /\ \A t, u \in new : f[t] = f[u] => t = u
    BY DEF Numbered, first
  <2> QED  BY <1>1, <1>2, <2>1
<1>4. Kind[r] \in {"AUTO", "SENSEI"}
  OBVIOUS
<1>5. \A t \in new : /\ row(t) \in Items /\ row(t).kind = Kind[r] /\ row(t).n = f[t]
                     /\ row(t).topic = t /\ row(t).status = "proposed"
  BY <1>2, <1>3, <1>4 DEF Items, AllTopics, Statuses
<1>6. w = s \union {row(t) : t \in new}
  BY DEF Written
<1> HIDE DEF row, w
<1>7. w \in SUBSET Items /\ s \subseteq w
  BY <1>5, <1>6
<1>8. Bounded(w)
  <2>1. PICK b \in Nat : \A i \in s : i.n <= b
    BY DEF Bounded
  <2> DEFINE top == b + first + Cardinality(new)
  <2>2. top \in Nat /\ b <= top /\ first + Cardinality(new) <= top
    BY <1>1, <1>2
  <2> HIDE DEF top
  <2>3. \A i \in s : i.n <= top
    BY <2>1, <2>2 DEF Items
  <2>4. \A t \in new : row(t).n <= top
    BY <1>1, <1>2, <1>3, <1>5, <2>2
  <2> QED  BY <1>6, <2>2, <2>3, <2>4 DEF Bounded
<1>9. \A t \in new : \E i \in w : i.topic = t
  BY <1>5, <1>6
<1>10. ASSUME NEW t \in new, NEW j \in s
       PROVE  /\ <<j.kind, j.n>> # <<row(t).kind, row(t).n>>
              /\ j.kind = row(t).kind => j.topic # row(t).topic
  <2>1. j.kind = Kind[r] => j.n \in Nat /\ j.n < first /\ j.topic # t
    BY <1>1, <1>2 DEF Items
  <2> QED  BY <1>1, <1>3, <1>5, <2>1
<1>11. \A i \in w : i \in s \/ /\ i.status = "proposed" /\ i.topic \in new
                               /\ \A j \in s : <<j.kind, j.n>> # <<i.kind, i.n>>
  BY <1>5, <1>6, <1>10
<1>12. ASSUME Distinct(s), NEW i \in w, NEW j \in w, i # j
       PROVE  /\ <<i.kind, i.n>> # <<j.kind, j.n>>
              /\ i.kind = j.kind => i.topic # j.topic
  <2>1. CASE i \in s /\ j \in s
    BY <1>12, <2>1 DEF Distinct
  <2>2. ASSUME NEW t \in new, j = row(t), i \in s
        PROVE  <<i.kind, i.n>> # <<j.kind, j.n>> /\ (i.kind = j.kind => i.topic # j.topic)
    BY <1>10, <2>2
  <2>3. ASSUME NEW t \in new, i = row(t), j \in s
        PROVE  <<i.kind, i.n>> # <<j.kind, j.n>> /\ (i.kind = j.kind => i.topic # j.topic)
    BY <1>10, <2>3
  <2>4. ASSUME NEW t \in new, NEW u \in new, i = row(t), j = row(u)
        PROVE  <<i.kind, i.n>> # <<j.kind, j.n>> /\ (i.kind = j.kind => i.topic # j.topic)
    <3>1. t # u
      BY <1>12, <2>4
    <3> QED  BY <1>3, <1>5, <2>4, <3>1
  <2> QED  BY <1>6, <2>1, <2>2, <2>3, <2>4
<1>13. Distinct(s) => Distinct(w)
  BY <1>12 DEF Distinct
<1> QED  BY <1>7, <1>8, <1>9, <1>11, <1>13 DEF w

\* An edit, item by item, that leaves alone what tells them apart.
LEMMA EditedIsDistinct ==
  ASSUME NEW s \in SUBSET Items, Bounded(s), NEW g \in [s -> Items],
         \A i \in s : g[i].kind = i.kind /\ g[i].n = i.n /\ g[i].topic = i.topic
  PROVE  LET e == {g[i] : i \in s}
         IN  /\ e \in SUBSET Items /\ Bounded(e)
             /\ {i.topic : i \in e} = {i.topic : i \in s}
             /\ Distinct(s) => Distinct(e)
<1> DEFINE e == {g[i] : i \in s}
<1>1. e \in SUBSET Items /\ {i.topic : i \in e} = {i.topic : i \in s}
  OBVIOUS
<1>2. Bounded(e)
  BY DEF Bounded
<1>3. ASSUME Distinct(s), NEW i \in s, NEW j \in s, g[i] # g[j]
      PROVE  /\ <<g[i].kind, g[i].n>> # <<g[j].kind, g[j].n>>
             /\ g[i].kind = g[j].kind => g[i].topic # g[j].topic
  BY <1>3 DEF Distinct
<1>4. Distinct(s) => Distinct(e)
  BY <1>3 DEF Distinct
<1> QED  BY <1>1, <1>2, <1>4

\* Nothing is lost of a file that holds nothing.
LEMMA BacklogStart == BacklogInit => BacklogIInv
<1> SUFFICES ASSUME BacklogInit PROVE BacklogIInv
  OBVIOUS
<1>1. BacklogTypeOK
  <2>1. Free \in [by : Runs \union {Nobody}, old : BOOLEAN]
    BY DEF Free
  <2> QED  BY <2>1 DEF BacklogInit, BacklogTypeOK
<1>2. Bounded({})
  BY DEF Bounded
<1>3. NumbersAreBounded
  BY <1>2 DEF BacklogInit, NumbersAreBounded
<1>4. LockIsTheWorkers /\ CopiesAreFresh /\ NothingIsLost
  BY DEF BacklogInit, LockIsTheWorkers, CopiesAreFresh, NothingIsLost, AtWork
<1> QED  BY <1>1, <1>3, <1>4 DEF BacklogIInv

\* What a step leaves alone when it writes no items: one run moves.
Moved(r, to) ==
  /\ run' = [run EXCEPT ![r] = to]
  /\ to \in {"waiting", "reclaim", "inside", "read", "blind", "written", "over", "dead"}
  /\ copy' \in {copy, [copy EXCEPT ![r] = {}], [copy EXCEPT ![r] = items]}
  /\ to = "read" => copy' = [copy EXCEPT ![r] = items]
  /\ UNCHANGED <<items, promote, added, edits>>

\* Such a step keeps the invariant, if the lock directory is what it should be.
LEMMA MovedKeeps ==
  ASSUME BacklogIInv, trespass = {}, NEW r \in Runs, NEW to, Moved(r, to),
         lock' \in [by : Runs \union {Nobody}, old : BOOLEAN],
         trespass' \subseteq {"reclaim", "promote", "blind"},
         LockIsTheWorkers'
  PROVE  BacklogIInv'
<1> USE DEF BacklogIInv
<1>1. /\ BacklogTypeOK /\ items \in SUBSET Items /\ copy \in [Runs -> SUBSET Items]
      /\ run' \in [Runs -> {"waiting", "reclaim", "inside", "read", "blind", "written", "over", "dead"}]
  BY DEF BacklogTypeOK, Moved
<1>2. \A v \in Runs : /\ run'[v] = IF v = r THEN to ELSE run[v]
                      /\ copy'[v] \in {copy[v], {}, items}
                      /\ v # r => copy'[v] = copy[v]
  BY <1>1 DEF BacklogTypeOK, Moved
<1>3. BacklogTypeOK'
  <2>1. copy' \in [Runs -> SUBSET Items]
    BY <1>1 DEF Moved
  <2> QED  BY <1>1, <2>1 DEF BacklogTypeOK, Moved
<1>4. NumbersAreBounded'
  <2>1. Bounded({})
    BY DEF Bounded
  <2>2. \A v \in Runs : Bounded(copy'[v])
    BY <1>2, <2>1 DEF NumbersAreBounded
  <2> QED  BY <2>2 DEF NumbersAreBounded, Moved
<1>5. CopiesAreFresh'
  <2>1. to = "read" => copy'[r] = items
    BY <1>1 DEF Moved
  <2> QED  BY <1>2, <2>1 DEF CopiesAreFresh, Moved
<1>6. NothingIsLost'
  BY DEF NothingIsLost, Moved
<1> QED  BY <1>3, <1>4, <1>5, <1>6

\* The steps on the lock directory, and the read under it.
LEMMA LockStepKeeps ==
  ASSUME BacklogIInv, trespass = {}, NEW r \in Runs,
         \/ Takes(r) \/ Judges(r) \/ Reclaims(r) \/ GivesUp(r) \/ Releases(r)
         \/ Dies(r) \/ RunReads(r) \/ RunFails(r)
  PROVE  BacklogIInv'
<1>1. /\ BacklogTypeOK /\ LockIsTheWorkers /\ lock \in [by : Runs \union {Nobody}, old : BOOLEAN]
      /\ run \in [Runs -> {"waiting", "reclaim", "inside", "read", "blind", "written", "over", "dead"}]
  BY DEF BacklogIInv, BacklogTypeOK
<1>2. Free \in [by : Runs \union {Nobody}, old : BOOLEAN] /\ Free.by = Nobody
  BY DEF Free
<1>3. ASSUME NEW to, run' = [run EXCEPT ![r] = to]
      PROVE  \A v \in Runs : run'[v] = IF v = r THEN to ELSE run[v]
  BY <1>1, <1>3
<1>4. CASE Takes(r)
  <2>1. /\ lock' = [by |-> r, old |-> FALSE] /\ lock.by = Nobody
        /\ run' = [run EXCEPT ![r] = "inside"] /\ Moved(r, "inside") /\ UNCHANGED trespass
    BY <1>4 DEF Takes, Moved
  <2>2. \A v \in Runs : ~AtWork(v)
    BY <1>1, <2>1 DEF LockIsTheWorkers
  <2>3. LockIsTheWorkers'
    BY <1>3, <2>1, <2>2 DEF LockIsTheWorkers, AtWork
  <2> QED  BY <2>1, <2>3, MovedKeeps
<1>5. CASE Judges(r) \/ GivesUp(r)
  <2>1. PICK to \in {"reclaim", "over"} : run' = [run EXCEPT ![r] = to]
    BY <1>5 DEF Judges, GivesUp
  <2>2. UNCHANGED <<items, lock, copy, promote, added, edits, trespass>> /\ Moved(r, to)
    BY <1>5, <2>1 DEF Judges, GivesUp, Moved
  <2>3. LockIsTheWorkers'
    BY <1>1, <1>3, <2>1, <2>2 DEF LockIsTheWorkers, AtWork
  <2> QED  BY <1>1, <2>2, <2>3, MovedKeeps
<1>6. CASE Reclaims(r)
  <2>1. /\ run[r] = "reclaim" /\ Rmdir(r) /\ Moved(r, "waiting")
        /\ run' = [run EXCEPT ![r] = "waiting"]
    BY <1>6 DEF Reclaims, Moved
  <2>2. lock' = Free /\ trespass' \subseteq {"reclaim", "promote", "blind"}
    BY <1>6, <2>1 DEF Rmdir
  <2>3. trespass' = {} => \A v \in Runs : ~AtWork(v)
    <3> SUFFICES ASSUME NEW v \in Runs, AtWork(v) PROVE trespass' # {}
      OBVIOUS
    <3>1. lock.by = v /\ v # r
      BY <1>1, <2>1 DEF LockIsTheWorkers, AtWork
    <3>2. "reclaim" \in trespass'
      BY <2>1, <3>1 DEF Rmdir, AtWork
    <3> QED  BY <3>2
  <2>4. LockIsTheWorkers'
    BY <1>3, <2>1, <2>3 DEF LockIsTheWorkers, AtWork
  <2> QED  BY <1>2, <2>1, <2>2, <2>4, MovedKeeps
<1>7. CASE Releases(r)
  <2>1. /\ run[r] = "written" /\ Rmdir(r) /\ Moved(r, "over")
        /\ run' = [run EXCEPT ![r] = "over"]
    BY <1>7 DEF Releases, Moved
  <2>2. lock' = Free /\ lock.by = r /\ UNCHANGED trespass
    BY <1>1, <2>1 DEF Rmdir, LockIsTheWorkers, AtWork
  <2>3. \A v \in Runs \ {r} : ~AtWork(v)
    BY <1>1, <2>2 DEF LockIsTheWorkers
  <2>4. \A v \in Runs : run'[v] = IF v = r THEN "over" ELSE run[v]
    BY <1>1, <2>1
  <2>5. LockIsTheWorkers'
    BY <2>4, <2>3 DEF LockIsTheWorkers, AtWork
  <2> QED  BY <1>2, <2>1, <2>2, <2>5, MovedKeeps
<1>8. CASE Dies(r) \/ RunReads(r) \/ RunFails(r)
  <2>1. PICK to \in {"dead", "read", "blind", "written"} :
          run' = [run EXCEPT ![r] = to] /\ Moved(r, to)
    BY <1>8 DEF Dies, RunReads, RunFails, Moved
  <2>2. UNCHANGED <<lock, trespass>> /\ AtWork(r)
    BY <1>8 DEF Dies, RunReads, RunFails, AtWork
  <2>3. LockIsTheWorkers'
    BY <1>1, <1>3, <2>1, <2>2 DEF LockIsTheWorkers, AtWork
  <2> QED  BY <1>1, <2>1, <2>2, <2>3, MovedKeeps
<1> QED  BY <1>4, <1>5, <1>6, <1>7, <1>8

\* The write of a run.
LEMMA WriteKeeps ==
  ASSUME BacklogIInv, trespass = {}, NEW r \in Runs, RunWrites(r)
  PROVE  BacklogIInv'
<1>1. /\ BacklogTypeOK /\ NumbersAreBounded /\ LockIsTheWorkers /\ CopiesAreFresh
      /\ copy[r] \in SUBSET Items /\ Bounded(copy[r]) /\ NothingIsLost
      /\ (run[r] = "read" /\ copy[r] = items) \/ run[r] = "blind"
  BY DEF BacklogIInv, BacklogTypeOK, NumbersAreBounded, CopiesAreFresh, RunWrites
<1>2. PICK new \in Additions(copy[r], r) :
        \E f \in Numbered(new, NextNumber(copy[r], Kind[r])) :
          /\ items' = IF new = {} /\ Kind[r] = "AUTO" THEN items
                      ELSE Written(copy[r], new, f, Kind[r])
          /\ added' = added \union new
  BY DEF RunWrites
<1>3. PICK f \in Numbered(new, NextNumber(copy[r], Kind[r])) :
        /\ items' = IF new = {} /\ Kind[r] = "AUTO" THEN items
                    ELSE Written(copy[r], new, f, Kind[r])
        /\ added' = added \union new
  BY <1>2
<1>4. /\ run' = [run EXCEPT ![r] = "written"] /\ copy' = [copy EXCEPT ![r] = {}]
      /\ trespass' = trespass
           \union (IF promote.at = "loaded" THEN {"promote"} ELSE {})
           \union (IF run[r] = "blind" /\ items' # items THEN {"blind"} ELSE {})
      /\ UNCHANGED <<lock, promote, edits>>
  BY DEF RunWrites
<1> DEFINE w == Written(copy[r], new, f, Kind[r])
<1>5. /\ w \in SUBSET Items /\ Bounded(w) /\ copy[r] \subseteq w
      /\ \A t \in new : \E i \in w : i.topic = t
      /\ Distinct(copy[r]) => Distinct(w)
  BY <1>1, WrittenIsDistinct
<1>6. new \subseteq Topics[r]
  BY <1>1, AddedAreNew
<1> HIDE DEF w
<1>7. items' = items \/ items' = w
  BY <1>3 DEF w
<1>8. /\ items' \in SUBSET Items /\ Bounded(items')
      /\ \A t \in new : \E i \in items' : i.topic = t
      /\ trespass' = {} => items \subseteq items' /\ (Distinct(items) => Distinct(items'))
  <2>1. CASE items' = w
    BY <1>1, <1>4, <1>5, <2>1
  <2>2. CASE items' # w
    <3>1. items' = items /\ new = {}
      BY <1>3, <2>2 DEF w
    <3> QED  BY <1>1, <3>1 DEF NumbersAreBounded, BacklogTypeOK
  <2> QED  BY <2>1, <2>2
<1>9. \A v \in Runs : /\ run'[v] = IF v = r THEN "written" ELSE run[v]
                      /\ copy'[v] = IF v = r THEN {} ELSE copy[v]
  BY <1>1, <1>4 DEF BacklogTypeOK
<1>10. BacklogTypeOK'
  <2>1. added' \subseteq AllTopics
    BY <1>1, <1>3, <1>6 DEF BacklogTypeOK, AllTopics
  <2>2. run' \in [Runs -> {"waiting", "reclaim", "inside", "read", "blind", "written", "over", "dead"}]
        /\ copy' \in [Runs -> SUBSET Items]
    BY <1>1, <1>4 DEF BacklogTypeOK
  <2>3. trespass' \subseteq {"reclaim", "promote", "blind"}
    BY <1>4
  <2> QED  BY <1>1, <1>4, <1>8, <2>1, <2>2, <2>3 DEF BacklogTypeOK
<1>11. NumbersAreBounded'
  <2>1. Bounded({})
    BY DEF Bounded
  <2> QED  BY <1>1, <1>4, <1>8, <1>9, <2>1 DEF NumbersAreBounded
<1>12. LockIsTheWorkers'
  BY <1>1, <1>4, <1>9 DEF LockIsTheWorkers, AtWork
<1>13. CopiesAreFresh'
  <2>1. \A v \in Runs \ {r} : run[v] # "read"
    BY <1>1 DEF LockIsTheWorkers, AtWork
  <2>2. trespass' = {} => promote.at # "loaded"
    BY <1>4
  <2> QED  BY <1>4, <1>9, <2>1, <2>2 DEF CopiesAreFresh
<1>14. NothingIsLost'
  <2> SUFFICES ASSUME trespass' = {}
               PROVE  added' \subseteq {i.topic : i \in items'} /\ Distinct(items')
    BY DEF NothingIsLost, Distinct
  <2>1. Distinct(items) /\ added \subseteq {i.topic : i \in items}
    BY <1>1 DEF NothingIsLost, Distinct
  <2>2. added' \subseteq {i.topic : i \in items'}
    BY <1>3, <1>8, <2>1
  <2> QED  BY <1>8, <2>1, <2>2
<1> QED  BY <1>10, <1>11, <1>12, <1>13, <1>14 DEF BacklogIInv

\* A write of the operator's or of promote: it edits what it read.
LEMMA EditKeeps ==
  ASSUME BacklogIInv, trespass = {}, NEW s \in SUBSET Items, Bounded(s),
         s = items \/ (promote.at = "loaded" /\ promote'.at = "loaded"),
         NEW g \in [s -> Items],
         \A i \in s : g[i].kind = i.kind /\ g[i].n = i.n /\ g[i].topic = i.topic,
         Unlocked({g[i] : i \in s}),
         promote' \in {promote, [at |-> "idle", copy |-> {}]}
  PROVE  BacklogIInv'
<1> DEFINE e == {g[i] : i \in s}
<1>1. /\ e \in SUBSET Items /\ Bounded(e)
      /\ {i.topic : i \in e} = {i.topic : i \in s}
      /\ Distinct(s) => Distinct(e)
  BY EditedIsDistinct
<1>2. /\ items' = e /\ edits < MaxEdits /\ edits' = edits + 1
      /\ trespass' = trespass
           \union (IF \E r \in Runs : run[r] = "read" THEN {"promote"} ELSE {})
           \union (IF promote.at = "loaded" /\ promote'.at = "loaded" THEN {"promote"}
                   ELSE {})
      /\ UNCHANGED <<lock, run, copy, added>>
  BY DEF Unlocked
<1> HIDE DEF e
<1>3. BacklogTypeOK /\ NumbersAreBounded /\ LockIsTheWorkers /\ CopiesAreFresh /\ NothingIsLost
  BY DEF BacklogIInv
<1>4. trespass' = {} => s = items /\ \A r \in Runs : run[r] # "read"
  BY <1>2
<1>5. BacklogTypeOK'
  <2>1. promote' \in [at : {"idle", "loaded"}, copy : SUBSET Items]
    BY <1>3 DEF BacklogTypeOK
  <2>2. edits' \in 0 .. MaxEdits
    BY <1>2, <1>3 DEF BacklogTypeOK
  <2>3. trespass' \subseteq {"reclaim", "promote", "blind"}
    BY <1>2
  <2> QED  BY <1>1, <1>2, <1>3, <2>1, <2>2, <2>3 DEF BacklogTypeOK
<1>6. NumbersAreBounded'
  <2>1. Bounded({})
    BY DEF Bounded
  <2>2. promote'.copy = promote.copy \/ promote'.copy = {}
    OBVIOUS
  <2>3. Bounded(promote'.copy)
    BY <1>3, <2>1, <2>2 DEF NumbersAreBounded
  <2>4. Bounded(items')
    BY <1>1, <1>2
  <2>5. \A r \in Runs : Bounded(copy'[r])
    BY <1>2, <1>3 DEF NumbersAreBounded
  <2> QED  BY <2>3, <2>4, <2>5 DEF NumbersAreBounded
<1>7. LockIsTheWorkers'
  BY <1>2, <1>3 DEF LockIsTheWorkers, AtWork
<1>8. CopiesAreFresh'
  <2>1. trespass' = {} => promote'.at # "loaded"
    <3>1. promote' = promote \/ promote'.at = "idle"
      OBVIOUS
    <3> QED  BY <1>2, <3>1
  <2> QED  BY <1>2, <1>4, <2>1 DEF CopiesAreFresh
<1>9. NothingIsLost'
  <2> SUFFICES ASSUME trespass' = {}
               PROVE  added' \subseteq {i.topic : i \in items'} /\ Distinct(items')
    BY DEF NothingIsLost, Distinct
  <2>1. Distinct(s) /\ added \subseteq {i.topic : i \in s}
    BY <1>3, <1>4 DEF NothingIsLost, Distinct
  <2> QED  BY <1>1, <1>2, <2>1
<1> QED  BY <1>5, <1>6, <1>7, <1>8, <1>9 DEF BacklogIInv

\* The writers without the lock, and the clock.
LEMMA OthersKeep ==
  ASSUME BacklogIInv, trespass = {}, GrowsOld \/ Edits \/ PromoteLoads \/ PromoteWrites
  PROVE  BacklogIInv'
<1>1. /\ BacklogTypeOK /\ NumbersAreBounded /\ LockIsTheWorkers /\ CopiesAreFresh
      /\ NothingIsLost /\ items \in SUBSET Items /\ Bounded(items)
      /\ promote.copy \in SUBSET Items /\ Bounded(promote.copy)
  BY DEF BacklogIInv, BacklogTypeOK, NumbersAreBounded
<1>2. CASE GrowsOld
  <2>1. /\ lock' \in [by : Runs \union {Nobody}, old : BOOLEAN] /\ lock'.by = lock.by
        /\ UNCHANGED <<items, run, copy, promote, added, edits, trespass>>
    BY <1>1, <1>2 DEF GrowsOld, BacklogTypeOK
  <2>2. BacklogTypeOK'
    BY <1>1, <2>1 DEF BacklogTypeOK
  <2>3. NumbersAreBounded' /\ LockIsTheWorkers' /\ CopiesAreFresh' /\ NothingIsLost'
    BY <1>1, <2>1
    DEF NumbersAreBounded, LockIsTheWorkers, AtWork, CopiesAreFresh, NothingIsLost
  <2> QED  BY <2>2, <2>3 DEF BacklogIInv
<1>3. CASE PromoteLoads
  <2>1. /\ promote' \in {[at |-> "loaded", copy |-> items], promote}
        /\ UNCHANGED <<items, lock, run, copy, added, edits, trespass>>
    BY <1>3 DEF PromoteLoads
  <2>2. BacklogTypeOK'
    BY <1>1, <2>1 DEF BacklogTypeOK
  <2>3. NumbersAreBounded' /\ CopiesAreFresh'
    BY <1>1, <2>1 DEF NumbersAreBounded, CopiesAreFresh
  <2>4. LockIsTheWorkers' /\ NothingIsLost'
    BY <1>1, <2>1 DEF LockIsTheWorkers, AtWork, NothingIsLost
  <2> QED  BY <2>2, <2>3, <2>4 DEF BacklogIInv
<1>4. CASE Edits
  <2>1. PICK i \in items :
          \E e \in {[i EXCEPT !.approved = TRUE], [i EXCEPT !.status = "implemented"]} :
            Unlocked((items \ {i}) \union {e}) /\ UNCHANGED promote
    BY <1>4 DEF Edits
  <2>2. PICK e \in {[i EXCEPT !.approved = TRUE], [i EXCEPT !.status = "implemented"]} :
          Unlocked((items \ {i}) \union {e}) /\ UNCHANGED promote
    BY <2>1
  <2>3. i \in Items /\ e \in Items /\ e.kind = i.kind /\ e.n = i.n /\ e.topic = i.topic
    BY <1>1, <2>2 DEF Items, Statuses
  <2> DEFINE g == [j \in items |-> IF j = i THEN e ELSE j]
  <2>4. /\ g \in [items -> Items]
        /\ \A j \in items : g[j].kind = j.kind /\ g[j].n = j.n /\ g[j].topic = j.topic
    BY <1>1, <2>2, <2>3
  <2>5. {g[j] : j \in items} = (items \ {i}) \union {e}
    OBVIOUS
  <2> HIDE DEF g
  <2>6. Unlocked({g[j] : j \in items})
    BY <2>2, <2>5
  <2> QED  BY <1>1, <2>2, <2>4, <2>6, EditKeeps
<1>5. CASE PromoteWrites
  <2> DEFINE s == promote.copy
             g == [i \in s |-> IF Promotable(i) THEN [i EXCEPT !.status = "approved_for_work"]
                               ELSE i]
  <2>1. /\ promote.at = "loaded" /\ promote' = [at |-> "idle", copy |-> {}]
        /\ Unlocked({IF Promotable(i) THEN [i EXCEPT !.status = "approved_for_work"] ELSE i :
                      i \in promote.copy})
    BY <1>5 DEF PromoteWrites
  <2>2. Unlocked({g[i] : i \in s})
    BY <2>1
  <2>3. /\ g \in [s -> Items]
        /\ \A i \in s : g[i].kind = i.kind /\ g[i].n = i.n /\ g[i].topic = i.topic
    <3>1. \A i \in Items : /\ [i EXCEPT !.status = "approved_for_work"] \in Items
                           /\ [i EXCEPT !.status = "approved_for_work"].kind = i.kind
                           /\ [i EXCEPT !.status = "approved_for_work"].n = i.n
                           /\ [i EXCEPT !.status = "approved_for_work"].topic = i.topic
      BY DEF Items, Statuses
    <3> QED  BY <1>1, <3>1
  <2>4. s \in SUBSET Items /\ Bounded(s) /\ s = items
    BY <1>1, <2>1 DEF CopiesAreFresh
  <2> HIDE DEF g, s
  <2> QED  BY <2>1, <2>2, <2>3, <2>4, EditKeeps
<1> QED  BY <1>2, <1>3, <1>4, <1>5

\* Every step keeps the invariant.
LEMMA BacklogStepKeeps == BacklogIInv /\ [BacklogNext]_backlogVars => BacklogIInv'
<1> SUFFICES ASSUME BacklogIInv, [BacklogNext]_backlogVars PROVE BacklogIInv'
  OBVIOUS
<1>1. CASE UNCHANGED backlogVars
  BY <1>1 DEF backlogVars, BacklogIInv, BacklogTypeOK, NumbersAreBounded, Bounded,
     LockIsTheWorkers, AtWork, CopiesAreFresh, NothingIsLost
<1>2. CASE BacklogNext
  BY <1>2, LockStepKeeps, WriteKeeps, OthersKeep DEF BacklogNext, RunStep
<1> QED  BY <1>1, <1>2

\* The invariant holds in every behaviour.
LEMMA BacklogAlways == BacklogSpec => []BacklogIInv
BY BacklogStart, BacklogStepKeeps, PTL DEF BacklogSpec

\* For any number of runs and topics, with deaths, stale locks and the operator:
\* until a run at work has lost its lock, one without a lock wrote beside another, or
\* a run wrote over a file it could not read, nothing that was added is lost and no
\* two items stand for one
\* (bin/replenish_backlog.py:53-87, 319-383, bin/sensei_writeback.py:78-175).
THEOREM BacklogIsKept == BacklogSpec => []BacklogInv
<1>1. BacklogIInv => BacklogInv
  BY DEF BacklogIInv, BacklogInv
<1> QED  BY <1>1, BacklogAlways, PTL

\* Finished work is not queued again by any writer, whatever the operator's flag
\* still says (bin/ronin:283-292).
THEOREM FinishedStaysFinished == BacklogSpec => DoneStaysDone
<1>1. BacklogIInv /\ [BacklogNext]_backlogVars =>
        [trespass' = {} =>
          \A i \in items : i.status = "implemented" =>
            \A j \in items' : <<j.kind, j.n>> = <<i.kind, i.n>>
                                => j.status = "implemented"]_backlogVars
  <2> SUFFICES ASSUME BacklogIInv, BacklogNext, trespass' = {},
                      NEW i \in items, i.status = "implemented",
                      NEW j \in items', <<j.kind, j.n>> = <<i.kind, i.n>>
               PROVE  j.status = "implemented"
    OBVIOUS
  <2>1. /\ trespass = {} /\ BacklogTypeOK /\ items \in SUBSET Items /\ Bounded(items)
        /\ \A k, l \in items : k # l => <<k.kind, k.n>> # <<l.kind, l.n>>
    BY DEF BacklogIInv, BacklogTypeOK, NumbersAreBounded, NothingIsLost, BacklogNext
  <2>2. CASE items' = items
    BY <2>1, <2>2
  <2>3. ASSUME NEW r \in Runs, RunWrites(r)
        PROVE  j.status = "implemented"
    <3>1. items' = items \/ copy[r] = items
      BY <2>1, <2>3 DEF BacklogIInv, CopiesAreFresh, RunWrites
    <3>2. CASE copy[r] = items
      <4>1. PICK new \in Additions(items, r) :
              \E f \in Numbered(new, NextNumber(items, Kind[r])) :
                items' = IF new = {} /\ Kind[r] = "AUTO" THEN items
                         ELSE Written(items, new, f, Kind[r])
        BY <2>3, <3>2 DEF RunWrites
      <4>2. PICK f \in Numbered(new, NextNumber(items, Kind[r])) :
              items' = items \/ items' = Written(items, new, f, Kind[r])
        BY <4>1
      <4>3. \A k \in Written(items, new, f, Kind[r]) :
              k \in items \/ \A l \in items : <<l.kind, l.n>> # <<k.kind, k.n>>
        BY <2>1, WrittenIsDistinct
      <4>4. j \in items
        BY <4>2, <4>3
      <4> QED  BY <2>1, <4>4
    <3> QED  BY <2>1, <3>1, <3>2
  <2>4. CASE Edits
    <3>1. PICK k \in items :
            \/ k.status = "proposed"
               /\ items' = (items \ {k}) \union {[k EXCEPT !.approved = TRUE]}
            \/ k.status = "approved_for_work"
               /\ items' = (items \ {k}) \union {[k EXCEPT !.status = "implemented"]}
      BY <2>4 DEF Edits, Unlocked
    <3>2. k # i /\ k \in Items /\ <<k.kind, k.n>> # <<i.kind, i.n>>
      BY <2>1, <3>1
    <3>3. \A e \in {[k EXCEPT !.approved = TRUE], [k EXCEPT !.status = "implemented"]} :
            e.kind = k.kind /\ e.n = k.n
      BY <3>2 DEF Items
    <3>4. j \in items
      BY <3>1, <3>2, <3>3
    <3> QED  BY <2>1, <3>4
  <2>5. CASE PromoteWrites
    <3>1. promote.copy = items
      BY <2>1, <2>5 DEF BacklogIInv, CopiesAreFresh, PromoteWrites
    <3>2. PICK k \in items :
            j = IF Promotable(k) THEN [k EXCEPT !.status = "approved_for_work"] ELSE k
      BY <2>5, <3>1 DEF PromoteWrites, Unlocked
    <3>3. k \in Items /\ j.kind = k.kind /\ j.n = k.n
      BY <2>1, <3>2 DEF Items
    <3>4. k = i
      BY <2>1, <3>3
    <3> QED  BY <3>2, <3>4 DEF Promotable
  <2>6. ASSUME NEW r \in Runs,
               Takes(r) \/ Judges(r) \/ Reclaims(r) \/ GivesUp(r) \/ RunReads(r)
                 \/ RunFails(r) \/ Releases(r) \/ Dies(r)
        PROVE  items' = items
    BY <2>6 DEF Takes, Judges, Reclaims, GivesUp, RunReads, RunFails, Releases, Dies
  <2>7. GrowsOld \/ PromoteLoads => items' = items
    BY DEF GrowsOld, PromoteLoads
  <2> QED  BY <2>2, <2>3, <2>4, <2>5, <2>6, <2>7 DEF BacklogNext, RunStep
<1> QED  BY <1>1, BacklogAlways, PTL DEF BacklogSpec, DoneStaysDone

-----------------------------------------------------------------------------
(* The retirement of a job                                                 *)

InTransaction(s) == sweep[s].pc \notin {"idle", "lock"}

\* A transaction has the journal's lock ...
LockIsTheSweeps == \A s \in Sweeps : InTransaction(s) => holder = s

\* ... its intent is in the journal before it touches the job, and it knows what it has
\* made of it ...
WorkIsRecorded ==
  \A s \in Sweeps : ~At(s, "idle") =>
    /\ sweep[s].item \in Requests
    /\ InTransaction(s) /\ ~At(s, "intent") => journal[sweep[s].item] \in {"intent", "disabled"}
    /\ At(s, "record") => launchd = DisabledUnloaded
    /\ At(s, "decide") => launchd = DisabledUnloaded /\ journal[sweep[s].item] = "disabled"
    /\ At(s, "unwound") /\ sweep[s].restored => launchd = EnabledLoaded

\* ... and a job that does not run is in the journal, whoever died.
StoppedIsOnRecord ==
  launchd # EnabledLoaded => \E i \in Requests : journal[i] \notin {"none", "rolled_back"}

JournalIInv == FleetTypeOK /\ LockIsTheSweeps /\ WorkIsRecorded /\ StoppedIsOnRecord

\* The invariant holds before the first request.
LEMMA JournalStart == FleetInit => JournalIInv
<1> SUFFICES ASSUME FleetInit PROVE JournalIInv
  OBVIOUS
<1>1. IdleSweep \in SweepRecord /\ IdleSweep.pc = "idle"
  BY DEF IdleSweep, SweepRecord
<1>2. EnabledLoaded \in [disabled : BOOLEAN, loaded : BOOLEAN]
  BY DEF EnabledLoaded
<1>3. [status |-> "absent", reason |-> "none", overdue |-> FALSE, recent |-> FALSE] \in Row
  BY DEF Row
<1>4. FleetTypeOK
  BY <1>1, <1>2, <1>3, FaultsAssumption DEF FleetInit, FleetTypeOK, JournalState
<1>5. LockIsTheSweeps /\ WorkIsRecorded /\ StoppedIsOnRecord
  BY <1>1 DEF FleetInit, LockIsTheSweeps, WorkIsRecorded, StoppedIsOnRecord, InTransaction, At
<1> QED  BY <1>4, <1>5 DEF JournalIInv

\* A step of a sweep, and one that stays in its transaction.
Moves(s) ==
  /\ sweep' \in [Sweeps -> SweepRecord]
  /\ \A t \in Sweeps \ {s} : sweep'[t] = sweep[t]

Stays(s) ==
  Moves(s) /\ sweep'[s].item = sweep[s].item /\ sweep'[s].seen = sweep[s].seen

Pcs == {"idle", "lock", "intent", "disable", "bootout", "record", "decide",
        "failed", "enable", "bootstrap", "unwound"}

\* A sweep that goes on keeps its row ...
LEMMA GoesToStays ==
  ASSUME FleetTypeOK, NEW s \in Sweeps, NEW pc \in Pcs, GoesTo(s, pc)
  PROVE  Stays(s) /\ sweep'[s].pc = pc /\ sweep'[s].restored = sweep[s].restored
<1>1. sweep \in [Sweeps -> SweepRecord] /\ sweep[s] \in SweepRecord
  BY DEF FleetTypeOK
<1> DEFINE r == [sweep[s] EXCEPT !.pc = pc]
<1>2. /\ r \in SweepRecord /\ r.pc = pc /\ r.item = sweep[s].item
      /\ r.seen = sweep[s].seen /\ r.restored = sweep[s].restored
  BY <1>1 DEF SweepRecord, Pcs
<1>3. sweep' = [sweep EXCEPT ![s] = r]
  BY <1>1 DEF GoesTo
<1> HIDE DEF r
<1> QED  BY <1>1, <1>2, <1>3 DEF Stays, Moves

\* ... as does one that has tried to restore the job ...
LEMMA UnwoundStays ==
  ASSUME FleetTypeOK, NEW s \in Sweeps, NEW b \in BOOLEAN, Unwound(s, b)
  PROVE  Stays(s) /\ sweep'[s].pc = "unwound" /\ sweep'[s].restored = b
<1>1. sweep \in [Sweeps -> SweepRecord] /\ sweep[s] \in SweepRecord
  BY DEF FleetTypeOK
<1> DEFINE r == [sweep[s] EXCEPT !.pc = "unwound", !.restored = b]
<1>2. /\ r \in SweepRecord /\ r.pc = "unwound" /\ r.item = sweep[s].item
      /\ r.seen = sweep[s].seen /\ r.restored = b
  BY <1>1 DEF SweepRecord
<1>3. sweep' = [sweep EXCEPT ![s] = r]
  BY <1>1 DEF Unwound
<1> HIDE DEF r
<1> QED  BY <1>1, <1>2, <1>3 DEF Stays, Moves

\* ... and one that ends is idle.
LEMMA IdleMoves ==
  ASSUME FleetTypeOK, NEW s \in Sweeps, sweep' = [sweep EXCEPT ![s] = IdleSweep]
  PROVE  Moves(s) /\ sweep'[s].pc = "idle"
<1>1. IdleSweep \in SweepRecord /\ IdleSweep.pc = "idle"
  BY DEF IdleSweep, SweepRecord
<1> QED  BY <1>1 DEF FleetTypeOK, Moves

\* Whether a step keeps the invariant, from what it does to the lock, the job and the
\* journal.
LEMMA MoveKeeps ==
  ASSUME JournalIInv, NEW s \in Sweeps, Moves(s),
         rows' \in [Requests -> Row],
         journal' \in [Requests -> JournalState],
         launchd' \in [disabled : BOOLEAN, loaded : BOOLEAN],
         faults' \in 0 .. MaxFaults,
         incidents' \subseteq Requests,
         holder' \in Sweeps \union {None},
         holder \in {None, s} \/ UNCHANGED <<holder, journal, launchd>>,
         UNCHANGED <<journal, launchd>> \/ holder = s,
         InTransaction(s)' => holder' = s,
         ~At(s, "idle")' =>
           /\ sweep'[s].item \in Requests
           /\ InTransaction(s)' /\ ~At(s, "intent")' =>
                journal'[sweep'[s].item] \in {"intent", "disabled"}
           /\ At(s, "record")' => launchd' = DisabledUnloaded
           /\ At(s, "decide")' => launchd' = DisabledUnloaded
                                  /\ journal'[sweep'[s].item] = "disabled"
           /\ At(s, "unwound")' /\ sweep'[s].restored => launchd' = EnabledLoaded,
         StoppedIsOnRecord'
  PROVE  JournalIInv'
<1>1. FleetTypeOK'
  BY DEF FleetTypeOK, Moves
<1>2. \A t \in Sweeps \ {s} : InTransaction(t) => UNCHANGED <<holder, journal, launchd>>
  BY NoneAssumption DEF JournalIInv, LockIsTheSweeps
<1>3. \A t \in Sweeps \ {s} : sweep'[t] = sweep[t]
  BY DEF Moves
<1>4. LockIsTheSweeps'
  BY <1>2, <1>3 DEF JournalIInv, LockIsTheSweeps, InTransaction
<1>5. WorkIsRecorded'
  <2> SUFFICES ASSUME NEW t \in Sweeps, t # s, ~At(t, "idle")'
               PROVE  /\ sweep'[t].item \in Requests
                      /\ InTransaction(t)' /\ ~At(t, "intent")' =>
                           journal'[sweep'[t].item] \in {"intent", "disabled"}
                      /\ At(t, "record")' => launchd' = DisabledUnloaded
                      /\ At(t, "decide")' => launchd' = DisabledUnloaded
                                             /\ journal'[sweep'[t].item] = "disabled"
                      /\ At(t, "unwound")' /\ sweep'[t].restored => launchd' = EnabledLoaded
    BY DEF WorkIsRecorded
  <2> QED  BY <1>2, <1>3 DEF JournalIInv, WorkIsRecorded, InTransaction, At
<1> QED  BY <1>1, <1>4, <1>5 DEF JournalIInv

Launchd == [disabled : BOOLEAN, loaded : BOOLEAN]

\* What a write of a row's entry leaves of the journal.
LEMMA RecordWrites ==
  ASSUME FleetTypeOK, NEW s \in Sweeps, NEW x \in JournalState,
         sweep[s].item \in Requests, Record(s, x)
  PROVE  /\ journal' \in [Requests -> JournalState] /\ journal'[sweep[s].item] = x
         /\ \A i \in Requests : i # sweep[s].item => journal'[i] = journal[i]
BY DEF FleetTypeOK, Record

\* The steps that begin and end a transaction.
LEMMA EdgesKeep ==
  ASSUME JournalIInv, NEW s \in Sweeps,
         \/ LockJournal(s) \/ RecordIntent(s) \/ RecordFailed(s) \/ RecordUnwound(s)
         \/ Decide(s) \/ SweepDies(s)
  PROVE  JournalIInv'
<1>1. /\ FleetTypeOK /\ LockIsTheSweeps /\ WorkIsRecorded /\ StoppedIsOnRecord
      /\ rows \in [Requests -> Row] /\ journal \in [Requests -> JournalState]
      /\ launchd \in Launchd /\ faults \in 0 .. MaxFaults /\ incidents \subseteq Requests
      /\ holder \in Sweeps \union {None} /\ sweep[s] \in SweepRecord
  BY DEF JournalIInv, FleetTypeOK, Launchd
<1>2. ASSUME Fault PROVE faults' \in 0 .. MaxFaults
  BY <1>1, <1>2, FaultsAssumption DEF Fault
<1>3. /\ InTransaction(s) => holder = s
      /\ ~At(s, "idle") => sweep[s].item \in Requests
  BY <1>1 DEF LockIsTheSweeps, WorkIsRecorded
<1>4. CASE LockJournal(s)
  <2>1. /\ UNCHANGED <<rows, journal, launchd, incidents, faults>> /\ At(s, "lock")
        /\ \/ holder = None /\ holder' = s /\ GoesTo(s, "intent")
           \/ sweep' = [sweep EXCEPT ![s] = IdleSweep] /\ UNCHANGED holder
    BY <1>4 DEF LockJournal
  <2>2. /\ Moves(s)
        /\ \/ holder = None /\ holder' = s /\ sweep'[s].pc = "intent"
                /\ sweep'[s].item = sweep[s].item
           \/ sweep'[s].pc = "idle" /\ UNCHANGED holder
    BY <1>1, <2>1, IdleMoves, GoesToStays DEF Stays, Pcs
  <2>3. StoppedIsOnRecord'
    BY <1>1, <2>1 DEF StoppedIsOnRecord
  <2> QED  BY <1>1, <1>3, <2>1, <2>2, <2>3, MoveKeeps DEF InTransaction, At, Launchd
<1>5. CASE RecordIntent(s)
  <2>1. /\ UNCHANGED <<rows, launchd, incidents>> /\ At(s, "intent") /\ holder = s
        /\ \/ Record(s, "intent") /\ GoesTo(s, "disable") /\ UNCHANGED <<holder, faults>>
           \/ Fault /\ Leaves(s) /\ UNCHANGED journal
    BY <1>3, <1>5 DEF RecordIntent, InTransaction, At
  <2>2. CASE Record(s, "intent") /\ GoesTo(s, "disable") /\ UNCHANGED <<holder, faults>>
    <3>1. Stays(s) /\ sweep'[s].pc = "disable" /\ "intent" \in JournalState
      BY <1>1, <2>2, GoesToStays DEF Pcs, JournalState
    <3>2. /\ journal' \in [Requests -> JournalState] /\ journal'[sweep[s].item] = "intent"
          /\ sweep[s].item \in Requests
      BY <1>1, <1>3, <2>1, <2>2, <3>1, RecordWrites DEF At
    <3>3. StoppedIsOnRecord'
      BY <3>2 DEF StoppedIsOnRecord
    <3> QED
      BY <1>1, <2>1, <2>2, <3>1, <3>2, <3>3, MoveKeeps DEF InTransaction, At, Stays, Launchd
  <2>3. CASE Fault /\ Leaves(s) /\ UNCHANGED journal
    <3>1. Moves(s) /\ sweep'[s].pc = "idle" /\ holder' = None /\ faults' \in 0 .. MaxFaults
      BY <1>1, <1>2, <2>3, IdleMoves DEF Leaves
    <3>2. StoppedIsOnRecord'
      BY <1>1, <2>1, <2>3 DEF StoppedIsOnRecord
    <3> QED  BY <1>1, <2>1, <2>3, <3>1, <3>2, MoveKeeps DEF InTransaction, At, Launchd
  <2> QED  BY <2>1, <2>2, <2>3
<1>6. CASE RecordFailed(s)
  <2>1. /\ UNCHANGED <<rows, launchd, incidents>> /\ At(s, "failed") /\ holder = s
        /\ Moves(s) /\ sweep'[s].pc = "idle" /\ holder' = None
    BY <1>1, <1>3, <1>6, IdleMoves DEF RecordFailed, InTransaction, At, Leaves
  <2>2. /\ journal' \in [Requests -> JournalState] /\ faults' \in 0 .. MaxFaults
        /\ sweep[s].item \in Requests
        /\ UNCHANGED journal \/ journal'[sweep[s].item] = "failed"
    <3>1. "failed" \in JournalState
      BY DEF JournalState
    <3> QED  BY <1>1, <1>2, <1>3, <1>6, <2>1, <3>1, RecordWrites DEF RecordFailed, At
  <2>3. StoppedIsOnRecord'
    BY <1>1, <2>1, <2>2 DEF StoppedIsOnRecord
  <2> QED  BY <1>1, <2>1, <2>2, <2>3, MoveKeeps DEF InTransaction, At, Launchd
<1>7. CASE RecordUnwound(s)
  <2>1. /\ UNCHANGED <<rows, launchd>> /\ At(s, "unwound") /\ holder = s
        /\ Moves(s) /\ sweep'[s].pc = "idle" /\ holder' = None
        /\ sweep[s].item \in Requests
    BY <1>1, <1>3, <1>7, IdleMoves DEF RecordUnwound, InTransaction, At, Leaves
  <2>2. /\ journal' \in [Requests -> JournalState] /\ faults' \in 0 .. MaxFaults
        /\ incidents' \subseteq Requests
        /\ \/ UNCHANGED journal
           \/ journal'[sweep[s].item] = "rolled_back" /\ sweep[s].restored
           \/ journal'[sweep[s].item] = "rollback_failed"
    <3>1. "rolled_back" \in JournalState /\ "rollback_failed" \in JournalState
      BY DEF JournalState
    <3>2. CASE Fault
      BY <1>1, <1>2, <1>7, <2>1, <3>1, <3>2, RecordWrites DEF RecordUnwound
    <3>3. CASE Record(s, IF sweep[s].restored THEN "rolled_back" ELSE "rollback_failed")
                 /\ UNCHANGED <<incidents, faults>>
      <4>1. CASE sweep[s].restored
        BY <1>1, <2>1, <3>1, <3>3, <4>1, RecordWrites
      <4>2. CASE ~sweep[s].restored
        BY <1>1, <2>1, <3>1, <3>3, <4>2, RecordWrites
      <4> QED  BY <4>1, <4>2
    <3> QED  BY <1>7, <3>2, <3>3 DEF RecordUnwound
  <2>3. sweep[s].restored => launchd = EnabledLoaded
    BY <1>1, <2>1 DEF WorkIsRecorded, At
  <2>4. StoppedIsOnRecord'
    BY <1>1, <2>1, <2>2, <2>3 DEF StoppedIsOnRecord
  <2> QED  BY <1>1, <2>1, <2>2, <2>4, MoveKeeps DEF InTransaction, At, Launchd
<1>8. CASE Decide(s)
  <2>1. /\ UNCHANGED <<journal, launchd, incidents>> /\ At(s, "decide") /\ holder = s
        /\ sweep[s].item \in Requests /\ journal[sweep[s].item] \in {"intent", "disabled"}
    BY <1>1, <1>3, <1>8 DEF Decide, InTransaction, At, WorkIsRecorded
  <2>2. StoppedIsOnRecord'
    BY <1>1, <2>1 DEF StoppedIsOnRecord
  <2>3. CASE Leaves(s)
    <3>1. Moves(s) /\ sweep'[s].pc = "idle" /\ holder' = None
      BY <1>1, <2>3, IdleMoves DEF Leaves
    <3>2. rows' \in [Requests -> Row]
      <4>1. CASE rows' = Decided(sweep[s].item, "done", "human")
        BY <1>1, <4>1 DEF Decided, Row
      <4>2. CASE rows' = Decided(sweep[s].item, "retired", "silence")
        BY <1>1, <4>2 DEF Decided, Row
      <4> QED  BY <1>1, <1>8, <4>1, <4>2 DEF Decide
    <3>3. faults' \in 0 .. MaxFaults
      BY <1>1, <1>2, <1>8 DEF Decide
    <3> QED  BY <1>1, <2>1, <2>2, <3>1, <3>2, <3>3, MoveKeeps DEF InTransaction, At, Launchd
  <2>4. CASE GoesTo(s, "enable") /\ UNCHANGED <<rows, holder>>
    <3>1. Stays(s) /\ sweep'[s].pc = "enable"
      BY <1>1, <2>4, GoesToStays DEF Pcs
    <3>2. faults' \in 0 .. MaxFaults
      BY <1>1, <1>2, <1>8 DEF Decide
    <3> QED
      BY <1>1, <2>1, <2>2, <2>4, <3>1, <3>2, MoveKeeps DEF InTransaction, At, Stays, Launchd
  <2> QED  BY <1>8, <2>3, <2>4 DEF Decide
<1>9. CASE SweepDies(s)
  <2>1. /\ UNCHANGED <<rows, journal, launchd, incidents>> /\ faults' \in 0 .. MaxFaults
        /\ Moves(s) /\ sweep'[s].pc = "idle"
        /\ \/ holder = s /\ holder' = None
           \/ UNCHANGED holder
    BY <1>1, <1>2, <1>9, IdleMoves DEF SweepDies
  <2>2. StoppedIsOnRecord'
    BY <1>1, <2>1 DEF StoppedIsOnRecord
  <2> QED  BY <1>1, <2>1, <2>2, MoveKeeps DEF InTransaction, At, Launchd
<1> QED  BY <1>4, <1>5, <1>6, <1>7, <1>8, <1>9

\* The calls of launchctl and the write of their outcome.
LEMMA CallsKeep ==
  ASSUME JournalIInv, NEW s \in Sweeps,
         Disable(s) \/ Bootout(s) \/ RecordDisabled(s) \/ Enable(s) \/ Bootstrap(s)
  PROVE  JournalIInv'
<1>1. /\ FleetTypeOK /\ LockIsTheSweeps /\ WorkIsRecorded /\ StoppedIsOnRecord
      /\ rows \in [Requests -> Row] /\ journal \in [Requests -> JournalState]
      /\ launchd \in Launchd /\ faults \in 0 .. MaxFaults /\ incidents \subseteq Requests
      /\ holder \in Sweeps \union {None} /\ sweep[s] \in SweepRecord
  BY DEF JournalIInv, FleetTypeOK, Launchd
<1>2. ASSUME Fault PROVE faults' \in 0 .. MaxFaults
  BY <1>1, <1>2, FaultsAssumption DEF Fault
<1>3. /\ EnabledLoaded \in Launchd /\ DisabledUnloaded \in Launchd
      /\ \A l \in Launchd, b \in BOOLEAN : [l EXCEPT !.disabled = b] \in Launchd
  BY DEF EnabledLoaded, DisabledUnloaded, Launchd
<1>4. /\ UNCHANGED <<rows, incidents, holder>> /\ holder = s
      /\ sweep[s].item \in Requests /\ journal[sweep[s].item] \in {"intent", "disabled"}
  BY <1>1 DEF Disable, Bootout, RecordDisabled, Enable, Bootstrap, InTransaction, At,
     LockIsTheSweeps, WorkIsRecorded
<1>5. ASSUME UNCHANGED journal, launchd' \in Launchd, faults' \in 0 .. MaxFaults, Stays(s),
             \/ sweep'[s].pc \in {"bootout", "failed", "enable", "bootstrap"}
             \/ sweep'[s].pc = "record" /\ launchd' = DisabledUnloaded
             \/ sweep'[s].pc = "unwound" /\ (sweep'[s].restored => launchd' = EnabledLoaded)
      PROVE  JournalIInv'
  <2>1. StoppedIsOnRecord'
    BY <1>4, <1>5 DEF StoppedIsOnRecord
  <2> QED  BY <1>1, <1>4, <1>5, <2>1, MoveKeeps DEF InTransaction, At, Stays, Launchd
<1>6. CASE Disable(s)
  <2>1. /\ UNCHANGED journal /\ launchd' \in Launchd /\ faults' \in 0 .. MaxFaults
    BY <1>1, <1>2, <1>3, <1>6 DEF Disable
  <2>2. \/ GoesTo(s, "bootout") \/ GoesTo(s, "failed") \/ GoesTo(s, "enable")
        \/ GoesTo(s, "record") /\ launchd' = DisabledUnloaded
    BY <1>6 DEF Disable
  <2>3. /\ Stays(s)
        /\ \/ sweep'[s].pc \in {"bootout", "failed", "enable"}
           \/ sweep'[s].pc = "record" /\ launchd' = DisabledUnloaded
    BY <1>1, <2>2, GoesToStays DEF Pcs
  <2> QED  BY <1>5, <2>1, <2>3
<1>7. CASE Bootout(s)
  <2>1. /\ UNCHANGED journal /\ launchd' \in Launchd /\ faults' \in 0 .. MaxFaults
    BY <1>1, <1>2, <1>3, <1>7 DEF Bootout
  <2>2. \/ GoesTo(s, "enable")
        \/ GoesTo(s, "record") /\ launchd' = DisabledUnloaded
    BY <1>7 DEF Bootout
  <2>3. /\ Stays(s)
        /\ \/ sweep'[s].pc = "enable"
           \/ sweep'[s].pc = "record" /\ launchd' = DisabledUnloaded
    BY <1>1, <2>2, GoesToStays DEF Pcs
  <2> QED  BY <1>5, <2>1, <2>3
<1>8. CASE Enable(s)
  <2>1. /\ UNCHANGED journal /\ launchd' \in Launchd /\ faults' \in 0 .. MaxFaults
    BY <1>1, <1>2, <1>3, <1>8 DEF Enable
  <2>2. GoesTo(s, "bootstrap") \/ Unwound(s, FALSE)
    BY <1>8 DEF Enable
  <2>3. /\ Stays(s)
        /\ \/ sweep'[s].pc = "bootstrap"
           \/ sweep'[s].pc = "unwound" /\ sweep'[s].restored = FALSE
    BY <1>1, <2>2, GoesToStays, UnwoundStays DEF Pcs
  <2> QED  BY <1>5, <2>1, <2>3
<1>9. CASE Bootstrap(s)
  <2>1. /\ UNCHANGED journal /\ launchd' \in Launchd /\ faults' \in 0 .. MaxFaults
    BY <1>1, <1>2, <1>3, <1>9 DEF Bootstrap
  <2>2. PICK b \in BOOLEAN : Unwound(s, b) /\ (b => launchd' = EnabledLoaded)
    BY <1>9 DEF Bootstrap
  <2>3. Stays(s) /\ sweep'[s].pc = "unwound" /\ sweep'[s].restored = b
    BY <1>1, <2>2, UnwoundStays
  <2> QED  BY <1>5, <2>1, <2>2, <2>3
<1>10. CASE RecordDisabled(s)
  <2>1. /\ UNCHANGED launchd /\ faults' \in 0 .. MaxFaults /\ launchd = DisabledUnloaded
    BY <1>1, <1>2, <1>10 DEF RecordDisabled, WorkIsRecorded, At
  <2>2. CASE Record(s, "disabled") /\ GoesTo(s, "decide")
    <3>1. Stays(s) /\ sweep'[s].pc = "decide" /\ "disabled" \in JournalState
      BY <1>1, <2>2, GoesToStays DEF Pcs, JournalState
    <3>2. journal' \in [Requests -> JournalState] /\ journal'[sweep[s].item] = "disabled"
      BY <1>1, <1>4, <2>2, <3>1, RecordWrites
    <3>3. StoppedIsOnRecord'
      BY <1>4, <3>2 DEF StoppedIsOnRecord
    <3> QED
      BY <1>1, <1>4, <2>1, <3>1, <3>2, <3>3, MoveKeeps DEF InTransaction, At, Stays, Launchd
  <2>3. CASE GoesTo(s, "enable") /\ UNCHANGED journal
    <3>1. Stays(s) /\ sweep'[s].pc = "enable"
      BY <1>1, <2>3, GoesToStays DEF Pcs
    <3> QED  BY <1>1, <1>5, <2>1, <2>3, <3>1
  <2> QED  BY <1>10, <2>2, <2>3 DEF RecordDisabled
<1> QED  BY <1>6, <1>7, <1>8, <1>9, <1>10

\* The steps of the queue, and the one that takes a row.
LEMMA RowsKeep ==
  ASSUME JournalIInv, NEW i \in Requests,
         \/ EnqueueFleetHitl(i) \/ HumanReviews(i) \/ DaysPass(i) \/ SweepExpires(i)
         \/ \E s \in Sweeps : BeginRetirement(s, i)
  PROVE  JournalIInv'
<1>1. FleetTypeOK /\ rows \in [Requests -> Row] /\ rows[i] \in Row
  BY DEF JournalIInv, FleetTypeOK
<1>2. CASE \E s \in Sweeps : BeginRetirement(s, i)
  <2>1. PICK s \in Sweeps : BeginRetirement(s, i)
    BY <1>2
  <2> DEFINE r == [pc |-> "lock", item |-> i, seen |-> rows[i].status, restored |-> FALSE]
  <2>2. /\ sweep' = [sweep EXCEPT ![s] = r]
        /\ UNCHANGED <<rows, journal, launchd, holder, incidents, faults>>
    BY <2>1 DEF BeginRetirement
  <2>3. r \in SweepRecord /\ r.pc = "lock" /\ r.item = i
    BY <2>1 DEF BeginRetirement, SweepRecord, Due
  <2> HIDE DEF r
  <2>4. Moves(s) /\ sweep'[s].pc = "lock" /\ sweep'[s].item = i
    BY <1>1, <2>2, <2>3 DEF FleetTypeOK, Moves
  <2>5. StoppedIsOnRecord'
    BY <2>2 DEF JournalIInv, StoppedIsOnRecord
  <2> QED  BY <1>1, <2>2, <2>4, <2>5, MoveKeeps DEF FleetTypeOK, InTransaction, At
<1>3. CASE EnqueueFleetHitl(i) \/ HumanReviews(i) \/ DaysPass(i) \/ SweepExpires(i)
  <2>1. UNCHANGED <<journal, launchd, holder, sweep, incidents, faults>>
    BY <1>3 DEF EnqueueFleetHitl, HumanReviews, DaysPass, SweepExpires
  <2>2. rows' \in [Requests -> Row]
    <3>1. /\ [rows[i] EXCEPT !.status = "pending"] \in Row
          /\ \A b \in BOOLEAN : [rows[i] EXCEPT !.overdue = b] \in Row
                              /\ [rows[i] EXCEPT !.recent = b] \in Row
      BY <1>1 DEF Row
    <3>2. \A x \in {"approved", "rejected", "expired", "retired"}, y \in {"human", "silence"} :
            Decided(i, x, y) \in [Requests -> Row]
      BY <1>1 DEF Decided, Row
    <3>3. EnqueueFleetHitl(i) => rows' = [rows EXCEPT ![i] = [rows[i] EXCEPT !.status = "pending"]]
      BY <1>1 DEF EnqueueFleetHitl
    <3>4. DaysPass(i) => \/ rows' = [rows EXCEPT ![i] = [rows[i] EXCEPT !.overdue = TRUE]]
                         \/ rows' = [rows EXCEPT ![i] = [rows[i] EXCEPT !.recent = FALSE]]
      BY <1>1 DEF DaysPass
    <3>5. CASE EnqueueFleetHitl(i) \/ DaysPass(i)
      BY <1>1, <3>1, <3>3, <3>4, <3>5
    <3>6. CASE HumanReviews(i) \/ SweepExpires(i)
      BY <3>2, <3>6 DEF HumanReviews, SweepExpires
    <3> QED  BY <1>3, <3>5, <3>6
  <2> QED  BY <2>1, <2>2 DEF JournalIInv, FleetTypeOK, LockIsTheSweeps, WorkIsRecorded,
              StoppedIsOnRecord, InTransaction, At
<1> QED  BY <1>2, <1>3

\* Every step keeps the invariant.
LEMMA JournalStepKeeps == JournalIInv /\ [FleetNext]_fleetVars => JournalIInv'
<1> SUFFICES ASSUME JournalIInv, [FleetNext]_fleetVars PROVE JournalIInv'
  OBVIOUS
<1>1. CASE UNCHANGED fleetVars
  BY <1>1 DEF fleetVars, JournalIInv, FleetTypeOK, LockIsTheSweeps, WorkIsRecorded,
     StoppedIsOnRecord, InTransaction, At
<1>2. CASE FleetNext
  BY <1>2, RowsKeep, EdgesKeep, CallsKeep DEF FleetNext, SweepStep
<1> QED  BY <1>1, <1>2

\* The invariant holds in every behaviour, with any number of sweeps.
LEMMA JournalAlways == FleetSpec => []JournalIInv
BY JournalStart, JournalStepKeeps, PTL DEF FleetSpec

\* With any number of sweeps, any interleaving and any failure: when the journal says
\* of every attempt that it was rolled back, the job runs
\* (bin/hitl_alerts.py:976-1198).
THEOREM RolledBackJobsRun == FleetSpec => []RolledBackRuns
<1>1. JournalIInv => RolledBackRuns
  BY DEF JournalIInv, StoppedIsOnRecord, RolledBackRuns
<1> QED  BY <1>1, JournalAlways, PTL

Open(i) == rows[i].status \in {"pending", "approved"}

\* One row is open at a time, and none is when one is settled ...
OneIsOpen ==
  /\ \A i, j \in Requests : Open(i) /\ Open(j) => i = j
  /\ \A i, j \in Requests : Open(i) => ~SettledRow(j)

\* ... the row a sweep acts on still stands for the job ...
RowStandsForTheJob ==
  \A s \in Sweeps : ~At(s, "idle") =>
    /\ Open(sweep[s].item) \/ rows[sweep[s].item].recent
    /\ \A j \in Requests : Open(j) => j = sweep[s].item
    /\ \A j \in Requests : ~SettledRow(j)
    /\ sweep[s].seen \in {"approved", "pending"}
    /\ sweep[s].seen = "approved" => rows[sweep[s].item].status = "approved"

\* ... and what is settled stays disabled, in the journal too.
SettledIsOnRecord ==
  \A i \in Requests : SettledRow(i) => launchd = DisabledUnloaded /\ journal[i] = "disabled"

FleetIInv == JournalIInv /\ OneIsOpen /\ RowStandsForTheJob /\ SettledIsOnRecord

\* The invariant holds before the first request.
LEMMA FleetStart == FleetInit => FleetIInv
<1> SUFFICES ASSUME FleetInit PROVE FleetIInv
  OBVIOUS
<1>1. \A i \in Requests : ~Open(i) /\ ~SettledRow(i)
  BY DEF FleetInit, Open, SettledRow
<1>2. \A s \in Sweeps : At(s, "idle")
  BY DEF FleetInit, IdleSweep, At
<1> QED
  BY <1>1, <1>2, JournalStart DEF FleetIInv, OneIsOpen, RowStandsForTheJob, SettledIsOnRecord

\* One sweep at a time: launchd does not start a job that runs.
OneSweep == \A s, t \in Sweeps : s = t

\* What becomes of a row that is decided.
LEMMA DecidedRow ==
  ASSUME FleetTypeOK, NEW i \in Requests, NEW x, NEW y, rows' = Decided(i, x, y)
  PROVE  /\ rows'[i].status = x /\ rows'[i].reason = y
         /\ rows'[i].recent = (x /= "approved")
         /\ \A j \in Requests : j # i => rows'[j] = rows[j]
BY DEF FleetTypeOK, Decided

\* The steps of the queue.
LEMMA QueueKeeps ==
  ASSUME OneSweep, FleetIInv, JournalIInv', NEW i \in Requests,
         EnqueueFleetHitl(i) \/ HumanReviews(i) \/ DaysPass(i) \/ SweepExpires(i)
  PROVE  FleetIInv'
<1>1. /\ FleetTypeOK /\ WorkIsRecorded /\ OneIsOpen /\ RowStandsForTheJob
      /\ SettledIsOnRecord /\ rows \in [Requests -> Row]
      /\ \A s \in Sweeps : ~At(s, "idle") => sweep[s].item \in Requests
  BY DEF FleetIInv, JournalIInv, FleetTypeOK, WorkIsRecorded
<1>2. UNCHANGED <<journal, launchd, holder, sweep, incidents, faults>>
  BY DEF EnqueueFleetHitl, HumanReviews, DaysPass, SweepExpires
<1>3. CASE EnqueueFleetHitl(i)
  <2>1. /\ rows' = [rows EXCEPT ![i] = [rows[i] EXCEPT !.status = "pending"]]
        /\ launchd.loaded /\ rows[i].status = "absent"
        /\ \A j \in Requests : ~Open(j) /\ ~rows[j].recent
    BY <1>1, <1>3 DEF EnqueueFleetHitl, Open
  <2>2. \A j \in Requests : ~SettledRow(j)
    BY <1>1, <2>1 DEF SettledIsOnRecord, DisabledUnloaded
  <2>3. \A s \in Sweeps : At(s, "idle")
    BY <1>1, <2>1 DEF RowStandsForTheJob
  <2>4. \A j \in Requests : rows'[j] = IF j = i THEN [rows[i] EXCEPT !.status = "pending"]
                                       ELSE rows[j]
    BY <1>1, <2>1
  <2>5. rows'[i].status = "pending"
    BY <1>1, <2>4 DEF Row
  <2>6. \A j \in Requests : ~SettledRow(j)'
    BY <2>2, <2>4, <2>5 DEF SettledRow
  <2>7. \A j \in Requests : Open(j)' => j = i
    BY <2>1, <2>4 DEF Open
  <2> QED  BY <1>2, <2>3, <2>6, <2>7
           DEF FleetIInv, OneIsOpen, RowStandsForTheJob, SettledIsOnRecord, At
<1>4. CASE DaysPass(i)
  <2>1. PICK r \in {[rows[i] EXCEPT !.overdue = TRUE], [rows[i] EXCEPT !.recent = FALSE]} :
          rows' = [rows EXCEPT ![i] = r]
    BY <1>1, <1>4 DEF DaysPass
  <2>2. r.status = rows[i].status /\ r.reason = rows[i].reason
    BY <1>1, <2>1 DEF Row
  <2>3. \A j \in Requests : rows'[j].status = rows[j].status /\ rows'[j].reason = rows[j].reason
    BY <1>1, <2>1, <2>2
  <2>4. \A j \in Requests : (SettledRow(j)' <=> SettledRow(j)) /\ (Open(j)' <=> Open(j))
    BY <2>3 DEF SettledRow, Open
  <2>5. \A s \in Sweeps : ~At(s, "idle") => UNCHANGED rows[sweep[s].item].recent
    <3>1. CASE rows' = [rows EXCEPT ![i].overdue = TRUE]
      BY <1>1, <1>2, <3>1 DEF Row
    <3>2. CASE \A s \in Sweeps : At(s, "idle")
      BY <3>2
    <3> QED  BY <1>4, <3>1, <3>2 DEF DaysPass, At
  <2> QED  BY <1>1, <1>2, <2>3, <2>4, <2>5
           DEF FleetIInv, OneIsOpen, RowStandsForTheJob, SettledIsOnRecord, At
<1>5. CASE HumanReviews(i) \/ SweepExpires(i)
  <2>1. PICK x \in {"approved", "rejected", "expired", "retired"}, y \in {"human", "silence"} :
          /\ rows' = Decided(i, x, y)
          /\ y = "silence" => x = "expired"
          /\ rows[i].status = "pending" \/ (rows[i].status = "expired" /\ x = "retired")
    BY <1>5 DEF HumanReviews, SweepExpires, Due
  <2>2. /\ rows'[i].status = x /\ rows'[i].reason = y /\ rows'[i].recent = (x /= "approved")
        /\ \A j \in Requests : j # i => rows'[j] = rows[j]
    BY <1>1, <2>1, DecidedRow
  <2>3. Open(i)' => Open(i)
    BY <2>1, <2>2 DEF Open
  <2>4. \A j \in Requests : Open(j)' => Open(j)
    BY <2>2, <2>3 DEF Open
  <2>5. ~SettledRow(i)' /\ \A j \in Requests : SettledRow(j)' => SettledRow(j)
    BY <2>1, <2>2 DEF SettledRow
  <2>6. OneIsOpen'
    BY <1>1, <2>4, <2>5 DEF OneIsOpen
  <2>7. SettledIsOnRecord'
    BY <1>1, <1>2, <2>5 DEF SettledIsOnRecord
  <2>8. RowStandsForTheJob'
    <3> SUFFICES ASSUME NEW s \in Sweeps, ~At(s, "idle")
                 PROVE  /\ Open(sweep[s].item)' \/ rows'[sweep[s].item].recent
                        /\ \A j \in Requests : Open(j)' => j = sweep[s].item
                        /\ \A j \in Requests : ~SettledRow(j)'
                        /\ sweep[s].seen \in {"approved", "pending"}
                        /\ sweep[s].seen = "approved" =>
                             rows'[sweep[s].item].status = "approved"
      BY <1>2 DEF RowStandsForTheJob, At, Open
    <3>1. /\ sweep[s].item \in Requests
          /\ Open(sweep[s].item) \/ rows[sweep[s].item].recent
          /\ \A j \in Requests : Open(j) => j = sweep[s].item
          /\ \A j \in Requests : ~SettledRow(j)
          /\ sweep[s].seen \in {"approved", "pending"}
          /\ sweep[s].seen = "approved" => rows[sweep[s].item].status = "approved"
      BY <1>1 DEF RowStandsForTheJob
    <3>2. Open(sweep[s].item)' \/ rows'[sweep[s].item].recent
      <4>1. CASE sweep[s].item = i
        BY <1>2, <2>2, <4>1 DEF Open
      <4>2. CASE sweep[s].item # i
        BY <1>2, <2>2, <3>1, <4>2 DEF Open
      <4> QED  BY <4>1, <4>2
    <3>3. sweep[s].seen = "approved" => sweep[s].item # i
      BY <2>1, <3>1
    <3> QED  BY <2>2, <2>4, <2>5, <3>1, <3>2, <3>3
  <2> QED  BY <2>6, <2>7, <2>8 DEF FleetIInv
<1> QED  BY <1>3, <1>4, <1>5

\* The steps of the sweep.
LEMMA SweepKeeps ==
  ASSUME OneSweep, FleetIInv, JournalIInv', NEW s \in Sweeps,
         SweepStep(s) \/ SweepDies(s) \/ \E i \in Requests : BeginRetirement(s, i)
  PROVE  FleetIInv'
<1>1. /\ FleetTypeOK /\ WorkIsRecorded /\ OneIsOpen /\ RowStandsForTheJob
      /\ SettledIsOnRecord /\ rows \in [Requests -> Row] /\ Sweeps = {s}
      /\ sweep \in [Sweeps -> SweepRecord]
  BY DEF FleetIInv, JournalIInv, FleetTypeOK, OneSweep
<1>2. CASE \E i \in Requests : BeginRetirement(s, i)
  <2>1. PICK i \in Requests : BeginRetirement(s, i)
    BY <1>2
  <2>2. /\ sweep' = [sweep EXCEPT ![s] = [pc |-> "lock", item |-> i, seen |-> rows[i].status,
                                           restored |-> FALSE]]
        /\ UNCHANGED <<rows, journal, launchd>> /\ Open(i)
        /\ rows[i].status \in {"approved", "pending"}
    BY <2>1 DEF BeginRetirement, Open, Due
  <2>3. sweep'[s].item = i /\ sweep'[s].seen = rows[i].status
    BY <1>1, <2>2
  <2>4. RowStandsForTheJob'
    BY <1>1, <2>2, <2>3 DEF RowStandsForTheJob, OneIsOpen, Open, SettledRow
  <2> QED  BY <1>1, <2>2, <2>4 DEF FleetIInv, OneIsOpen, SettledIsOnRecord, Open, SettledRow
<1>3. ASSUME ~At(s, "idle"), UNCHANGED rows, Stays(s) \/ sweep'[s].pc = "idle"
      PROVE  FleetIInv'
  <2>1. \A j \in Requests : ~SettledRow(j) /\ ~SettledRow(j)'
    BY <1>1, <1>3 DEF RowStandsForTheJob, SettledRow
  <2>2. RowStandsForTheJob'
    BY <1>1, <1>3, <2>1 DEF RowStandsForTheJob, At, Stays, Open
  <2> QED  BY <1>1, <1>3, <2>1, <2>2 DEF FleetIInv, OneIsOpen, SettledIsOnRecord, Open
<1>4. CASE Decide(s) /\ Leaves(s) /\ Accepts(s)
  <2> DEFINE i == sweep[s].item
  <2>1. /\ At(s, "decide") /\ ~At(s, "idle") /\ UNCHANGED <<journal, launchd>> /\ i \in Requests
        /\ launchd = DisabledUnloaded /\ journal[i] = "disabled"
    BY <1>1, <1>4 DEF Decide, WorkIsRecorded, At
  <2>2. sweep'[s].pc = "idle"
    BY <1>1, <1>4, IdleMoves DEF Leaves
  <2>3. /\ \A j \in Requests : Open(j) => j = i
        /\ \A j \in Requests : ~SettledRow(j)
    BY <1>1, <2>1 DEF RowStandsForTheJob
  <2>4. rows' = IF sweep[s].seen = "approved" THEN Decided(i, "done", "human")
               ELSE Decided(i, "retired", "silence")
    <3>1. ~GoesTo(s, "enable")
      BY <1>1, <2>1, <2>2, GoesToStays DEF Pcs
    <3> QED  BY <1>4, <3>1 DEF Decide
  <2>5. PICK x \in {"done", "retired"}, y \in {"human", "silence"} : rows' = Decided(i, x, y)
    BY <2>4
  <2>6. rows'[i].status = x /\ \A j \in Requests : j # i => rows'[j] = rows[j]
    BY <1>1, <2>1, <2>5, DecidedRow
  <2>7. \A j \in Requests : ~Open(j)' /\ (SettledRow(j)' => j = i)
    BY <2>3, <2>6 DEF Open, SettledRow
  <2> HIDE DEF i
  <2>8. RowStandsForTheJob'
    BY <1>1, <2>2 DEF RowStandsForTheJob, At
  <2> QED  BY <2>1, <2>7, <2>8 DEF FleetIInv, OneIsOpen, SettledIsOnRecord
<1>5. CASE SweepDies(s)
  <2>1. ~At(s, "idle") /\ UNCHANGED rows /\ sweep'[s].pc = "idle"
    BY <1>1, <1>5, IdleMoves DEF SweepDies
  <2> QED  BY <1>3, <2>1
<1>6. CASE SweepStep(s) /\ UNCHANGED rows
  <2>1. ~At(s, "idle")
    BY <1>6 DEF SweepStep, LockJournal, RecordIntent, Disable, Bootout, RecordFailed,
       RecordDisabled, Decide, Enable, Bootstrap, RecordUnwound, At
  <2>2. \/ \E pc \in Pcs : GoesTo(s, pc)
        \/ \E b \in BOOLEAN : Unwound(s, b)
        \/ sweep' = [sweep EXCEPT ![s] = IdleSweep]
    <3>1. CASE LockJournal(s) \/ RecordIntent(s) \/ RecordFailed(s) \/ RecordUnwound(s)
      BY <3>1 DEF LockJournal, RecordIntent, RecordFailed, RecordUnwound, Leaves, Pcs
    <3>2. CASE Disable(s) \/ Bootout(s) \/ RecordDisabled(s) \/ Decide(s)
      BY <3>2 DEF Disable, Bootout, RecordDisabled, Decide, Leaves, Pcs
    <3>3. CASE Enable(s)
      BY <3>3 DEF Enable, Pcs
    <3>4. CASE Bootstrap(s)
      BY <3>4 DEF Bootstrap
    <3> QED  BY <1>6, <3>1, <3>2, <3>3, <3>4 DEF SweepStep
  <2>3. Stays(s) \/ sweep'[s].pc = "idle"
    BY <1>1, <2>2, GoesToStays, UnwoundStays, IdleMoves
  <2> QED  BY <1>3, <1>6, <2>1, <2>3
<1>7. SweepStep(s) => UNCHANGED rows \/ (Decide(s) /\ Leaves(s) /\ Accepts(s))
  BY DEF SweepStep, LockJournal, RecordIntent, Disable, Bootout, RecordFailed,
     RecordDisabled, Decide, Enable, Bootstrap, RecordUnwound
<1> QED  BY <1>2, <1>4, <1>5, <1>6, <1>7

\* With one sweep at a time, whatever fails and whoever dies: a row that is settled as
\* disabled has a job that is disabled and stays so, and the journal says it; a job
\* whose every attempt was rolled back runs (bin/hitl_alerts.py:976-1198).
THEOREM RetirementIsKept ==
  ASSUME OneSweep
  PROVE  FleetSpec => []FleetInv
<1>1. FleetIInv /\ [FleetNext]_fleetVars => FleetIInv'
  <2> SUFFICES ASSUME FleetIInv, [FleetNext]_fleetVars PROVE FleetIInv'
    OBVIOUS
  <2>1. JournalIInv'
    BY JournalStepKeeps DEF FleetIInv
  <2>2. CASE UNCHANGED fleetVars
    BY <2>1, <2>2 DEF fleetVars, FleetIInv, OneIsOpen, RowStandsForTheJob, SettledIsOnRecord,
       Open, SettledRow, At
  <2>3. CASE FleetNext
    BY <2>1, <2>3, QueueKeeps, SweepKeeps DEF FleetNext
  <2> QED  BY <2>2, <2>3
<1>2. FleetIInv => FleetInv
  BY DEF FleetIInv, JournalIInv, FleetInv, StoppedIsOnRecord, RolledBackRuns,
     SettledIsOnRecord, SettledIsDisabled
<1> QED  BY <1>1, <1>2, FleetStart, PTL DEF FleetSpec

-----------------------------------------------------------------------------
(* The dojo: the inductive invariant                                       *)

Unsettled(kids, k) == k \in DOMAIN kids /\ ~kids[k].settled

\* Every mark has a cycle behind it whose handlers are still to come.  The
\* converse fails: a late close removes the mark of a newer cycle.  So does the
\* claim itself once a spawn has thrown: the mark it leaves has no cycle.
Backed(marks, kids) ==
  \A p \in marks : \E k \in DOMAIN kids : Unsettled(kids, k) /\ kids[k].pillar = p

Drained == queue /= << >> => \E k \in DOMAIN children : Unsettled(children, k)

DojoInv == TypeOK /\ (server = "up" => Backed(running, children) /\ Drained)

-----------------------------------------------------------------------------
(* Spawning and draining                                                   *)

Emissions == [Pillars -> {"idle", "running", "done", "error"}]

\* A spawn that does not throw adds a cycle that will drain, and backs its mark.
LEMMA SpawnBacks ==
  ASSUME NEW p \in Pillars, NEW kids \in Seq(Child),
         NEW marks \in SUBSET Pillars, NEW emitted \in Emissions,
         Spawn(p, kids, marks, emitted)
  PROVE  /\ children' \in Seq(Child) /\ Len(children') = Len(kids) + 1
         /\ running' \in SUBSET Pillars /\ shown' \in Emissions
         /\ server' = server
         /\ Backed(marks, kids) => Backed(running', children')
         /\ \E k \in DOMAIN children' : Unsettled(children', k)
<1>1. PICK proc \in {"alive", "none"} :
        children' = Append(kids, [pillar |-> p, proc |-> proc, timer |-> TRUE,
                                  settled |-> FALSE, closed |-> FALSE])
  BY DEF Spawn
<1> DEFINE new == [pillar |-> p, proc |-> proc, timer |-> TRUE,
                   settled |-> FALSE, closed |-> FALSE]
           last == Len(kids) + 1
<1>2. new \in Child
  BY DEF Child
<1>3. /\ children' \in Seq(Child) /\ Len(children') = last
      /\ DOMAIN children' = 1 .. last
      /\ children'[last] = new
      /\ \A k \in DOMAIN kids : k \in DOMAIN children' /\ children'[k] = kids[k]
  BY <1>1, <1>2
<1>4. last \in DOMAIN children' /\ Unsettled(children', last)
      /\ children'[last].pillar = p
  BY <1>3 DEF Unsettled
<1>5. /\ running' = marks \union {p} /\ shown' = [emitted EXCEPT ![p] = "running"]
      /\ server' = server
  BY DEF Spawn
<1>6. Backed(marks, kids) => Backed(running', children')
  <2> SUFFICES ASSUME Backed(marks, kids), NEW q \in running'
               PROVE  \E k \in DOMAIN children' :
                        Unsettled(children', k) /\ children'[k].pillar = q
    BY DEF Backed
  <2>1. CASE q = p
    BY <2>1, <1>4
  <2>2. CASE q \in marks
    BY <2>2, <1>3 DEF Backed, Unsettled
  <2> QED
    BY <2>1, <2>2, <1>5
<1> QED
  BY <1>3, <1>4, <1>5, <1>6 DEF Emissions

\* _drainQueue, called with one cycle settled and its mark removed, keeps
\* the invariant.
LEMMA DrainKeepsInv ==
  ASSUME TypeOK, NEW kids \in Seq(Child), Len(kids) = Len(children),
         NEW marks \in SUBSET Pillars, NEW emitted \in Emissions,
         server = "up" => Backed(marks, kids), DrainQueue(kids, marks, emitted)
  PROVE  DojoInv'
<1>1. CASE queue = << >> /\ children' = kids /\ running' = marks
           /\ shown' = emitted /\ UNCHANGED <<queue, server>>
  BY <1>1 DEF DojoInv, TypeOK, Drained, Emissions, Backed, Unsettled
<1>2. CASE queue /= << >> /\ Spawn(Head(queue), kids, marks, emitted)
           /\ queue' = Tail(queue)
  <2>1. queue \in Seq(Pillars) /\ Len(children) + Len(queue) <= MaxSpawns
    BY DEF TypeOK
  <2>2. /\ Head(queue) \in Pillars /\ Tail(queue) \in Seq(Pillars)
        /\ Len(Tail(queue)) = Len(queue) - 1
    BY <2>1, <1>2
  <2>3. /\ children' \in Seq(Child) /\ Len(children') = Len(kids) + 1
        /\ running' \in SUBSET Pillars /\ shown' \in Emissions
        /\ server' = server
        /\ Backed(marks, kids) => Backed(running', children')
        /\ \E k \in DOMAIN children' : Unsettled(children', k)
    BY <2>2, <1>2, SpawnBacks
  <2>4. Len(children') + Len(queue') <= MaxSpawns
    <3>1. Len(children) \in Nat /\ Len(queue) \in Nat /\ MaxSpawns \in Nat
      BY <2>1, SpawnsAssumption DEF TypeOK
    <3> QED
      BY <3>1, <2>1, <2>2, <2>3, <1>2
  <2>5. TypeOK'
    BY <2>2, <2>3, <2>4, <1>2 DEF TypeOK, Emissions
  <2> QED
    BY <2>3, <2>5 DEF DojoInv, Drained
<1>3. CASE queue /= << >> /\ ServerDies(kids, emitted)
  BY <1>3, SpawnsAssumption DEF ServerDies, DojoInv, TypeOK, Emissions
<1> QED
  BY <1>1, <1>2, <1>3 DEF DrainQueue

\* Settling cycle k takes no other cycle's mark away.
LEMMA SettledKeepsOthers ==
  ASSUME NEW kids \in Seq(Child), NEW after \in Seq(Child), NEW marks,
         Backed(marks, kids), NEW k \in DOMAIN kids,
         DOMAIN after = DOMAIN kids,
         \A j \in DOMAIN kids \ {k} : after[j] = kids[j]
  PROVE  Backed(marks \ {kids[k].pillar}, after)
BY DEF Backed, Unsettled

\* An element of a typed sequence is typed.
LEMMA ElementTyped ==
  ASSUME NEW S, NEW s \in Seq(S), NEW k \in DOMAIN s
  PROVE  s[k] \in S
OBVIOUS

\* A child of the list is a child.
LEMMA DojoChildTyped ==
  ASSUME TypeOK, NEW k \in DOMAIN children
  PROVE  children \in Seq(Child) /\ children[k] \in Child /\ children[k].pillar \in Pillars
<1>1. children \in Seq(Child)
  BY DEF TypeOK
<1>2. children[k] \in Child
  BY <1>1, ElementTyped
<1>3. children[k].pillar \in Pillars
  BY <1>2 DEF Child
<1> QED
  BY <1>1, <1>2, <1>3

-----------------------------------------------------------------------------
(* Each action                                                             *)

\* POST /run: spawn at once, or queue.
LEMMA EnqueueStep ==
  ASSUME DojoInv, NEW p \in Pillars, Enqueue(p)
  PROVE  DojoInv'
<1>0. Len(children) \in Nat /\ Len(queue) \in Nat /\ MaxSpawns \in Nat
  BY SpawnsAssumption DEF DojoInv, TypeOK
<1>1. CASE running = {} /\ Spawn(p, children, running, shown) /\ UNCHANGED queue
  <2>1. /\ children' \in Seq(Child) /\ Len(children') = Len(children) + 1
        /\ running' \in SUBSET Pillars /\ shown' \in Emissions
        /\ server' = server
        /\ Backed(running, children) => Backed(running', children')
        /\ \E k \in DOMAIN children' : Unsettled(children', k)
    BY <1>1, SpawnBacks DEF DojoInv, TypeOK, Emissions
  <2>2. Len(children') + Len(queue') <= MaxSpawns
    BY <1>0, <1>1, <2>1 DEF Enqueue
  <2> QED
    BY <1>1, <2>1, <2>2 DEF DojoInv, TypeOK, Drained, Emissions
<1>2. CASE /\ running /= {} /\ queue' = Append(queue, p)
           /\ shown' = [shown EXCEPT ![p] = "running"]
           /\ UNCHANGED <<children, running, server>>
  <2>1. queue' \in Seq(Pillars) /\ Len(queue') = Len(queue) + 1
    BY <1>2 DEF DojoInv, TypeOK
  <2>2. Len(children') + Len(queue') <= MaxSpawns
    BY <1>0, <1>2, <2>1 DEF Enqueue
  <2>3. TypeOK'
    BY <1>2, <2>1, <2>2 DEF DojoInv, TypeOK
  <2>4. server = "up" => \E k \in DOMAIN children : Unsettled(children, k)
    BY <1>2 DEF DojoInv, Backed
  <2> QED
    BY <1>2, <2>3, <2>4 DEF DojoInv, Drained, Backed, Unsettled
<1>3. CASE SpawnThrows(p)
  BY <1>0, <1>3 DEF SpawnThrows, DojoInv, TypeOK
<1> QED
  BY <1>1, <1>2, <1>3 DEF Enqueue

\* What Closed and the kill timer do to the children's list.
LEMMA Rewritten ==
  ASSUME TypeOK, NEW k \in DOMAIN children, NEW child \in Child
  PROVE  LET after == [children EXCEPT ![k] = child]
         IN  /\ after \in Seq(Child) /\ Len(after) = Len(children)
             /\ DOMAIN after = DOMAIN children
             /\ after[k] = child
             /\ \A j \in DOMAIN children \ {k} : after[j] = children[j]
BY DEF TypeOK

\* closeCycle settles its own child and no other.
LEMMA ClosedIsRewritten ==
  ASSUME TypeOK, NEW k \in DOMAIN children, NEW closes \in BOOLEAN
  PROVE  /\ Closed(k, closes) \in Seq(Child)
         /\ Len(Closed(k, closes)) = Len(children)
         /\ DOMAIN Closed(k, closes) = DOMAIN children
         /\ Closed(k, closes)[k].settled
         /\ \A j \in DOMAIN children \ {k} : Closed(k, closes)[j] = children[j]
<1> DEFINE child == [children[k] EXCEPT !.timer = FALSE, !.settled = TRUE,
                                         !.closed = closes]
<1>1. children \in Seq(Child) /\ children[k] \in Child
  BY DojoChildTyped
<1>2. child \in Child /\ child.settled
  BY <1>1 DEF Child
<1>3. Closed(k, closes) = [children EXCEPT ![k] = child]
  BY <1>1 DEF Closed, Child
<1> DEFINE after == [children EXCEPT ![k] = child]
<1>4. /\ after \in Seq(Child) /\ Len(after) = Len(children)
      /\ DOMAIN after = DOMAIN children
      /\ after[k] = child
      /\ \A j \in DOMAIN children \ {k} : after[j] = children[j]
  BY <1>2, Rewritten
<1> HIDE DEF child
<1> QED
  BY <1>2, <1>3, <1>4

\* The close and error handlers, with the drain they end in.
LEMMA DojoSettleStep ==
  ASSUME DojoInv, NEW k \in DOMAIN children, NEW closes \in BOOLEAN,
         NEW outcome \in {"nothing", "done", "error"}, Settle(k, closes, outcome)
  PROVE  DojoInv'
<1> DEFINE p == children[k].pillar
<1>1. TypeOK /\ children \in Seq(Child) /\ children[k] \in Child /\ p \in Pillars
  <2>1. TypeOK
    BY DEF DojoInv
  <2> QED
    BY <2>1, DojoChildTyped
<1>2. /\ Closed(k, closes) \in Seq(Child)
      /\ Len(Closed(k, closes)) = Len(children)
      /\ DOMAIN Closed(k, closes) = DOMAIN children
      /\ Closed(k, closes)[k].settled
      /\ \A j \in DOMAIN children \ {k} : Closed(k, closes)[j] = children[j]
  BY <1>1, ClosedIsRewritten
<1>3. server = "up" => Backed(running \ {p}, Closed(k, closes))
  BY <1>1, <1>2, SettledKeepsOthers DEF DojoInv
<1>4. CASE /\ children[k].settled /\ children' = Closed(k, closes)
           /\ running' = running \ {p} /\ UNCHANGED <<queue, shown, server>>
  <2>1. TypeOK'
    BY <1>1, <1>2, <1>4 DEF TypeOK
  <2>2. server = "up" => Drained'
    BY <1>2, <1>4 DEF DojoInv, Drained, Unsettled
  <2> QED
    BY <1>3, <1>4, <2>1, <2>2 DEF DojoInv
<1>5. CASE DrainQueue(Closed(k, closes), running \ {p}, Emitted(p, outcome))
  <2>1. Emitted(p, outcome) \in Emissions
    BY <1>1 DEF TypeOK, Emissions, Emitted
  <2>2. running \ {p} \in SUBSET Pillars
    BY <1>1 DEF TypeOK
  <2> QED
    BY <1>1, <1>2, <1>3, <1>5, <2>1, <2>2, DrainKeepsInv
<1> QED
  BY <1>4, <1>5 DEF Settle

\* The timeout kills and leaves every mark as it is.
LEMMA DojoKillTimerStep ==
  ASSUME DojoInv, NEW k \in DOMAIN children, KillTimer(k)
  PROVE  DojoInv'
<1> DEFINE p == children[k].pillar
           child == [children[k] EXCEPT !.timer = FALSE, !.settled = TRUE]
           after == [children EXCEPT ![k] = child]
           emitted == [shown EXCEPT ![p] = "error"]
<1>1. TypeOK /\ children \in Seq(Child) /\ children[k] \in Child /\ p \in Pillars
  <2>1. TypeOK
    BY DEF DojoInv
  <2> QED
    BY <2>1, DojoChildTyped
<1>2. child \in Child
  BY <1>1 DEF Child
<1>3. [children EXCEPT ![k].timer = FALSE, ![k].settled = TRUE] = after
  BY <1>1 DEF Child
<1>4. /\ after \in Seq(Child) /\ Len(after) = Len(children)
      /\ DOMAIN after = DOMAIN children
      /\ \A j \in DOMAIN children \ {k} : after[j] = children[j]
  BY <1>1, <1>2, Rewritten
<1>5. server = "up" => Backed(running \ {p}, after)
  BY <1>1, <1>4, SettledKeepsOthers DEF DojoInv
<1>6. emitted \in Emissions /\ running \ {p} \in SUBSET Pillars
  BY <1>1 DEF TypeOK, Emissions
<1>7. DrainQueue(after, running \ {p}, emitted)
  BY <1>3 DEF KillTimer
<1> QED
  BY <1>1, <1>4, <1>5, <1>6, <1>7, DrainKeepsInv

\* A process that ends leaves its handlers to come.
LEMMA DojoProcessEndsStep ==
  ASSUME DojoInv, NEW k \in DOMAIN children, ProcessEnds(k)
  PROVE  DojoInv'
<1>1. TypeOK /\ children \in Seq(Child) /\ children[k] \in Child
  <2>1. TypeOK
    BY DEF DojoInv
  <2> QED
    BY <2>1, DojoChildTyped
<1>2. PICK end \in {"exited", "signalled"} :
        children' = [children EXCEPT ![k].proc = end]
  BY DEF ProcessEnds
<1> DEFINE child == [children[k] EXCEPT !.proc = end]
<1>3. child \in Child /\ child.settled = children[k].settled
      /\ child.pillar = children[k].pillar
  BY <1>1 DEF Child
<1>4. children' = [children EXCEPT ![k] = child]
  BY <1>1, <1>2 DEF Child
<1>5. /\ children' \in Seq(Child) /\ Len(children') = Len(children)
      /\ DOMAIN children' = DOMAIN children
      /\ \A j \in DOMAIN children : /\ children'[j].settled = children[j].settled
                                    /\ children'[j].pillar = children[j].pillar
  BY <1>1, <1>3, <1>4, Rewritten
<1>6. UNCHANGED <<running, queue, shown, server>>
  BY DEF ProcessEnds
<1>7. TypeOK'
  BY <1>1, <1>5, <1>6 DEF TypeOK
<1> QED
  BY <1>5, <1>6, <1>7 DEF DojoInv, Drained, Backed, Unsettled

-----------------------------------------------------------------------------
(* The theorems                                                            *)

\* The dojo's inductive invariant holds always.
LEMMA DojoInvariance == Spec => []DojoInv
<1>1. Init => DojoInv
  BY SpawnsAssumption DEF Init, DojoInv, TypeOK, Backed, Drained
<1>2. DojoInv /\ [Next]_vars => DojoInv'
  <2> SUFFICES ASSUME DojoInv, [Next]_vars PROVE DojoInv'
    OBVIOUS
  <2>1. ASSUME NEW p \in Pillars, Enqueue(p) PROVE DojoInv'
    BY <2>1, EnqueueStep
  <2>2. ASSUME NEW k \in DOMAIN children, Close(k) PROVE DojoInv'
    <3>1. PICK outcome \in Outcomes(children[k].proc) : Settle(k, TRUE, outcome)
      BY <2>2 DEF Close
    <3>2. children[k].proc \in {"alive", "exited", "signalled", "none"}
      <4>1. children[k] \in Child
        BY <2>2, DojoChildTyped DEF DojoInv
      <4> QED
        BY <4>1 DEF Child
    <3>3. outcome \in {"nothing", "done", "error"}
      BY <3>1, <3>2 DEF Outcomes
    <3> QED
      BY <3>1, <3>3, DojoSettleStep
  <2>3. ASSUME NEW k \in DOMAIN children, SpawnError(k) PROVE DojoInv'
    BY <2>3, DojoSettleStep DEF SpawnError
  <2>4. ASSUME NEW k \in DOMAIN children, KillTimer(k) PROVE DojoInv'
    BY <2>4, DojoKillTimerStep
  <2>5. ASSUME NEW k \in DOMAIN children, ProcessEnds(k) PROVE DojoInv'
    BY <2>5, DojoProcessEndsStep
  <2>6. CASE UNCHANGED vars
    BY <2>6 DEF vars, DojoInv, TypeOK, Backed, Drained, Unsettled
  <2> QED
    BY <2>1, <2>2, <2>3, <2>4, <2>5, <2>6 DEF Next
<1> QED
  BY <1>1, <1>2, PTL DEF Spec

\* The engine's sets, its queue and the closures of its cycles are always well
\* typed, and the bound on cycles holds of started and waiting ones together.
THEOREM DojoTypeCorrect == Spec => []TypeOK
<1>1. DojoInv => TypeOK
  BY DEF DojoInv
<1> QED
  BY <1>1, DojoInvariance, PTL

\* Whoever waits in the queue of dojo.ts waits for a cycle whose own handler
\* will drain it, with any number of pillars and cycles, until the spawn of a
\* request throws and leaves a mark that stands for no cycle.
THEOREM WaitersHaveADrainer == Spec => []SomebodyDrains
<1>1. DojoInv => SomebodyDrains
  BY DEF DojoInv, Drained, SomebodyDrains, Live, Unsettled
<1> QED
  BY <1>1, DojoInvariance, PTL
-----------------------------------------------------------------------------
(* Late events                                                             *)

\* Draining leaves the children it is given as they are.
LEMMA DrainKeepsChildren ==
  ASSUME NEW kids \in Seq(Child), NEW marks, NEW emitted,
         NEW k \in DOMAIN kids, DrainQueue(kids, marks, emitted)
  PROVE  children'[k] = kids[k]
<1>1. CASE children' = kids
  BY <1>1
<1>2. CASE Spawn(Head(queue), kids, marks, emitted)
  <2>1. PICK proc \in {"alive", "none"} :
          children' = Append(kids, [pillar |-> Head(queue), proc |-> proc,
                                    timer |-> TRUE, settled |-> FALSE,
                                    closed |-> FALSE])
    BY <1>2 DEF Spawn
  <2> QED
    BY <2>1
<1> QED
  BY <1>1, <1>2 DEF DrainQueue, ServerDies

\* An event of one cycle does not close another.
LEMMA SettleKeepsOthers ==
  ASSUME TypeOK, NEW j \in DOMAIN children, NEW k \in DOMAIN children \ {j},
         NEW closes \in BOOLEAN, NEW outcome, Settle(j, closes, outcome)
  PROVE  children'[k] = children[k]
<1>1. /\ Closed(j, closes) \in Seq(Child)
      /\ DOMAIN Closed(j, closes) = DOMAIN children
      /\ Closed(j, closes)[k] = children[k]
  BY ClosedIsRewritten
<1>2. CASE children' = Closed(j, closes)
  BY <1>1, <1>2
<1>3. CASE DrainQueue(Closed(j, closes), running \ {children[j].pillar},
                      Emitted(children[j].pillar, outcome))
  BY <1>1, <1>3, DrainKeepsChildren
<1> QED
  BY <1>2, <1>3 DEF Settle

\* The timeout changes nothing of a settled cycle.
LEMMA KillTimerKeepsClosed ==
  ASSUME TypeOK, NEW j \in DOMAIN children, NEW k \in DOMAIN children, KillTimer(j)
  PROVE  children'[k].closed = children[k].closed
<1> DEFINE child == [children[j] EXCEPT !.timer = FALSE, !.settled = TRUE]
           after == [children EXCEPT ![j] = child]
<1>1. children[j] \in Child
  BY DojoChildTyped
<1>2. child \in Child /\ child.closed = children[j].closed
  BY <1>1 DEF Child
<1>3. [children EXCEPT ![j].timer = FALSE, ![j].settled = TRUE] = after
  BY <1>1 DEF Child
<1>4. /\ after \in Seq(Child) /\ DOMAIN after = DOMAIN children
      /\ after[j] = child
      /\ \A i \in DOMAIN children \ {j} : after[i] = children[i]
  BY <1>2, Rewritten
<1>5. DrainQueue(after, running \ {children[j].pillar},
                 [shown EXCEPT ![children[j].pillar] = "error"])
  BY <1>3 DEF KillTimer
<1>6. children'[k] = after[k]
  BY <1>4, <1>5, DrainKeepsChildren
<1> QED
  BY <1>2, <1>4, <1>6

\* A process that ends changes nothing of a settled cycle.
LEMMA ProcessEndsKeepsClosed ==
  ASSUME TypeOK, NEW j \in DOMAIN children, NEW k \in DOMAIN children, ProcessEnds(j)
  PROVE  children'[k].closed = children[k].closed
<1>1. PICK end \in {"exited", "signalled"} :
        children' = [children EXCEPT ![j].proc = end]
  BY DEF ProcessEnds
<1> DEFINE child == [children[j] EXCEPT !.proc = end]
<1>2. children[j] \in Child
  BY DojoChildTyped
<1>3. child \in Child /\ child.closed = children[j].closed
  BY <1>2 DEF Child
<1>4. children' = [children EXCEPT ![j] = child]
  BY <1>1, <1>2 DEF Child
<1> QED
  BY <1>3, <1>4, Rewritten

\* A new cycle leaves the earlier ones as they are.
LEMMA EnqueueKeepsChildren ==
  ASSUME TypeOK, NEW p \in Pillars, NEW k \in DOMAIN children, Enqueue(p)
  PROVE  children'[k] = children[k]
<1>1. children \in Seq(Child)
  BY DEF TypeOK
<1>2. CASE Spawn(p, children, running, shown)
  <2>1. PICK proc \in {"alive", "none"} :
          children' = Append(children, [pillar |-> p, proc |-> proc,
                                        timer |-> TRUE, settled |-> FALSE,
                                        closed |-> FALSE])
    BY <1>2 DEF Spawn
  <2> QED
    BY <1>1, <2>1
<1> QED
  BY <1>2 DEF Enqueue, SpawnThrows

\* Which step may close a cycle that has been settled: its own close event,
\* and that frees nobody's turn and shows nothing.
LEMMA LateCloseIsSilent ==
  ASSUME TypeOK, Next, NEW k \in DOMAIN children,
         children[k].settled, ~children[k].closed, children'[k].closed
  PROVE  UNCHANGED <<queue, shown>> /\ Len(children') = Len(children)
<1>1. ASSUME NEW p \in Pillars, Enqueue(p) PROVE FALSE
  BY <1>1, EnqueueKeepsChildren
<1>2. ASSUME NEW j \in DOMAIN children, KillTimer(j) PROVE FALSE
  BY <1>2, KillTimerKeepsClosed
<1>3. ASSUME NEW j \in DOMAIN children, ProcessEnds(j) PROVE FALSE
  BY <1>3, ProcessEndsKeepsClosed
<1>4. ASSUME NEW j \in DOMAIN children, SpawnError(j) PROVE FALSE
  <2>1. j /= k /\ Settle(j, FALSE, "error")
    BY <1>4 DEF SpawnError
  <2> QED
    BY <2>1, SettleKeepsOthers
<1>5. ASSUME NEW j \in DOMAIN children, Close(j)
      PROVE  UNCHANGED <<queue, shown>> /\ Len(children') = Len(children)
  <2>1. PICK outcome \in Outcomes(children[j].proc) : Settle(j, TRUE, outcome)
    BY <1>5 DEF Close
  <2>2. j = k
    BY <2>1, SettleKeepsOthers
  <2>3. children' = Closed(k, TRUE) /\ UNCHANGED <<queue, shown>>
    BY <2>1, <2>2 DEF Settle
  <2> QED
    BY <2>3, ClosedIsRewritten
<1> QED
  BY <1>1, <1>2, <1>3, <1>4, <1>5 DEF Next

\* A close event that comes after the kill timer or the error event has
\* answered for its cycle changes neither the queue nor what is shown.
THEOREM LateEventsStaySilent == Spec => LateEventsAreSilent
<1>1. TypeOK /\ [Next]_vars =>
        [\A k \in DOMAIN children :
           children[k].settled /\ ~children[k].closed /\ children'[k].closed
             => UNCHANGED <<queue, shown>> /\ Len(children') = Len(children)]_vars
  BY LateCloseIsSilent DEF vars
<1> QED
  BY <1>1, DojoTypeCorrect, PTL DEF Spec, LateEventsAreSilent

-----------------------------------------------------------------------------
(* The run channel: the inductive invariant                                *)

\* The entry of a command is a child that runs that very command.
OwnsItsCommand ==
  \A c \in Commands : active[c] /= NoChild =>
    active[c] \in DOMAIN execs /\ execs[active[c]].command = c

\* HeldByTheNewest, of any list of children and any table of entries.
NewestIn(kids, c, k) ==
  /\ kids[k].command = c
  /\ \A j \in DOMAIN kids : kids[j].command = c => j <= k

Held(kids, owner, k) ==
  \A c \in Commands : c = kids[k].command =>
    /\ owner[c] = k => NewestIn(kids, c, k)
    /\ NewestIn(kids, c, k) /\ kids[k].proc = "alive" => owner[c] = k

HeldIn(kids, owner) == \A k \in DOMAIN kids : Held(kids, owner, k)

ExecInv == ExecTypeOK /\ OwnsItsCommand /\ HeldIn(execs, active) /\ ChannelsDedupe

\* A later view of the same children: they run what they ran, and whoever is
\* gone stays gone.
LaterView(after) ==
  /\ after \in Seq(ExecRecord) /\ Len(after) = Len(execs)
  /\ DOMAIN after = DOMAIN execs
  /\ \A k \in DOMAIN execs :
       /\ after[k].command = execs[k].command
       /\ after[k].proc = "alive" => execs[k].proc = "alive"

\* A child of the list is a child.
LEMMA ExecChildTyped ==
  ASSUME ExecTypeOK, NEW k \in DOMAIN execs
  PROVE  /\ execs \in Seq(ExecRecord) /\ execs[k] \in ExecRecord
         /\ execs[k].command \in Commands
         /\ k \in Nat /\ k /= NoChild /\ k \in Slots
<1>1. execs \in Seq(ExecRecord) /\ Len(execs) <= MaxExecs
  BY DEF ExecTypeOK
<1>2. execs[k] \in ExecRecord
  BY <1>1
<1>3. k \in Nat /\ k /= NoChild /\ k \in Slots
  BY <1>1, ExecAssumption DEF NoChild, Slots
<1> QED
  BY <1>1, <1>2, <1>3 DEF ExecRecord

\* Rewriting one child leaves the others, and the list's length.
LEMMA RewriteOne ==
  ASSUME ExecTypeOK, NEW k \in DOMAIN execs, NEW child \in ExecRecord,
         child.command = execs[k].command,
         child.proc = "alive" => execs[k].proc = "alive"
  PROVE  LaterView([execs EXCEPT ![k] = child])
<1>1. execs \in Seq(ExecRecord)
  BY ExecChildTyped
<1> DEFINE after == [execs EXCEPT ![k] = child]
<1>2. /\ after \in Seq(ExecRecord) /\ Len(after) = Len(execs)
      /\ DOMAIN after = DOMAIN execs
      /\ after[k] = child
      /\ \A j \in DOMAIN execs \ {k} : after[j] = execs[j]
  BY <1>1
<1> QED
  BY <1>2 DEF LaterView

\* What the channel does before it starts a child.
LEMMA CurrentKilledIsLater ==
  ASSUME ExecTypeOK
  PROVE  LaterView(CurrentKilled)
<1>1. execs \in Seq(ExecRecord)
  BY DEF ExecTypeOK
<1>2. CASE execChild \in DOMAIN execs
  <2> DEFINE child == [execs[execChild] EXCEPT !.signalled = TRUE]
  <2>1. execs[execChild] \in ExecRecord /\ execChild /= NoChild
    BY <1>2, ExecChildTyped
  <2>2. /\ child \in ExecRecord /\ child.command = execs[execChild].command
        /\ child.proc = execs[execChild].proc
    BY <2>1 DEF ExecRecord
  <2>3. CurrentKilled = [execs EXCEPT ![execChild] = child]
    BY <2>1 DEF CurrentKilled, ExecRecord
  <2> QED
    BY <1>2, <2>2, <2>3, RewriteOne
<1>3. CASE execChild \notin DOMAIN execs
  <2>1. CurrentKilled = execs
    BY <1>1, <1>3 DEF CurrentKilled
  <2> QED
    BY <1>1, <2>1 DEF LaterView
<1> QED
  BY <1>2, <1>3

-----------------------------------------------------------------------------
(* Steps that start no child                                               *)

\* A child that has gone may give its command up; nothing else changes hands.
LEMMA NoChildStarts ==
  ASSUME ExecInv, LaterView(execs'), ExecTypeOK',
         \/ active' = active
         \/ \E k \in DOMAIN execs : execs[k].proc = "gone" /\ active' = Disown(k)
  PROVE  OwnsItsCommand' /\ HeldIn(execs', active')
<1>1. /\ ExecTypeOK /\ DOMAIN execs' = DOMAIN execs
      /\ \A k \in DOMAIN execs :
           /\ execs'[k].command = execs[k].command
           /\ execs'[k].proc = "alive" => execs[k].proc = "alive"
  BY DEF ExecInv, LaterView
<1>2. \A c \in Commands, k \in DOMAIN execs :
        NewestIn(execs', c, k) <=> NewestIn(execs, c, k)
  BY <1>1 DEF NewestIn
<1>3. active \in [Commands -> Slots \union {NoChild}]
  BY <1>1 DEF ExecTypeOK
<1>4. \A c \in Commands : active'[c] \in {active[c], NoChild}
  BY <1>3 DEF Disown
<1>5. \A j \in DOMAIN execs, c \in Commands :
        execs'[j].proc = "alive" /\ active[c] = j => active'[c] = j
  <2> SUFFICES ASSUME NEW j \in DOMAIN execs, NEW c \in Commands,
                      execs'[j].proc = "alive", active[c] = j
               PROVE  active'[c] = j
    OBVIOUS
  <2>1. CASE active' = active
    BY <2>1
  <2>2. ASSUME NEW k \in DOMAIN execs, execs[k].proc = "gone",
               active' = Disown(k)
        PROVE  active'[c] = j
    <3>1. j /= k
      BY <1>1, <2>2
    <3> QED
      BY <1>3, <2>2, <3>1 DEF Disown
  <2> QED
    BY <2>1, <2>2
<1>6. OwnsItsCommand'
  BY <1>1, <1>4 DEF ExecInv, OwnsItsCommand
<1>7. ASSUME NEW k \in DOMAIN execs
      PROVE  Held(execs', active', k)
  <2>1. k /= NoChild
    BY <1>1, ExecChildTyped
  <2>2. Held(execs, active, k)
    BY DEF ExecInv, HeldIn
  <2> QED
    BY <1>1, <1>2, <1>4, <1>5, <2>1, <2>2 DEF Held
<1> QED
  BY <1>1, <1>6, <1>7 DEF HeldIn

-----------------------------------------------------------------------------
(* The step that starts one                                                *)

\* POST /exec: the current child is killed and the new one takes the entry.
LEMMA SpawnStep ==
  ASSUME ExecInv, NEW c \in Commands, SpawnExec(c)
  PROVE  ExecInv'
<1> DEFINE k == Len(execs) + 1
           new == [command |-> c, proc |-> "alive", signalled |-> FALSE,
                   timer |-> TRUE, settled |-> FALSE, closed |-> FALSE]
<1>1. ExecTypeOK /\ execs \in Seq(ExecRecord) /\ Len(execs) \in Nat
  BY DEF ExecInv, ExecTypeOK
<1>2. LaterView(CurrentKilled)
  BY <1>1, CurrentKilledIsLater
<1>3. new \in ExecRecord
  BY DEF ExecRecord
<1>4. /\ k <= MaxExecs /\ c \notin reflex
      /\ execs' = Append(CurrentKilled, new)
      /\ execChild' = k /\ active' = [active EXCEPT ![c] = k]
      /\ execShown' = "running" /\ reflex' = reflex
  BY DEF SpawnExec
<1>5. /\ execs' \in Seq(ExecRecord) /\ Len(execs') = k
      /\ DOMAIN execs' = 1 .. k /\ DOMAIN execs = 1 .. (k - 1)
      /\ execs'[k] = new
      /\ \A j \in DOMAIN execs :
           /\ j \in DOMAIN execs' /\ execs'[j].command = execs[j].command
           /\ execs'[j].proc = "alive" => execs[j].proc = "alive"
  BY <1>1, <1>2, <1>3, <1>4 DEF LaterView
<1>6. k \in Slots /\ k \in Nat
  BY <1>1, <1>4, ExecAssumption DEF Slots
<1>7. /\ active \in [Commands -> Slots \union {NoChild}]
      /\ active' \in [Commands -> Slots \union {NoChild}]
      /\ active'[c] = k
      /\ \A d \in Commands \ {c} : active'[d] = active[d]
  BY <1>1, <1>4, <1>6 DEF ExecTypeOK
<1>8. ExecTypeOK'
  BY <1>1, <1>4, <1>5, <1>6, <1>7 DEF ExecTypeOK
<1>9. OwnsItsCommand'
  <2> SUFFICES ASSUME NEW d \in Commands, active'[d] /= NoChild
               PROVE  active'[d] \in DOMAIN execs' /\ execs'[active'[d]].command = d
    BY DEF OwnsItsCommand
  <2>1. CASE d = c
    BY <2>1, <1>5, <1>6, <1>7
  <2>2. CASE d /= c
    BY <2>2, <1>5, <1>7 DEF ExecInv, OwnsItsCommand
  <2> QED
    BY <2>1, <2>2
<1>10. ASSUME NEW j \in DOMAIN execs'
       PROVE  Held(execs', active', j)
  <2>1. CASE j = k
    BY <2>1, <1>5, <1>6, <1>7 DEF Held, NewestIn
  <2>2. CASE j /= k
    <3>1. /\ j \in DOMAIN execs /\ j \in Nat /\ j < k
          /\ execs'[j].command = execs[j].command
          /\ execs'[j].proc = "alive" => execs[j].proc = "alive"
      BY <2>2, <1>5, <1>6
    <3>2. CASE execs[j].command = c
      <4>1. active'[c] /= j
        BY <3>1, <1>6, <1>7
      <4>2. ~NewestIn(execs', c, j)
        BY <3>1, <1>5, <1>6 DEF NewestIn
      <4> QED
        BY <3>1, <3>2, <4>1, <4>2 DEF Held
    <3>3. CASE execs[j].command /= c
      <4> DEFINE d == execs[j].command
      <4>1. NewestIn(execs', d, j) <=> NewestIn(execs, d, j)
        BY <3>1, <3>3, <1>5, <1>6 DEF NewestIn
      <4>2. d \in Commands => active'[d] = active[d]
        BY <3>3, <1>7
      <4>3. Held(execs, active, j)
        BY <3>1 DEF ExecInv, HeldIn
      <4> QED
        BY <3>1, <4>1, <4>2, <4>3 DEF Held
    <3> QED
      BY <3>2, <3>3
  <2> QED
    BY <2>1, <2>2
<1>11. ChannelsDedupe'
  BY <1>1, <1>4, <1>7 DEF ExecInv, ExecTypeOK, ChannelsDedupe
<1> QED
  BY <1>8, <1>9, <1>10, <1>11 DEF ExecInv, HeldIn

-----------------------------------------------------------------------------
(* The other steps                                                         *)

\* The timeout kills and leaves the table as it is.
LEMMA ExecKillTimerStep ==
  ASSUME ExecInv, NEW k \in DOMAIN execs, ExecKillTimer(k)
  PROVE  ExecInv'
<1> DEFINE child == [execs[k] EXCEPT !.timer = FALSE, !.settled = TRUE,
                                         !.signalled = TRUE]
<1>1. ExecTypeOK /\ execs[k] \in ExecRecord
  BY ExecChildTyped DEF ExecInv
<1>2. /\ child \in ExecRecord /\ child.command = execs[k].command
      /\ child.proc = execs[k].proc
  BY <1>1 DEF ExecRecord
<1>3. execs' = [execs EXCEPT ![k] = child]
  BY <1>1 DEF ExecKillTimer, ExecRecord
<1>4. LaterView(execs')
  <2> HIDE DEF child
  <2> QED
    BY <1>1, <1>2, <1>3, RewriteOne
<1>5. ExecTypeOK' /\ active' = active /\ reflex' = reflex
  BY <1>1, <1>4 DEF ExecTypeOK, ExecKillTimer, LaterView
<1>6. OwnsItsCommand' /\ HeldIn(execs', active')
  BY <1>4, <1>5, NoChildStarts
<1> QED
  BY <1>5, <1>6 DEF ExecInv, ChannelsDedupe

\* A process that ends leaves its entry to its handlers.
LEMMA ExecProcessEndsStep ==
  ASSUME ExecInv, NEW k \in DOMAIN execs, ExecEnds(k)
  PROVE  ExecInv'
<1> DEFINE child == [execs[k] EXCEPT !.proc = "gone"]
<1>1. ExecTypeOK /\ execs[k] \in ExecRecord
  BY ExecChildTyped DEF ExecInv
<1>2. /\ child \in ExecRecord /\ child.command = execs[k].command
      /\ child.proc = "gone"
  BY <1>1 DEF ExecRecord
<1>3. execs' = [execs EXCEPT ![k] = child]
  BY <1>1 DEF ExecEnds, ExecRecord
<1>4. LaterView(execs')
  <2> HIDE DEF child
  <2> QED
    BY <1>1, <1>2, <1>3, RewriteOne
<1>5. ExecTypeOK' /\ active' = active /\ reflex' = reflex
  BY <1>1, <1>4 DEF ExecTypeOK, ExecEnds, LaterView
<1>6. OwnsItsCommand' /\ HeldIn(execs', active')
  BY <1>4, <1>5, NoChildStarts
<1> QED
  BY <1>5, <1>6 DEF ExecInv, ChannelsDedupe

\* The handlers remove the entry of their own child only.
LEMMA ExecSettleStep ==
  ASSUME ExecInv, NEW k \in DOMAIN execs, ExecSettle(k)
  PROVE  ExecInv'
<1>1. ExecTypeOK /\ execs[k] \in ExecRecord /\ execs[k].command \in Commands
  BY ExecChildTyped DEF ExecInv
<1>2. execs[k].proc = "gone" /\ active' = Disown(k) /\ reflex' = reflex
  BY DEF ExecSettle
<1>3. LaterView(execs')
  <2>1. CASE execs' = [execs EXCEPT ![k].timer = FALSE, ![k].closed = TRUE]
    <3> DEFINE child == [execs[k] EXCEPT !.timer = FALSE, !.closed = TRUE]
    <3>1. /\ child \in ExecRecord /\ child.command = execs[k].command
          /\ child.proc = execs[k].proc
      BY <1>1 DEF ExecRecord
    <3>2. execs' = [execs EXCEPT ![k] = child]
      BY <1>1, <2>1 DEF ExecRecord
    <3> HIDE DEF child
    <3> QED
      BY <1>1, <3>1, <3>2, RewriteOne
  <2>2. ASSUME NEW more \in BOOLEAN,
               execs' = [execs EXCEPT ![k].timer = FALSE, ![k].settled = TRUE,
                                            ![k].closed = ~more]
        PROVE  LaterView(execs')
    <3> DEFINE child == [execs[k] EXCEPT !.timer = FALSE, !.settled = TRUE,
                                             !.closed = ~more]
    <3>1. /\ child \in ExecRecord /\ child.command = execs[k].command
          /\ child.proc = execs[k].proc
      BY <1>1 DEF ExecRecord
    <3>2. execs' = [execs EXCEPT ![k] = child]
      BY <1>1, <2>2 DEF ExecRecord
    <3> HIDE DEF child
    <3> QED
      BY <1>1, <3>1, <3>2, RewriteOne
  <2> QED
    BY <2>1, <2>2 DEF ExecSettle
<1>4. /\ active \in [Commands -> Slots \union {NoChild}]
      /\ active' \in [Commands -> Slots \union {NoChild}]
      /\ \A c \in Commands : active'[c] \in {active[c], NoChild}
  BY <1>1, <1>2 DEF ExecTypeOK, Disown
<1>5. execChild' \in Slots \union {NoChild} /\ execShown' \in {"idle", "running", "done", "error"}
  BY <1>1 DEF ExecTypeOK, ExecSettle
<1>6. ExecTypeOK'
  BY <1>1, <1>2, <1>3, <1>4, <1>5 DEF ExecTypeOK, LaterView
<1>7. OwnsItsCommand' /\ HeldIn(execs', active')
  BY <1>2, <1>3, <1>6, NoChildStarts
<1>8. ChannelsDedupe'
  BY <1>1, <1>2, <1>4 DEF ExecInv, ExecTypeOK, ChannelsDedupe
<1> QED
  BY <1>6, <1>7, <1>8 DEF ExecInv

\* A command outside the whitelist reaches no table.
LEMMA ForbiddenStep ==
  ASSUME ExecInv, NEW c \in Commands, ForbiddenExec(c) \/ SpawnExecThrows(c)
  PROVE  ExecInv'
<1>1. /\ ExecTypeOK /\ LaterView(execs') /\ UNCHANGED <<execChild, active, reflex>>
      /\ execShown' \in {"error", "running"}
  BY CurrentKilledIsLater DEF ExecInv, ForbiddenExec, SpawnExecThrows
<1>2. ExecTypeOK'
  BY <1>1 DEF ExecTypeOK, LaterView
<1>3. OwnsItsCommand' /\ HeldIn(execs', active')
  BY <1>1, <1>2, NoChildStarts
<1> QED
  BY <1>1, <1>2, <1>3 DEF ExecInv, ChannelsDedupe

\* Steps that leave the children and their entries alone.
LEMMA QuietStep ==
  ASSUME ExecInv, UNCHANGED <<execChild, active, execs>>,
         reflex' \subseteq Commands, execShown' \in {"idle", "running", "done", "error"},
         \A c \in reflex' \ reflex : active[c] = NoChild
  PROVE  ExecInv'
<1>1. ExecTypeOK' /\ ChannelsDedupe'
  BY DEF ExecInv, ExecTypeOK, ChannelsDedupe
<1>2. OwnsItsCommand' /\ HeldIn(execs', active')
  BY DEF ExecInv, OwnsItsCommand
<1> QED
  BY <1>1, <1>2 DEF ExecInv

-----------------------------------------------------------------------------
(* The theorems                                                            *)

\* The run channel's inductive invariant holds always.
LEMMA ExecInvariance == ExecSpec => []ExecInv
<1>1. ExecInit => ExecInv
  BY ExecAssumption
     DEF ExecInit, ExecInv, ExecTypeOK, OwnsItsCommand, HeldIn, ChannelsDedupe
<1>2. ExecInv /\ [ExecNext]_execVars => ExecInv'
  <2> SUFFICES ASSUME ExecInv, [ExecNext]_execVars PROVE ExecInv'
    OBVIOUS
  <2>0. ExecTypeOK
    BY DEF ExecInv
  <2>1. CASE RefuseExec
    BY <2>0, <2>1, QuietStep DEF RefuseExec, ExecTypeOK
  <2>2. ASSUME NEW c \in Commands, DedupeExec(c) PROVE ExecInv'
    BY <2>0, <2>2, QuietStep DEF DedupeExec, ExecTypeOK
  <2>3. ASSUME NEW c \in Commands, ReflexTakes(c) PROVE ExecInv'
    BY <2>0, <2>3, QuietStep DEF ReflexTakes, ExecTypeOK
  <2>4. ASSUME NEW c \in Commands, ReflexEnds(c) PROVE ExecInv'
    BY <2>0, <2>4, QuietStep DEF ReflexEnds, ExecTypeOK
  <2>5. ASSUME NEW c \in Commands, SpawnExec(c) PROVE ExecInv'
    BY <2>5, SpawnStep
  <2>6. ASSUME NEW c \in Commands, ForbiddenExec(c) \/ SpawnExecThrows(c) PROVE ExecInv'
    BY <2>6, ForbiddenStep
  <2>7. ASSUME NEW k \in DOMAIN execs, ExecKillTimer(k) PROVE ExecInv'
    BY <2>7, ExecKillTimerStep
  <2>8. ASSUME NEW k \in DOMAIN execs, ExecEnds(k) PROVE ExecInv'
    BY <2>8, ExecProcessEndsStep
  <2>9. ASSUME NEW k \in DOMAIN execs, ExecSettle(k) PROVE ExecInv'
    BY <2>9, ExecSettleStep
  <2>10. CASE UNCHANGED execVars
    BY <2>0, <2>10, QuietStep DEF execVars, ExecTypeOK
  <2> QED
    BY <2>1, <2>2, <2>3, <2>4, <2>5, <2>6, <2>7, <2>8, <2>9, <2>10 DEF ExecNext
<1> QED
  BY <1>1, <1>2, PTL DEF ExecSpec

\* The channel's variables keep their types, whatever fires in whatever order.
THEOREM ExecTypeCorrect == ExecSpec => []ExecTypeOK
<1>1. ExecInv => ExecTypeOK
  BY DEF ExecInv
<1> QED
  BY <1>1, ExecInvariance, PTL

\* spawnExecActive holds a command for its newest child and for no other, up to
\* that child's own end: no late event of an older one evicts it.
THEOREM NewestHolds == ExecSpec => []HeldByTheNewest
<1>1. ExecInv => HeldByTheNewest
  <2> SUFFICES ASSUME ExecInv, NEW k \in DOMAIN execs
               PROVE  LET c == execs[k].command
                      IN  /\ active[c] = k => Newest(c, k)
                          /\ Newest(c, k) /\ execs[k].proc = "alive" => active[c] = k
    BY DEF HeldByTheNewest
  <2>1. execs[k].command \in Commands
    BY ExecChildTyped DEF ExecInv
  <2>2. Held(execs, active, k)
    BY DEF ExecInv, HeldIn
  <2> QED
    BY <2>1, <2>2 DEF Held, NewestIn, Newest
<1> QED
  BY <1>1, ExecInvariance, PTL

\* The exec channel and the reflex engine never hold one command together.
THEOREM ChannelsStayApart == ExecSpec => []ChannelsDedupe
<1>1. ExecInv => ChannelsDedupe
  BY DEF ExecInv
<1> QED
  BY <1>1, ExecInvariance, PTL
=================================================================================
