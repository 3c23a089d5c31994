------------------------------- MODULE License -------------------------------
(***************************************************************************)
(* agentica_core/licensing.py: ~/.samurai/license.json on the machines a   *)
(* key is used on.  Gates re-check the key with the provider within the    *)
(* refund window (is_pro, revalidate, _commit), the user activates,          *)
(* deactivates and refreshes, the provider counts seats                    *)
(* (execution/gumroad_mcp.py) and takes keys back.                         *)
(*                                                                         *)
(* Abstractions.                                                           *)
(*  - Time is in days; every key was sold on day 0.                        *)
(*  - A key is refunded within the window only: REFUND_WINDOW_DAYS is the  *)
(*    guarantee and the time it takes to post the refund.  The seller may  *)
(*    disable a key on any day.  Neither is taken back.                    *)
(***************************************************************************)
EXTENDS Naturals, FiniteSets

CONSTANTS
  LicenseKeys, Machines,
  Gates,       \* processes that ask is_pro() ...
  Forced,      \* ... and those that run `samurai license --refresh`
  On,          \* On[g]: the machine of g
  Window,      \* REFUND_WINDOW_DAYS
  MaxActivations,
  MaxUses,     \* bound: requests that count
  MaxDay       \* bound: days

ASSUME LicenseAssumption ==
  /\ LicenseKeys # {} /\ "none" \notin Gates
  /\ On \in [Gates -> Machines] /\ Forced \subseteq Gates
  /\ Window \in Nat /\ MaxActivations \in Nat /\ MaxUses \in Nat /\ MaxDay \in Nat

VARIABLES
  day,
  verdict,    \* verdict[k]: what the provider thinks of k
  uses,       \* uses[k]: activations the provider has counted
  file,       \* file[m]: license.json
  flock,      \* flock[m]: the gate that holds .license.lock
  gate,       \* gate[g]: where its re-check is
  person,     \* person[m]: where `samurai activate` is, and with which key
  ended       \* ended[m]: what has ended Pro on m since its last activation

licenseVars == <<day, verdict, uses, file, flock, gate, person, ended>>

NoFile == [status |-> "none"]
Entitlements ==
  [key : LicenseKeys, status : {"active", "revoked"}, settled : BOOLEAN,
   checked : 0 .. MaxDay]

NoGate == "none"
Replies == {"good", "revoked", "unclear"}
Asleep == [at |-> "idle"]

LicenseTypeOK ==
  /\ day \in 0 .. MaxDay
  /\ verdict \in [LicenseKeys -> {"good", "refunded", "disabled"}]
  /\ uses \in [LicenseKeys -> 0 .. MaxUses]
  /\ file \in [Machines -> Entitlements \union {NoFile}]
  /\ flock \in [Machines -> Gates \union {NoGate}]
  /\ gate \in [Gates ->
       {Asleep}
       \union [at : {"ask"}, ent : Entitlements, now : 0 .. MaxDay]
       \union [at : {"commit"}, ent : Entitlements, now : 0 .. MaxDay, answer : Replies]
       \union [at : {"write"}, ent : Entitlements]]
  /\ person \in [Machines -> [at : {"idle", "count", "write"}, key : LicenseKeys]]
  /\ ended \in [Machines -> {"no", "removed", "revoked"}]

NoUser == [at |-> "idle", key |-> CHOOSE k \in LicenseKeys : TRUE]

LicenseInit ==
  /\ day = 0
  /\ verdict = [k \in LicenseKeys |-> "good"] /\ uses = [k \in LicenseKeys |-> 0]
  /\ file = [m \in Machines |-> NoFile]
  /\ flock = [m \in Machines |-> NoGate]
  /\ gate = [g \in Gates |-> Asleep]
  /\ person = [m \in Machines |-> NoUser]
  /\ ended = [m \in Machines |-> "no"]

\* _stored_pro, and isProEntitled of api/src/licensing.ts.
Pro(ent) == ent.status = "active"

-----------------------------------------------------------------------------
(* The provider and time                                                   *)

Withdraws(k) ==
  /\ verdict[k] = "good"
  /\ \E s \in {"refunded", "disabled"} :
       /\ s = "refunded" => day < Window
       /\ verdict' = [verdict EXCEPT ![k] = s]
  /\ UNCHANGED <<day, uses, file, flock, gate, person, ended>>

DayPasses ==
  /\ day < MaxDay /\ day' = day + 1
  /\ UNCHANGED <<verdict, uses, file, flock, gate, person, ended>>

-----------------------------------------------------------------------------
(* A gate's re-check                                                       *)

GateOnly == UNCHANGED <<day, verdict, uses, person>>

\* RECHECK_INTERVAL_HOURS is a day.
RecheckDue(ent) == ~ent.settled /\ day > ent.checked

\* The time of the check is that of its begin; --refresh asks of any Pro file.
CheckBegins(g) ==
  LET ent == file[On[g]]
  IN /\ gate[g] = Asleep /\ Pro(ent)
     /\ g \in Forced \/ RecheckDue(ent)
     /\ gate' = [gate EXCEPT ![g] = [at |-> "ask", ent |-> ent, now |-> day]]
     /\ UNCHANGED <<file, flock, ended>> /\ GateOnly

\* What the provider thinks of the key; or no answer, or one that says nothing.
Asks(g) ==
  /\ gate[g].at = "ask"
  /\ \E answer \in {"unclear", IF verdict[gate[g].ent.key] = "good" THEN "good" ELSE "revoked"} :
       gate' = [gate EXCEPT ![g] =
         [at |-> "commit", ent |-> gate[g].ent, now |-> gate[g].now, answer |-> answer]]
  /\ UNCHANGED <<file, flock, ended>> /\ GateOnly

\* The window was over when the check began.
PastWindow(check) == check.now >= Window

\* _apply_answer's change to the entitlement.
Answered(ent, check) ==
  CASE check.answer = "revoked" ->
         [ent EXCEPT !.status = "revoked", !.checked = check.now]
    [] check.answer = "good" ->
         [ent EXCEPT !.checked = check.now, !.settled = PastWindow(check)]
    [] OTHER -> [ent EXCEPT !.checked = check.now]

\* Mutant: any Pro file takes the answer.
AnyPro(cur, check) == Pro(cur)

\* Only a file that is still Pro, of the key the provider was asked about.
SameLicense(cur, check) == Pro(cur) /\ cur.key = check.ent.key

\* _commit takes the lock and reads the file again ...
Commits(g) ==
  LET cur == file[On[g]]
  IN /\ gate[g].at = "commit" /\ flock[On[g]] = NoGate
     /\ IF SameLicense(cur, gate[g])
        THEN /\ gate' = [gate EXCEPT ![g] = [at |-> "write", ent |-> Answered(cur, gate[g])]]
             /\ flock' = [flock EXCEPT ![On[g]] = g]
        ELSE gate' = [gate EXCEPT ![g] = Asleep] /\ UNCHANGED flock
     /\ UNCHANGED <<file, ended>> /\ GateOnly

\* ... and replaces it.
GateWrites(g) ==
  LET m == On[g]
  IN /\ gate[g].at = "write"
     /\ file' = [file EXCEPT ![m] = gate[g].ent]
     /\ ended' = IF Pro(gate[g].ent) THEN ended ELSE [ended EXCEPT ![m] = "revoked"]
     /\ gate' = [gate EXCEPT ![g] = Asleep]
     /\ flock' = [flock EXCEPT ![m] = NoGate]
     /\ GateOnly

\* The process dies, or the home is not writable; the flock goes with it.
GateDies(g) ==
  /\ gate[g] # Asleep
  /\ gate' = [gate EXCEPT ![g] = Asleep]
  /\ flock' = IF flock[On[g]] = g THEN [flock EXCEPT ![On[g]] = NoGate] ELSE flock
  /\ UNCHANGED <<file, ended>> /\ GateOnly

-----------------------------------------------------------------------------
(* The user.  Neither command takes the lock.                                *)

UserOnly == UNCHANGED <<day, verdict, flock, gate>>

\* activate: the first request does not count and refuses a key at the cap.
Activates(m, k) ==
  /\ person[m].at = "idle"
  /\ verdict[k] = "good" /\ uses[k] < MaxActivations
  /\ person' = [person EXCEPT ![m] = [at |-> "count", key |-> k]]
  /\ UNCHANGED <<uses, file, ended>> /\ UserOnly

\* activate_license_key: over the cap means too many machines.
WithinCap(k) == uses[k] + 1 <= MaxActivations

\* The second request counts a use, also if its answer is lost.
Counts(m) ==
  LET k == person[m].key
  IN /\ person[m].at = "count"
     /\ \/ /\ verdict[k] = "good" /\ uses[k] < MaxUses
           /\ uses' = [uses EXCEPT ![k] = uses[k] + 1]
           /\ \/ WithinCap(k) /\ person' = [person EXCEPT ![m].at = "write"]
              \/ person' = [person EXCEPT ![m] = NoUser]
        \/ person' = [person EXCEPT ![m] = NoUser] /\ UNCHANGED uses
     /\ UNCHANGED <<file, ended>> /\ UserOnly

Activated(m) ==
  /\ person[m].at = "write"
  /\ file' = [file EXCEPT ![m] = [key |-> person[m].key, status |-> "active",
                                  settled |-> FALSE, checked |-> day]]
  /\ ended' = [ended EXCEPT ![m] = "no"]
  /\ person' = [person EXCEPT ![m] = NoUser]
  /\ UNCHANGED uses /\ UserOnly

Deactivates(m) ==
  /\ person[m].at = "idle" /\ file[m] # NoFile
  /\ file' = [file EXCEPT ![m] = NoFile]
  /\ ended' = [ended EXCEPT ![m] = "removed"]
  /\ UNCHANGED <<uses, person>> /\ UserOnly

LicenseNext ==
  \/ \E k \in LicenseKeys : Withdraws(k)
  \/ DayPasses
  \/ \E g \in Gates :
       CheckBegins(g) \/ Asks(g) \/ Commits(g) \/ GateWrites(g) \/ GateDies(g)
  \/ \E m \in Machines :
       \/ \E k \in LicenseKeys : Activates(m, k)
       \/ Counts(m) \/ Activated(m) \/ Deactivates(m)

LicenseSpec == LicenseInit /\ [][LicenseNext]_licenseVars

-----------------------------------------------------------------------------
(* Properties                                                              *)

\* A license that a re-check has revoked does not come back but by an
\* activation: no gate with an older answer writes it
\* (agentica_core/licensing.py:214-231).
RevokedStaysRevoked == \A m \in Machines : ended[m] = "revoked" => ~Pro(file[m])

\* The same, said there of a license the user removed.  It does not hold:
\* deactivate() does not take the lock, and the file it removes between the read
\* and the write of a _commit is written again.
RemovedStaysRemoved == \A m \in Machines : ended[m] = "removed" => file[m] = NoFile

\* Only a key the provider took back is revoked, whatever key is activated while
\* a gate waits for an answer about another (agentica_core/licensing.py:217-228).
OnlyWithdrawnIsRevoked ==
  \A m \in Machines :
    file[m].status = "revoked" => verdict[file[m].key] # "good"

\* A key that was refunded is not marked as past the window, which would end its
\* re-checks for ever (agentica_core/licensing.py:198-206).
RefundIsNotSettled ==
  \A m \in Machines :
    file[m] # NoFile /\ file[m].settled => verdict[file[m].key] # "refunded"

\* No more machines are Pro on a key than it has activations, however their
\* requests interleave (execution/gumroad_mcp.py:115-122).
SeatLimitHolds ==
  \A k \in LicenseKeys :
    Cardinality({m \in Machines : Pro(file[m]) /\ file[m].key = k}) <= MaxActivations

\* Gates, activations and deactivations in any order neither bring a revoked
\* license back, nor take a good one, nor settle a refunded one, nor pass the
\* limit on seats (agentica_core/licensing.py:188-230).
LicenseInv ==
  /\ LicenseTypeOK
  /\ RevokedStaysRevoked
  /\ OnlyWithdrawnIsRevoked
  /\ RefundIsNotSettled
  /\ SeatLimitHolds
=============================================================================
