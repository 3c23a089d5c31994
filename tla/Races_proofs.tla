--------------------------- MODULE Races_proofs ---------------------------
(***************************************************************************)
(* Theorems about what several processes race over: the license file, its  *)
(* advisory lock and the seats of a key (License), for any set of keys,    *)
(* machines and gates, and the overnight session, its lock directory, its  *)
(* stash and its worktree (Meditation), for any set of nights and chores.  *)
(***************************************************************************)
EXTENDS License, Meditation, FiniteSetTheorems, TLAPS

-----------------------------------------------------------------------------
(* The license                                                             *)

USE LicenseAssumption

\* What an entitlement says of its key is true, and stays so: the provider takes
\* nothing back, and refunds within the window only.
SoundBy(ent, v, today) ==
  /\ ent.status = "revoked" => v[ent.key] # "good"
  /\ ent.settled => today >= Window /\ v[ent.key] # "refunded"

Sound(ent) == SoundBy(ent, verdict, day)

FilesAreSound == \A m \in Machines : file[m] # NoFile => Sound(file[m])

WritesAreSound == \A g \in Gates : gate[g].at = "write" => Sound(gate[g].ent)

\* An answer was true when it was given, on a day not before the check began.
AnswersAreSound ==
  \A g \in Gates :
    /\ gate[g].at \in {"ask", "commit"} => gate[g].now <= day
    /\ gate[g].at = "commit" =>
         /\ gate[g].answer = "revoked" => verdict[gate[g].ent.key] # "good"
         /\ gate[g].answer = "good" /\ PastWindow(gate[g]) =>
              verdict[gate[g].ent.key] # "refunded"

LockIsTheWriters == \A g \in Gates : gate[g].at = "write" => flock[On[g]] = g

\* Who is about to write a Pro file read one, and nobody has ended it since.
WritersFoundItPro ==
  \A g \in Gates :
    gate[g].at = "write" /\ Pro(gate[g].ent) => ended[On[g]] # "revoked"

\* m is Pro on k, or somebody is about to make it so.
Holds(m, k) ==
  \/ Pro(file[m]) /\ file[m].key = k
  \/ person[m].at = "write" /\ person[m].key = k
  \/ \E g \in Gates :
       /\ On[g] = m /\ gate[g].at = "write"
       /\ Pro(gate[g].ent) /\ gate[g].ent.key = k

Holders(k) == {m \in Machines : Holds(m, k)}

\* Every machine that holds a key was counted when it came to hold it.
Counted(k) ==
  /\ IsFiniteSet(Holders(k))
  /\ Cardinality(Holders(k)) <= uses[k]
  /\ Cardinality(Holders(k)) <= MaxActivations

SeatsAreCounted == \A k \in LicenseKeys : Counted(k)

LicenseIInv ==
  /\ LicenseTypeOK
  /\ FilesAreSound /\ WritesAreSound /\ AnswersAreSound
  /\ LockIsTheWriters /\ WritersFoundItPro /\ RevokedStaysRevoked
  /\ SeatsAreCounted

GateStep(g) ==
  CheckBegins(g) \/ Asks(g) \/ Commits(g) \/ GateWrites(g) \/ GateDies(g)

UserStep(m) ==
  \/ \E k \in LicenseKeys : Activates(m, k)
  \/ Counts(m) \/ Activated(m) \/ Deactivates(m)

\* What a gate holds, by where it is; and what it makes of the file.
LEMMA GateFacts ==
  ASSUME LicenseTypeOK, NEW g \in Gates
  PROVE  /\ gate[g].at \in {"idle", "ask", "commit", "write"}
         /\ gate[g] = Asleep <=> gate[g].at = "idle"
         /\ gate[g].at \in {"ask", "commit", "write"} => gate[g].ent \in Entitlements
         /\ gate[g].at \in {"ask", "commit"} => gate[g].now \in 0 .. MaxDay
         /\ gate[g].at = "commit" => gate[g].answer \in Replies
         /\ On[g] \in Machines
<1>1. gate[g] \in {Asleep}
       \union [at : {"ask"}, ent : Entitlements, now : 0 .. MaxDay]
       \union [at : {"commit"}, ent : Entitlements, now : 0 .. MaxDay, answer : Replies]
       \union [at : {"write"}, ent : Entitlements]
  BY DEF LicenseTypeOK
<1>2. Asleep.at = "idle"
  BY DEF Asleep
<1>3. CASE gate[g] = Asleep
  BY <1>2, <1>3
<1>4. CASE gate[g] \in [at : {"ask"}, ent : Entitlements, now : 0 .. MaxDay]
  BY <1>2, <1>4
<1>5. CASE gate[g] \in
        [at : {"commit"}, ent : Entitlements, now : 0 .. MaxDay, answer : Replies]
  BY <1>2, <1>5
<1>6. CASE gate[g] \in [at : {"write"}, ent : Entitlements]
  BY <1>2, <1>6
<1> QED  BY <1>1, <1>3, <1>4, <1>5, <1>6

\* What is known of a license file.
LEMMA FileFacts ==
  ASSUME LicenseTypeOK, NEW m \in Machines
  PROVE  /\ file[m] = NoFile \/ file[m] \in Entitlements
         /\ NoFile.status = "none" /\ NoFile \notin Entitlements
         /\ Pro(file[m]) => file[m] \in Entitlements
         /\ file[m].status = "revoked" => file[m] \in Entitlements
<1>1. file[m] \in Entitlements \union {NoFile}
  BY DEF LicenseTypeOK
<1>2. NoFile.status = "none"
  BY DEF NoFile
<1>3. \A e \in Entitlements : e.status # "none"
  BY DEF Entitlements
<1> QED  BY <1>1, <1>2, <1>3 DEF Pro

\* An answer changes what it is about: status, time and whether the window is over.
LEMMA AnsweredFacts ==
  ASSUME NEW e \in Entitlements, NEW c, c.answer \in Replies, c.now \in 0 .. MaxDay
  PROVE  /\ Answered(e, c) \in Entitlements
         /\ Answered(e, c).key = e.key
         /\ Answered(e, c).status = IF c.answer = "revoked" THEN "revoked" ELSE e.status
         /\ Answered(e, c).settled =
              IF c.answer = "good" THEN PastWindow(c) ELSE e.settled
<1>1. PastWindow(c) \in BOOLEAN
  BY DEF PastWindow
<1>2. CASE c.answer = "revoked"
  <2>1. Answered(e, c) = [e EXCEPT !.status = "revoked", !.checked = c.now]
    BY <1>2 DEF Answered
  <2> QED  BY <2>1, <1>2 DEF Entitlements
<1>3. CASE c.answer = "good"
  <2>1. Answered(e, c) = [e EXCEPT !.checked = c.now, !.settled = PastWindow(c)]
    BY <1>3 DEF Answered
  <2> QED  BY <2>1, <1>3, <1>1 DEF Entitlements
<1>4. CASE c.answer = "unclear"
  <2>1. Answered(e, c) = [e EXCEPT !.checked = c.now]
    BY <1>4 DEF Answered
  <2> QED  BY <2>1, <1>4 DEF Entitlements
<1> QED  BY <1>2, <1>3, <1>4 DEF Replies

-----------------------------------------------------------------------------
(* Types                                                                   *)

\* An idle user, whose key is unspecified, is typed all the same.
LEMMA NoUserKey == NoUser \in [at : {"idle", "count", "write"}, key : LicenseKeys]
  BY DEF NoUser

\* Nobody runs and no file is written yet.
LEMMA LicenseStarts == LicenseInit => LicenseIInv
<1> SUFFICES ASSUME LicenseInit PROVE LicenseIInv
  OBVIOUS
<1>1. LicenseTypeOK
  BY NoUserKey DEF LicenseInit, LicenseTypeOK, NoGate
<1>2. \A g \in Gates : gate[g].at = "idle"
  BY DEF LicenseInit, Asleep
<1>3. \A m \in Machines : /\ file[m] = NoFile /\ ended[m] = "no"
                          /\ file[m].status = "none" /\ person[m].at = "idle"
  BY DEF LicenseInit, NoFile, NoUser
<1>4. \A k \in LicenseKeys : Holders(k) = {}
  BY <1>2, <1>3 DEF Holders, Holds, Pro
<1>5. SeatsAreCounted
  BY <1>4, FS_EmptySet DEF SeatsAreCounted, Counted, LicenseInit
<1>6. FilesAreSound /\ RevokedStaysRevoked
  BY <1>3 DEF FilesAreSound, RevokedStaysRevoked
<1>7. WritesAreSound /\ AnswersAreSound /\ LockIsTheWriters /\ WritersFoundItPro
  BY <1>2 DEF WritesAreSound, AnswersAreSound, LockIsTheWriters, WritersFoundItPro
<1> QED  BY <1>1, <1>5, <1>6, <1>7 DEF LicenseIInv

\* Every step of a gate keeps the types.
LEMMA GateKeepsTypes ==
  ASSUME LicenseTypeOK, NEW g \in Gates, GateStep(g)
  PROVE  LicenseTypeOK'
<1> DEFINE Known == {Asleep}
       \union [at : {"ask"}, ent : Entitlements, now : 0 .. MaxDay]
       \union [at : {"commit"}, ent : Entitlements, now : 0 .. MaxDay, answer : Replies]
       \union [at : {"write"}, ent : Entitlements]
<1> USE GateFacts DEF LicenseTypeOK
<1>0. On[g] \in Machines /\ Asleep \in Known
  OBVIOUS
<1>1. CASE CheckBegins(g)
  <2> DEFINE next == [at |-> "ask", ent |-> file[On[g]], now |-> day]
  <2>1. file[On[g]] \in Entitlements
    BY <1>0, <1>1, FileFacts DEF CheckBegins
  <2>2. next \in Known
    BY <2>1
  <2>3. gate' = [gate EXCEPT ![g] = next]
    BY <1>1 DEF CheckBegins
  <2> HIDE DEF next
  <2>4. gate' \in [Gates -> Known]
    BY <2>2, <2>3
  <2> QED  BY <2>4, <1>1 DEF CheckBegins, GateOnly
<1>2. CASE Asks(g)
  <2>1. PICK a \in {"unclear", "good", "revoked"} :
          gate' = [gate EXCEPT ![g] = [at |-> "commit", ent |-> gate[g].ent,
                                       now |-> gate[g].now, answer |-> a]]
    BY <1>2 DEF Asks
  <2> DEFINE next == [at |-> "commit", ent |-> gate[g].ent,
                      now |-> gate[g].now, answer |-> a]
  <2>2. next \in Known
    BY <1>2 DEF Asks, Replies
  <2> HIDE DEF next
  <2>4. gate' \in [Gates -> Known]
    BY <2>1, <2>2 DEF next
  <2> QED  BY <2>4, <1>2 DEF Asks, GateOnly
<1>3. CASE Commits(g)
  <2>1. CASE SameLicense(file[On[g]], gate[g])
    <3> DEFINE next == [at |-> "write", ent |-> Answered(file[On[g]], gate[g])]
    <3>1. file[On[g]] \in Entitlements
      BY <1>0, <2>1, FileFacts DEF SameLicense
    <3>2. Answered(file[On[g]], gate[g]) \in Entitlements
      BY <1>3, <3>1, AnsweredFacts DEF Commits
    <3>3. next \in Known
      BY <3>2
    <3>4. gate' = [gate EXCEPT ![g] = next] /\ flock' = [flock EXCEPT ![On[g]] = g]
      BY <1>3, <2>1 DEF Commits
    <3> HIDE DEF next
    <3>5. gate' \in [Gates -> Known]
      BY <3>3, <3>4
    <3> QED  BY <1>0, <3>4, <3>5, <1>3 DEF Commits, GateOnly
  <2>2. CASE ~SameLicense(file[On[g]], gate[g])
    <3>1. gate' \in [Gates -> Known]
      BY <1>0, <1>3, <2>2 DEF Commits
    <3> QED  BY <3>1, <1>3, <2>2 DEF Commits, GateOnly
  <2> QED  BY <2>1, <2>2
<1>4. CASE GateWrites(g)
  <2>1. gate' \in [Gates -> Known]
    BY <1>0, <1>4 DEF GateWrites
  <2>2. file' \in [Machines -> Entitlements \union {NoFile}]
    BY <1>0, <1>4 DEF GateWrites
  <2> QED  BY <1>0, <2>1, <2>2, <1>4 DEF GateWrites, GateOnly
<1>5. CASE GateDies(g)
  <2>1. gate' \in [Gates -> Known]
    BY <1>0, <1>5 DEF GateDies
  <2> QED  BY <1>0, <2>1, <1>5 DEF GateDies, GateOnly
<1> QED  BY <1>1, <1>2, <1>3, <1>4, <1>5 DEF GateStep

\* So does every step of the user.
LEMMA UserKeepsTypes ==
  ASSUME LicenseTypeOK, NEW m \in Machines, UserStep(m)
  PROVE  LicenseTypeOK'
<1> DEFINE P == [at : {"idle", "count", "write"}, key : LicenseKeys]
<1> USE NoUserKey DEF LicenseTypeOK
<1>0. person[m] \in P
  OBVIOUS
<1>1. CASE \E k \in LicenseKeys : Activates(m, k)
  <2>1. person' \in [Machines -> P]
    BY <1>1 DEF Activates
  <2> QED  BY <2>1, <1>1 DEF Activates, UserOnly
<1>2. CASE Counts(m)
  <2>1. person' \in [Machines -> P]
    <3>1. CASE person' = [person EXCEPT ![m].at = "write"]
      BY <1>0, <3>1
    <3>2. CASE person' = [person EXCEPT ![m] = NoUser]
      BY <3>2
    <3> QED  BY <1>2, <3>1, <3>2 DEF Counts
  <2>2. uses' \in [LicenseKeys -> 0 .. MaxUses]
    BY <1>0, <1>2 DEF Counts
  <2> QED  BY <2>1, <2>2, <1>2 DEF Counts, UserOnly
<1>3. CASE Activated(m)
  <2> DEFINE new == [key |-> person[m].key, status |-> "active",
                     settled |-> FALSE, checked |-> day]
  <2>1. new \in Entitlements
    BY <1>0 DEF Entitlements
  <2>2. file' = [file EXCEPT ![m] = new] /\ person' = [person EXCEPT ![m] = NoUser]
    BY <1>3 DEF Activated
  <2> HIDE DEF new
  <2>3. file' \in [Machines -> Entitlements \union {NoFile}] /\ person' \in [Machines -> P]
    BY <2>1, <2>2
  <2> QED  BY <2>3, <1>3 DEF Activated, UserOnly
<1>4. CASE Deactivates(m)
  BY <1>4 DEF Deactivates, UserOnly
<1> QED  BY <1>1, <1>2, <1>3, <1>4 DEF UserStep

\* The types, step by step.
LEMMA LicenseKeepsTypes ==
  ASSUME LicenseTypeOK, [LicenseNext]_licenseVars
  PROVE  LicenseTypeOK'
<1>1. CASE \E k \in LicenseKeys : Withdraws(k)
  BY <1>1 DEF LicenseTypeOK, Withdraws
<1>2. CASE DayPasses
  BY <1>2 DEF LicenseTypeOK, DayPasses
<1>3. CASE \E g \in Gates : GateStep(g)
  BY <1>3, GateKeepsTypes
<1>4. CASE \E m \in Machines : UserStep(m)
  BY <1>4, UserKeepsTypes
<1>5. CASE UNCHANGED licenseVars
  BY <1>5 DEF LicenseTypeOK, licenseVars
<1> QED
  BY <1>1, <1>2, <1>3, <1>4, <1>5 DEF LicenseNext, GateStep, UserStep

-----------------------------------------------------------------------------
(* What files, answers and writes say of a key                             *)

\* The provider and time make nothing unsound.
LEMMA SoundStays ==
  ASSUME LicenseTypeOK, [LicenseNext]_licenseVars, NEW e \in Entitlements
  PROVE  /\ Sound(e) => SoundBy(e, verdict', day')
         /\ verdict[e.key] # "good" => verdict'[e.key] # "good"
         /\ day <= day' /\ day \in Nat /\ day' \in Nat
         /\ day >= Window /\ verdict[e.key] # "refunded" => verdict'[e.key] # "refunded"
<1>0. e.key \in LicenseKeys /\ day \in Nat /\ day' \in Nat
  BY LicenseKeepsTypes DEF Entitlements, LicenseTypeOK
<1>1. CASE \E k \in LicenseKeys : Withdraws(k)
  BY <1>0, <1>1 DEF Withdraws, Sound, SoundBy, LicenseTypeOK
<1>2. CASE UNCHANGED verdict /\ day <= day'
  BY <1>0, <1>2 DEF Sound, SoundBy
<1>3. CASE DayPasses
  BY <1>0, <1>2, <1>3 DEF DayPasses
<1>4. ASSUME NEW g \in Gates, GateStep(g) PROVE UNCHANGED verdict /\ day <= day'
  BY <1>0, <1>4 DEF GateStep, CheckBegins, Asks, Commits, GateWrites, GateDies, GateOnly
<1>5. ASSUME NEW m \in Machines, UserStep(m) PROVE UNCHANGED verdict /\ day <= day'
  BY <1>0, <1>5 DEF UserStep, Activates, Counts, Activated, Deactivates, UserOnly
<1>6. CASE UNCHANGED licenseVars
  BY <1>0, <1>2, <1>6 DEF licenseVars
<1> QED
  BY <1>1, <1>2, <1>3, <1>4, <1>5, <1>6 DEF LicenseNext, GateStep, UserStep

\* Which files a step may change, and to what.
LEMMA FilesChange ==
  ASSUME LicenseTypeOK, [LicenseNext]_licenseVars, NEW m \in Machines
  PROVE  \/ file'[m] = file[m]
         \/ file'[m] = NoFile
         \/ /\ person[m].at = "write" /\ file'[m].status = "active"
            /\ file'[m].key = person[m].key /\ ~file'[m].settled /\ ended'[m] = "no"
         \/ \E g \in Gates :
              GateWrites(g) /\ On[g] = m /\ file'[m] = gate[g].ent
<1>1. CASE \E k \in LicenseKeys : Withdraws(k)
  BY <1>1 DEF Withdraws
<1>2. CASE DayPasses
  BY <1>2 DEF DayPasses
<1>3. ASSUME NEW g \in Gates, GateStep(g), ~GateWrites(g) PROVE file' = file
  BY <1>3 DEF GateStep, CheckBegins, Asks, Commits, GateDies
<1>4. ASSUME NEW g \in Gates, GateWrites(g), On[g] = m PROVE file'[m] = gate[g].ent
  BY <1>4 DEF GateWrites, LicenseTypeOK
<1>5. ASSUME NEW g \in Gates, GateWrites(g), On[g] # m PROVE file'[m] = file[m]
  BY <1>5 DEF GateWrites, LicenseTypeOK
<1>6. ASSUME NEW n \in Machines, Activated(n), n = m
      PROVE  /\ person[m].at = "write" /\ file'[m].status = "active"
             /\ file'[m].key = person[m].key /\ ~file'[m].settled /\ ended'[m] = "no"
  BY <1>6 DEF Activated, LicenseTypeOK
<1>7. ASSUME NEW n \in Machines, UserStep(n), ~(Activated(n) /\ n = m)
      PROVE  file'[m] = file[m] \/ file'[m] = NoFile
  BY <1>7 DEF UserStep, Activates, Counts, Activated, Deactivates, LicenseTypeOK
<1>8. CASE UNCHANGED licenseVars
  BY <1>8 DEF licenseVars
<1>9. LicenseNext => \/ \E k \in LicenseKeys : Withdraws(k)
                     \/ DayPasses
                     \/ \E g \in Gates : GateStep(g)
                     \/ \E n \in Machines : UserStep(n)
  BY DEF LicenseNext, GateStep, UserStep
<1>10. CASE \E g \in Gates : GateStep(g)
  BY <1>3, <1>4, <1>5, <1>10
<1>11. CASE \E n \in Machines : UserStep(n)
  BY <1>6, <1>7, <1>11
<1> QED  BY <1>1, <1>2, <1>8, <1>9, <1>10, <1>11

\* Where a gate may come from.
LEMMA GatesChange ==
  ASSUME LicenseTypeOK, [LicenseNext]_licenseVars, NEW g \in Gates
  PROVE  \/ gate'[g] = gate[g]
         \/ gate'[g].at = "idle"
         \/ CheckBegins(g) \/ Asks(g) \/ Commits(g)
<1>1. CASE \E k \in LicenseKeys : Withdraws(k)
  BY <1>1 DEF Withdraws
<1>2. CASE DayPasses
  BY <1>2 DEF DayPasses
<1>3. ASSUME NEW h \in Gates, GateStep(h), h # g PROVE gate'[g] = gate[g]
  BY <1>3 DEF GateStep, CheckBegins, Asks, Commits, GateWrites, GateDies, LicenseTypeOK
<1>4. ASSUME GateWrites(g) \/ GateDies(g) PROVE gate'[g].at = "idle"
  <2>1. gate' = [gate EXCEPT ![g] = Asleep]
    BY <1>4 DEF GateWrites, GateDies
  <2> QED  BY <2>1 DEF LicenseTypeOK, Asleep
<1>5. ASSUME NEW n \in Machines, UserStep(n) PROVE gate'[g] = gate[g]
  BY <1>5 DEF UserStep, Activates, Counts, Activated, Deactivates, UserOnly
<1>6. CASE UNCHANGED licenseVars
  BY <1>6 DEF licenseVars
<1>7. LicenseNext => \/ \E k \in LicenseKeys : Withdraws(k)
                     \/ DayPasses
                     \/ \E h \in Gates : GateStep(h)
                     \/ \E n \in Machines : UserStep(n)
  BY DEF LicenseNext, GateStep, UserStep
<1>8. CASE \E h \in Gates : GateStep(h)
  BY <1>3, <1>4, <1>8 DEF GateStep
<1> QED  BY <1>1, <1>2, <1>5, <1>6, <1>7, <1>8

\* A file changes by a sound write only, and what is sound stays so.
LEMMA FilesStaySound ==
  ASSUME LicenseIInv, [LicenseNext]_licenseVars
  PROVE  FilesAreSound'
<1> SUFFICES ASSUME NEW m \in Machines, file'[m] # NoFile PROVE SoundBy(file'[m], verdict', day')
  BY DEF FilesAreSound, Sound
<1>0. LicenseTypeOK /\ FilesAreSound /\ WritesAreSound
  BY DEF LicenseIInv
<1>1. CASE file'[m] = file[m]
  BY <1>0, <1>1, FileFacts, SoundStays DEF FilesAreSound
<1>2. CASE file'[m].status = "active" /\ ~file'[m].settled
  BY <1>2 DEF Sound, SoundBy
<1>3. ASSUME NEW g \in Gates, GateWrites(g), file'[m] = gate[g].ent
      PROVE  SoundBy(file'[m], verdict', day')
  <2>1. gate[g].ent \in Entitlements /\ Sound(gate[g].ent)
    BY <1>0, <1>3, GateFacts DEF GateWrites, WritesAreSound
  <2> QED  BY <1>0, <1>3, <2>1, SoundStays
<1> QED  BY <1>0, <1>1, <1>2, <1>3, FilesChange

\* An answer is given of the verdict of that moment, and stays true.
LEMMA AnswersStaySound ==
  ASSUME LicenseIInv, [LicenseNext]_licenseVars
  PROVE  AnswersAreSound'
<1> SUFFICES ASSUME NEW g \in Gates
             PROVE  /\ gate'[g].at \in {"ask", "commit"} => gate'[g].now <= day'
                    /\ gate'[g].at = "commit" =>
                         /\ gate'[g].answer = "revoked" =>
                              verdict'[gate'[g].ent.key] # "good"
                         /\ gate'[g].answer = "good" /\ PastWindow(gate'[g]) =>
                              verdict'[gate'[g].ent.key] # "refunded"
  BY DEF AnswersAreSound
<1>0. LicenseTypeOK /\ AnswersAreSound /\ day \in 0 .. MaxDay
  BY DEF LicenseIInv, LicenseTypeOK
<1>1. CASE gate'[g] = gate[g]
  <2>1. CASE gate[g].at \in {"ask", "commit"}
    <3>1. /\ gate[g].ent \in Entitlements /\ gate[g].now \in Nat /\ gate[g].now <= day
      BY <1>0, <2>1, GateFacts DEF AnswersAreSound
    <3>2. PastWindow(gate[g]) => day >= Window
      BY <1>0, <3>1 DEF PastWindow
    <3> QED  BY <1>0, <1>1, <2>1, <3>1, <3>2, SoundStays DEF AnswersAreSound
  <2> QED  BY <1>1, <2>1
<1>2. CASE gate'[g].at = "idle"
  BY <1>2
<1>3. CASE CheckBegins(g)
  <2>1. gate'[g] = [at |-> "ask", ent |-> file[On[g]], now |-> day]
    BY <1>0, <1>3 DEF CheckBegins, LicenseTypeOK
  <2>2. day' = day
    BY <1>3 DEF CheckBegins, GateOnly
  <2> QED  BY <1>0, <2>1, <2>2
<1>4. CASE Asks(g)
  <2>1. PICK a \in {"unclear", IF verdict[gate[g].ent.key] = "good" THEN "good" ELSE "revoked"} :
          gate' = [gate EXCEPT ![g] = [at |-> "commit", ent |-> gate[g].ent,
                                       now |-> gate[g].now, answer |-> a]]
    BY <1>4 DEF Asks
  <2>2. gate'[g] = [at |-> "commit", ent |-> gate[g].ent,
                    now |-> gate[g].now, answer |-> a]
    BY <1>0, <2>1 DEF LicenseTypeOK
  <2>3. UNCHANGED <<day, verdict>> /\ gate[g].now <= day
    BY <1>0, <1>4 DEF Asks, GateOnly, AnswersAreSound
  <2> QED  BY <2>1, <2>2, <2>3
<1>5. CASE Commits(g)
  <2>1. gate'[g].at \in {"write", "idle"}
    BY <1>0, <1>5 DEF Commits, LicenseTypeOK, Asleep
  <2> QED  BY <2>1
<1> QED  BY <1>0, <1>1, <1>2, <1>3, <1>4, <1>5, GatesChange

\* What a gate is about to write is read under the lock from a sound file.
LEMMA WritesStaySound ==
  ASSUME LicenseIInv, [LicenseNext]_licenseVars
  PROVE  WritesAreSound'
<1> SUFFICES ASSUME NEW g \in Gates, gate'[g].at = "write" PROVE SoundBy(gate'[g].ent, verdict', day')
  BY DEF WritesAreSound, Sound
<1>0. /\ LicenseTypeOK /\ AnswersAreSound /\ WritesAreSound /\ FilesAreSound
      /\ day \in 0 .. MaxDay
  BY DEF LicenseIInv, LicenseTypeOK
<1>1. CASE gate'[g] = gate[g]
  <2>1. gate[g].ent \in Entitlements /\ Sound(gate[g].ent)
    BY <1>0, <1>1, GateFacts DEF WritesAreSound
  <2> QED  BY <1>0, <1>1, <2>1, SoundStays
<1>2. CASE CheckBegins(g) \/ Asks(g)
  <2>1. gate'[g].at \in {"ask", "commit"}
    BY <1>0, <1>2 DEF CheckBegins, Asks, LicenseTypeOK
  <2> QED  BY <2>1
<1>3. CASE Commits(g)
  <2> DEFINE cur == file[On[g]]
  <2>1. SameLicense(cur, gate[g]) /\ gate'[g] = [at |-> "write", ent |-> Answered(cur, gate[g])]
    BY <1>0, <1>3 DEF Commits, LicenseTypeOK, Asleep
  <2>2. cur \in Entitlements /\ cur # NoFile /\ cur.status = "active"
    BY <1>0, <2>1, GateFacts, FileFacts DEF SameLicense, Pro
  <2>3. gate[g].answer \in Replies /\ gate[g].now \in 0 .. MaxDay /\ gate[g].now <= day
    BY <1>0, <1>3, GateFacts DEF Commits, AnswersAreSound
  <2>4. Sound(cur)
    BY <1>0, <2>2, GateFacts DEF FilesAreSound
  <2>5. cur.key = gate[g].ent.key
    BY <2>1 DEF SameLicense
  <2>6. /\ gate[g].answer = "revoked" => verdict[cur.key] # "good"
        /\ gate[g].answer = "good" /\ PastWindow(gate[g]) =>
             day >= Window /\ verdict[cur.key] # "refunded"
    BY <1>0, <1>3, <2>3, <2>5 DEF Commits, AnswersAreSound, PastWindow
  <2>7. Sound(Answered(cur, gate[g]))
    BY <2>2, <2>3, <2>4, <2>6, AnsweredFacts DEF Sound, SoundBy
  <2>8. Answered(cur, gate[g]) \in Entitlements
    BY <2>2, <2>3, AnsweredFacts
  <2> HIDE DEF cur
  <2> QED  BY <1>0, <2>1, <2>7, <2>8, SoundStays
<1> QED  BY <1>0, <1>1, <1>2, <1>3, GatesChange

-----------------------------------------------------------------------------
(* The lock, and what was ended                                            *)

\* The lock is a gate's own from its read to its write: no other frees it.
LEMMA WriterKeepsItsLock ==
  ASSUME LicenseIInv, [LicenseNext]_licenseVars
  PROVE  LockIsTheWriters'
<1> SUFFICES ASSUME NEW g \in Gates, gate'[g].at = "write" PROVE flock'[On[g]] = g
  BY DEF LockIsTheWriters
<1>0. LicenseTypeOK /\ LockIsTheWriters /\ On[g] \in Machines
  BY DEF LicenseIInv
<1>1. CASE gate'[g] = gate[g]
  <2>1. flock[On[g]] = g /\ gate[g].at = "write" /\ gate[g] # Asleep /\ g # NoGate
    BY <1>0, <1>1, GateFacts DEF LockIsTheWriters, Asleep, NoGate
  <2>2. ASSUME NEW h \in Gates, GateStep(h), h # g PROVE flock'[On[g]] = flock[On[g]]
    <3>1. CASE GateWrites(h)
      <4>1. flock[On[h]] = h
        BY <1>0, <3>1 DEF GateWrites, LockIsTheWriters
      <4>2. On[h] # On[g]
        BY <2>1, <2>2, <4>1
      <4> QED  BY <1>0, <3>1, <4>2 DEF GateWrites, LicenseTypeOK
    <3>2. CASE Commits(h)
      <4>1. On[h] # On[g]
        BY <2>1, <3>2 DEF Commits
      <4> QED  BY <1>0, <3>2, <4>1 DEF Commits, LicenseTypeOK
    <3>3. CASE GateDies(h)
      BY <1>0, <2>1, <2>2, <3>3 DEF GateDies, LicenseTypeOK
    <3>4. CASE CheckBegins(h) \/ Asks(h)
      BY <3>4 DEF CheckBegins, Asks
    <3> QED  BY <2>2, <3>1, <3>2, <3>3, <3>4 DEF GateStep
  <2>3. ASSUME GateStep(g) PROVE FALSE
    <3>1. ~(CheckBegins(g) \/ Asks(g) \/ Commits(g))
      BY <2>1 DEF CheckBegins, Asks, Commits
    <3>2. gate' = [gate EXCEPT ![g] = Asleep]
      BY <2>3, <3>1 DEF GateStep, GateWrites, GateDies
    <3> QED  BY <1>0, <1>1, <2>1, <3>2 DEF LicenseTypeOK
  <2>4. ~(\E h \in Gates : GateStep(h)) => flock' = flock
    BY DEF LicenseNext, GateStep, UserStep, Withdraws, DayPasses, Activates, Counts,
           Activated, Deactivates, UserOnly, licenseVars
  <2> QED  BY <2>1, <2>2, <2>3, <2>4
<1>2. CASE CheckBegins(g) \/ Asks(g)
  <2>1. gate'[g].at \in {"ask", "commit"}
    BY <1>0, <1>2 DEF CheckBegins, Asks, LicenseTypeOK
  <2> QED  BY <2>1
<1>3. CASE Commits(g)
  <2>1. SameLicense(file[On[g]], gate[g])
    BY <1>0, <1>3 DEF Commits, LicenseTypeOK, Asleep
  <2> QED  BY <1>0, <1>3, <2>1 DEF Commits, LicenseTypeOK
<1> QED  BY <1>0, <1>1, <1>2, <1>3, GatesChange

\* A revoked license is written again by nobody: whoever is about to write a Pro file
\* read one under the lock, and a revocation needs the lock too.
LEMMA RevocationsStand ==
  ASSUME LicenseIInv, [LicenseNext]_licenseVars
  PROVE  RevokedStaysRevoked' /\ WritersFoundItPro'
<1>0. /\ LicenseTypeOK /\ LicenseTypeOK' /\ LockIsTheWriters /\ WritersFoundItPro
      /\ RevokedStaysRevoked
  BY LicenseKeepsTypes DEF LicenseIInv
<1>1. ASSUME NEW m \in Machines, ended'[m] = "revoked"
      PROVE  \/ ended[m] = "revoked"
             \/ \E g \in Gates : GateWrites(g) /\ On[g] = m /\ ~Pro(gate[g].ent)
  <2>1. CASE ended' = ended
    BY <1>1, <2>1
  <2>2. ASSUME NEW g \in Gates, GateWrites(g)
        PROVE  \/ ended' = ended
               \/ ended' = [ended EXCEPT ![On[g]] = "revoked"] /\ ~Pro(gate[g].ent)
    BY <2>2 DEF GateWrites
  <2>3. ASSUME NEW n \in Machines, Activated(n) \/ Deactivates(n)
        PROVE  ended[m] = "revoked"
    BY <1>0, <1>1, <2>3 DEF Activated, Deactivates, LicenseTypeOK
  <2>4. \/ ended' = ended
        \/ \E g \in Gates : GateWrites(g)
        \/ \E n \in Machines : Activated(n) \/ Deactivates(n)
    BY DEF LicenseNext, Withdraws, DayPasses, CheckBegins, Asks, Commits, GateDies,
           Activates, Counts, licenseVars
  <2>5. ASSUME NEW g \in Gates, GateWrites(g)
        PROVE  \/ ended[m] = "revoked"
               \/ On[g] = m /\ ~Pro(gate[g].ent)
    BY <1>0, <1>1, <2>2, <2>5 DEF LicenseTypeOK
  <2> QED  BY <2>1, <2>3, <2>4, <2>5
<1>2. RevokedStaysRevoked'
  <2> SUFFICES ASSUME NEW m \in Machines, ended'[m] = "revoked" PROVE ~Pro(file'[m])
    BY DEF RevokedStaysRevoked, Pro
  <2>1. CASE ended[m] = "revoked"
    <3>1. ~Pro(file[m]) /\ ~Pro(NoFile)
      BY <1>0, <2>1 DEF RevokedStaysRevoked, Pro, NoFile
    <3>2. ASSUME NEW g \in Gates, GateWrites(g), On[g] = m, file'[m] = gate[g].ent
          PROVE  ~Pro(file'[m])
      BY <1>0, <2>1, <3>2 DEF WritersFoundItPro, GateWrites
    <3> QED  BY <1>0, <3>1, <3>2, FilesChange
  <2>2. ASSUME NEW g \in Gates, GateWrites(g), On[g] = m, ~Pro(gate[g].ent)
        PROVE  ~Pro(file'[m])
    BY <1>0, <2>2 DEF GateWrites, LicenseTypeOK
  <2> QED  BY <1>1, <2>1, <2>2
<1>3. WritersFoundItPro'
  <2> SUFFICES ASSUME NEW g \in Gates, gate'[g].at = "write", Pro(gate'[g].ent),
                      ended'[On[g]] = "revoked"
               PROVE  FALSE
    BY DEF WritersFoundItPro, Pro
  <2>0. On[g] \in Machines
    OBVIOUS
  <2>1. CASE gate'[g] = gate[g]
    <3>1. ended[On[g]] # "revoked" /\ flock[On[g]] = g
      BY <1>0, <2>1 DEF WritersFoundItPro, LockIsTheWriters
    <3>2. PICK h \in Gates : GateWrites(h) /\ On[h] = On[g] /\ ~Pro(gate[h].ent)
      BY <1>1, <2>0, <3>1
    <3>3. flock[On[h]] = h
      BY <1>0, <3>2 DEF LockIsTheWriters, GateWrites
    <3> QED  BY <2>1, <3>1, <3>2, <3>3
  <2>2. CASE CheckBegins(g) \/ Asks(g)
    <3>1. gate'[g].at \in {"ask", "commit"}
      BY <1>0, <2>2 DEF CheckBegins, Asks, LicenseTypeOK
    <3> QED  BY <3>1
  <2>3. CASE Commits(g)
    <3>1. SameLicense(file[On[g]], gate[g]) /\ ended' = ended
      BY <1>0, <2>3 DEF Commits, LicenseTypeOK, Asleep
    <3> QED  BY <1>0, <2>0, <3>1 DEF SameLicense, RevokedStaysRevoked
  <2> QED  BY <1>0, <2>1, <2>2, <2>3, GatesChange
<1> QED  BY <1>2, <1>3

-----------------------------------------------------------------------------
(* Seats                                                                   *)

\* Only a request that counts a use, and finds it within the cap, adds a machine to
\* those that hold a key.
LEMMA HoldersChange ==
  ASSUME LicenseIInv, [LicenseNext]_licenseVars, NEW k \in LicenseKeys, NEW m \in Machines,
         Holds(m, k)'
  PROVE  \/ Holds(m, k)
         \/ /\ Counts(m) /\ person[m].key = k /\ uses'[k] = uses[k] + 1 /\ WithinCap(k)
<1>0. LicenseTypeOK
  BY DEF LicenseIInv
<1>1. CASE Pro(file'[m]) /\ file'[m].key = k
  <2>1. CASE file'[m] = file[m]
    BY <1>1, <2>1 DEF Holds
  <2>2. file'[m] # NoFile
    BY <1>1 DEF Pro, NoFile
  <2>3. CASE person[m].at = "write" /\ file'[m].key = person[m].key
    BY <1>1, <2>3 DEF Holds
  <2>4. ASSUME NEW g \in Gates, GateWrites(g), On[g] = m, file'[m] = gate[g].ent
        PROVE  Holds(m, k)
    BY <1>1, <2>4 DEF Holds, GateWrites
  <2> QED  BY <1>0, <2>1, <2>2, <2>3, <2>4, FilesChange
<1>2. CASE person'[m].at = "write" /\ person'[m].key = k
  <2>1. CASE person'[m] = person[m]
    BY <1>2, <2>1 DEF Holds
  <2>2. CASE Counts(m)
    <3>1. person' # [person EXCEPT ![m] = NoUser]
      BY <1>0, <1>2 DEF LicenseTypeOK, NoUser
    <3>2. /\ WithinCap(person[m].key) /\ person' = [person EXCEPT ![m].at = "write"]
          /\ uses' = [uses EXCEPT ![person[m].key] = uses[person[m].key] + 1]
      BY <2>2, <3>1 DEF Counts
    <3>3. person[m].key = k
      BY <1>0, <1>2, <3>2 DEF LicenseTypeOK
    <3> QED  BY <1>0, <2>2, <3>2, <3>3 DEF LicenseTypeOK
  <2>3. person'[m] = person[m] \/ Counts(m) \/ person'[m].at \in {"idle", "count"}
    BY <1>0
       DEF LicenseNext, GateStep, UserStep, Withdraws, DayPasses, CheckBegins, Asks, Commits,
           GateWrites, GateDies, GateOnly, Activates, Counts, Activated, Deactivates,
           licenseVars, LicenseTypeOK, NoUser
  <2> QED  BY <1>2, <2>1, <2>2, <2>3
<1>3. ASSUME NEW g \in Gates, On[g] = m, gate'[g].at = "write", Pro(gate'[g].ent),
             gate'[g].ent.key = k
      PROVE  Holds(m, k)
  <2>1. CASE gate'[g] = gate[g]
    BY <1>3, <2>1 DEF Holds
  <2>2. CASE CheckBegins(g) \/ Asks(g)
    <3>1. gate'[g].at \in {"ask", "commit"}
      BY <1>0, <2>2 DEF CheckBegins, Asks, LicenseTypeOK
    <3> QED  BY <1>3, <3>1
  <2>3. CASE Commits(g)
    <3>1. /\ SameLicense(file[m], gate[g])
          /\ gate'[g] = [at |-> "write", ent |-> Answered(file[m], gate[g])]
      BY <1>0, <1>3, <2>3 DEF Commits, LicenseTypeOK, Asleep
    <3>2. Pro(file[m]) /\ file[m] \in Entitlements
      BY <1>0, <3>1, FileFacts DEF SameLicense
    <3>3. gate[g].answer \in Replies /\ gate[g].now \in 0 .. MaxDay
      BY <1>0, <2>3, GateFacts DEF Commits
    <3>4. Answered(file[m], gate[g]).key = file[m].key
      BY <3>2, <3>3, AnsweredFacts
    <3> QED  BY <1>3, <3>1, <3>2, <3>4 DEF Holds
  <2> QED  BY <1>0, <1>3, <2>1, <2>2, <2>3, GatesChange
<1>4. \/ Pro(file'[m]) /\ file'[m].key = k
      \/ person'[m].at = "write" /\ person'[m].key = k
      \/ \E g \in Gates : On[g] = m /\ gate'[g].at = "write" /\ Pro(gate'[g].ent)
                          /\ gate'[g].ent.key = k
  BY DEF Holds, Pro
<1> QED  BY <1>1, <1>2, <1>3, <1>4

\* The provider never takes a use back.
LEMMA UsesGrow ==
  ASSUME LicenseTypeOK, [LicenseNext]_licenseVars, NEW k \in LicenseKeys
  PROVE  uses[k] \in Nat /\ uses'[k] \in Nat /\ uses[k] <= uses'[k]
<1>1. uses[k] \in Nat /\ uses'[k] \in Nat
  BY LicenseKeepsTypes DEF LicenseTypeOK
<1>2. CASE uses' = uses
  BY <1>1, <1>2
<1>3. ASSUME NEW m \in Machines, Counts(m) PROVE uses[k] <= uses'[k]
  BY <1>1, <1>3 DEF Counts, LicenseTypeOK
<1>4. uses' = uses \/ \E m \in Machines : Counts(m)
  BY DEF LicenseNext, GateStep, UserStep, Withdraws, DayPasses, CheckBegins, Asks, Commits,
         GateWrites, GateDies, GateOnly, Activates, Activated, Deactivates, licenseVars
<1> QED  BY <1>1, <1>2, <1>3, <1>4

\* A use is counted before the file that holds it is written.
LEMMA SeatsStayCounted ==
  ASSUME LicenseIInv, [LicenseNext]_licenseVars
  PROVE  SeatsAreCounted'
<1> SUFFICES ASSUME NEW k \in LicenseKeys PROVE Counted(k)'
  BY DEF SeatsAreCounted
<1> DEFINE H == Holders(k)
           J == Holders(k)'
<1>0. LicenseTypeOK /\ Counted(k)
  BY DEF LicenseIInv, SeatsAreCounted
<1>1. IsFiniteSet(H) /\ Cardinality(H) <= uses[k] /\ Cardinality(H) <= MaxActivations
  BY <1>0 DEF Counted
<1>2. uses[k] \in Nat /\ uses'[k] \in Nat /\ uses[k] <= uses'[k] /\ Cardinality(H) \in Nat
  BY <1>0, <1>1, UsesGrow, FS_CardinalityType
<1>3. CASE \A m \in Machines : Holds(m, k)' => Holds(m, k)
  <2>1. J \in SUBSET H
    BY <1>3 DEF Holders
  <2> HIDE DEF H, J
  <2>2. IsFiniteSet(J) /\ Cardinality(J) <= Cardinality(H) /\ Cardinality(J) \in Nat
    BY <1>1, <2>1, FS_Subset, FS_CardinalityType
  <2>3. Cardinality(J) <= uses'[k] /\ Cardinality(J) <= MaxActivations
    BY <1>1, <1>2, <2>2
  <2> QED  BY <2>2, <2>3 DEF Counted, J
<1>4. ASSUME NEW m \in Machines, Counts(m), person[m].key = k, uses'[k] = uses[k] + 1,
             WithinCap(k)
      PROVE  Counted(k)'
  <2>1. ASSUME NEW n \in Machines, Holds(n, k)' PROVE Holds(n, k) \/ n = m
    <3>1. CASE Counts(n) /\ n # m
      <4>1. /\ file' = file /\ gate' = gate
            /\ person'[n] = person[n]
        BY <1>0, <1>4, <3>1 DEF Counts, UserOnly, LicenseTypeOK
      <4> QED  BY <2>1, <4>1 DEF Holds, Pro
    <3> QED  BY <2>1, <3>1, HoldersChange
  <2>2. J \in SUBSET (H \cup {m})
    BY <2>1 DEF Holders
  <2> HIDE DEF H, J
  <2>3. IsFiniteSet(H \cup {m}) /\ Cardinality(H \cup {m}) <= Cardinality(H) + 1
    <3>1. /\ IsFiniteSet(H \cup {m})
          /\ Cardinality(H \cup {m}) =
               IF m \in H THEN Cardinality(H) ELSE Cardinality(H) + 1
      BY <1>1, FS_AddElement
    <3> QED  BY <1>2, <3>1
  <2>4. Cardinality(H \cup {m}) \in Nat
    BY <2>3, FS_CardinalityType
  <2>5. IsFiniteSet(J) /\ Cardinality(J) <= Cardinality(H \cup {m}) /\ Cardinality(J) \in Nat
    BY <2>2, <2>3, FS_Subset, FS_CardinalityType
  <2>6. uses[k] + 1 <= MaxActivations
    BY <1>4 DEF WithinCap
  <2>7. Cardinality(J) <= uses'[k] /\ Cardinality(J) <= MaxActivations
    BY <1>1, <1>2, <1>4, <2>3, <2>4, <2>5, <2>6
  <2> QED  BY <2>5, <2>7 DEF Counted, J
<1> QED  BY <1>3, <1>4, HoldersChange

-----------------------------------------------------------------------------

\* The inductive invariant implies what License promises.
LEMMA LicenseIInvImplies == LicenseIInv => LicenseInv
<1> SUFFICES ASSUME LicenseIInv PROVE LicenseInv
  OBVIOUS
<1>0. LicenseTypeOK /\ RevokedStaysRevoked /\ FilesAreSound /\ SeatsAreCounted
  BY DEF LicenseIInv
<1>1. OnlyWithdrawnIsRevoked
  <2> SUFFICES ASSUME NEW m \in Machines, file[m].status = "revoked"
               PROVE  verdict[file[m].key] # "good"
    BY DEF OnlyWithdrawnIsRevoked
  <2>1. file[m] # NoFile
    BY <1>0, FileFacts
  <2> QED  BY <1>0, <2>1 DEF FilesAreSound, Sound, SoundBy
<1>2. RefundIsNotSettled
  BY <1>0 DEF RefundIsNotSettled, FilesAreSound, Sound, SoundBy
<1>3. SeatLimitHolds
  <2> SUFFICES ASSUME NEW k \in LicenseKeys
               PROVE  Cardinality({m \in Machines : Pro(file[m]) /\ file[m].key = k})
                        <= MaxActivations
    BY DEF SeatLimitHolds
  <2> DEFINE S == {m \in Machines : Pro(file[m]) /\ file[m].key = k}
  <2>1. IsFiniteSet(Holders(k)) /\ Cardinality(Holders(k)) <= MaxActivations
    BY <1>0 DEF SeatsAreCounted, Counted
  <2>2. S \in SUBSET Holders(k)
    BY DEF Holders, Holds
  <2> HIDE DEF S
  <2>3. IsFiniteSet(S) /\ Cardinality(S) <= Cardinality(Holders(k))
    BY <2>1, <2>2, FS_Subset
  <2>4. Cardinality(S) \in Nat /\ Cardinality(Holders(k)) \in Nat
    BY <2>1, <2>3, FS_CardinalityType
  <2>5. Cardinality(S) <= MaxActivations
    BY <2>1, <2>3, <2>4
  <2> QED  BY <2>5 DEF S
<1> QED  BY <1>0, <1>1, <1>2, <1>3 DEF LicenseInv

\* However gates, activations, deactivations and the provider interleave, on any
\* number of machines (agentica_core/licensing.py:188-230): no re-check brings a
\* revoked license back or takes a good one, none settles a refunded key, and no key
\* has more seats than activations.
THEOREM LicenseIsKept == LicenseSpec => []LicenseInv
<1>1. LicenseIInv /\ [LicenseNext]_licenseVars => LicenseIInv'
  <2> SUFFICES ASSUME LicenseIInv, [LicenseNext]_licenseVars PROVE LicenseIInv'
    OBVIOUS
  <2>1. LicenseTypeOK'
    BY LicenseKeepsTypes DEF LicenseIInv
  <2> QED
    BY <2>1, FilesStaySound, WritesStaySound, AnswersStaySound, WriterKeepsItsLock,
       RevocationsStand, SeatsStayCounted DEF LicenseIInv
<1> QED  BY <1>1, LicenseStarts, LicenseIInvImplies, PTL DEF LicenseSpec

-----------------------------------------------------------------------------
(* The overnight run                                                       *)

USE MeditationAssumption

NightSpots ==
  {"off", "lock", "reclaim", "retake", "sign", "guard", "stash", "provision", "reap",
   "loop", "launch", "agent", "cleanup", "over", "orphaned", "killed"}

NightRecords ==
  [at : NightSpots, deadline : Nat, stashed : BOOLEAN, worktree : BOOLEAN,
   cycle : 0 .. MaxCycles, spend : 0 .. Budget, hand : SUBSET Chores]

Sites ==
  [isolated : BOOLEAN, churn : BOOLEAN, work : BOOLEAN, merging : BOOLEAN,
   stash : SUBSET {"churn", "work"}, wt : Nights \cup {Nobody}]

ChoreRecords ==
  [st : {"todo", "doing", "done"}, since : Nat]

Marks ==
  [usurped : BOOLEAN, raced : BOOLEAN, popFailed : BOOLEAN, killed : BOOLEAN,
   stolen : SUBSET Nights]

\* Everything has a type, the fields that no property asks about too.
MeditationTypes ==
  /\ night \in [Nights -> NightRecords]
  /\ nightLock \in {NightUnlocked, NoPidYet} \cup {OwnedBy(n) : n \in Nights}
  /\ site \in Sites
  /\ chore \in [Chores -> ChoreRecords]
  /\ keiko \in [flat : 0 .. FlatLimit, stop : BOOLEAN]
  /\ clock \in Nat
  /\ mark \in Marks

\* A run that goes on can pay for another cycle.
MoneyIsLeft == \A n \in Nights : night[n].at # "cleanup" => night[n].spend < Budget

\* A run that has made the lock directory, until its exit.
HasTheLock(n) == NightLives(n) /\ night[n].at \notin {"lock", "reclaim", "retake"}

\* What the directory says while n has it.
LockOf(n) == IF NightAt(n, "sign") THEN NoPidYet ELSE OwnedBy(n)

LockIsTheNights ==
  ~mark.usurped =>
    \A n \in Nights : HasTheLock(n) =>
      /\ nightLock = LockOf(n)
      /\ \A m \in Nights \ {n} : ~HasTheLock(m)

\* A run has a stash only after the guards.
StashedSpots == {"provision", "reap", "loop", "launch", "agent", "cleanup"}

StashIsLate == \A n \in Nights : night[n].stashed => night[n].at \in StashedSpots

\* Work that is there when a run stashes came after its guards had looked.
WorkCameLate ==
  \A n \in Nights : NightAt(n, "stash") =>
    ~site.isolated /\ (site.work => mark.raced)

\* The worktree is that of the run that is past the making of it.
InTheWorktree(n) == night[n].at \in {"reap", "loop", "launch", "agent"}

WorktreeIsTheNights ==
  site.isolated /\ ~mark.usurped =>
    \A n \in Nights : InTheWorktree(n) => site.wt = n

MeditationIInv ==
  /\ MeditationTypes /\ MoneyIsLeft /\ LockIsTheNights
  /\ InFlightIsKept
  /\ StashIsLate /\ WorkCameLate /\ WorkIsNotStashed /\ StashComesBack
  /\ WorktreeIsTheNights

NightEvent(n) ==
  NightStarts(n) \/ NightStep(n) \/ NightKilled(n) \/ OrphanEnds(n)

\* The records a lock directory can hold.
LEMMA LockRecords ==
  /\ NightUnlocked.dir = FALSE /\ NightUnlocked.pid = Nobody
  /\ NoPidYet.dir = TRUE /\ NoPidYet.pid = Nobody
  /\ \A n \in Nights : OwnedBy(n).dir = TRUE /\ OwnedBy(n).pid = n /\ n # Nobody
  /\ \A n \in Nights : OwnedBy(n) # NoPidYet
  BY DEF NightUnlocked, NoPidYet, OwnedBy

\* A new session is typed.
LEMMA NightRecord ==
  /\ NoNight \in NightRecords
  /\ NoNight.at = "off" /\ ~NoNight.stashed /\ NoNight.spend < Budget
  /\ NoNight.hand = {}
  BY DEF NoNight, NightRecords, NightSpots

\* No session has begun.
LEMMA MeditationStarts == MeditationInit => MeditationIInv
<1> SUFFICES ASSUME MeditationInit PROVE MeditationIInv
  OBVIOUS
<1>1. \A n \in Nights : night[n] = NoNight
  BY DEF MeditationInit
<1>2. site.stash = {} /\ site.isolated \in BOOLEAN /\ mark.stolen = {}
  BY DEF MeditationInit
<1>3. NoWorker \in ChoreRecords
  BY DEF NoWorker, ChoreRecords
<1>4. chore \in [Chores -> ChoreRecords]
  BY <1>3 DEF MeditationInit
<1>5. MeditationTypes
  <2>1. site \in Sites
    BY DEF MeditationInit, Sites
  <2>2. keiko \in [flat : 0 .. FlatLimit, stop : BOOLEAN]
    BY DEF MeditationInit
  <2>3. mark \in Marks
    BY DEF MeditationInit, Marks
  <2> QED  BY <1>4, <2>1, <2>2, <2>3, NightRecord DEF MeditationInit, MeditationTypes
<1>6. \A n \in Nights : ~NightLives(n) /\ ~InTheWorktree(n) /\ ~NightAt(n, "stash")
  BY <1>1, NightRecord DEF NightLives, InTheWorktree, NightAt
<1>7. MoneyIsLeft /\ StashIsLate
  BY <1>1, NightRecord DEF MoneyIsLeft, StashIsLate
<1>8. LockIsTheNights /\ WorkCameLate /\ WorktreeIsTheNights
  BY <1>6 DEF LockIsTheNights, HasTheLock, WorkCameLate, WorktreeIsTheNights
<1>9. InFlightIsKept /\ WorkIsNotStashed /\ StashComesBack
  BY <1>2 DEF InFlightIsKept, WorkIsNotStashed, StashComesBack
<1> QED  BY <1>5, <1>7, <1>8, <1>9 DEF MeditationIInv

-----------------------------------------------------------------------------
(* Types                                                                   *)

\* A run's event touches no other run.
LEMMA OthersNightsStay ==
  ASSUME MeditationTypes, NEW n \in Nights, NightEvent(n), NEW m \in Nights, m # n
  PROVE  night'[m] = night[m]
BY DEF MeditationTypes, NightEvent, NightStarts, NightStep, NightKilled, NightLocks,
       NightReclaims, NightRetakes, NightSigns, NightGuards, NightStashes,
       NightProvisions, NightReaps, NightLoops, NightLaunches, NightLands,
       NightCleansUp, OrphanEnds, NightGoes

\* One field of one run is set.
LEMMA NightFields ==
  ASSUME NEW f \in [Nights -> NightRecords], NEW n \in Nights
  PROVE  /\ \A a \in NightSpots : [f EXCEPT ![n].at = a] \in [Nights -> NightRecords]
         /\ \A d \in Nat : [f EXCEPT ![n].deadline = d] \in [Nights -> NightRecords]
         /\ [f EXCEPT ![n].stashed = TRUE] \in [Nights -> NightRecords]
         /\ [f EXCEPT ![n].worktree = TRUE] \in [Nights -> NightRecords]
         /\ \A c \in 0 .. MaxCycles : [f EXCEPT ![n].cycle = c] \in [Nights -> NightRecords]
         /\ \A d \in 0 .. Budget : [f EXCEPT ![n].spend = d] \in [Nights -> NightRecords]
         /\ \A h \in SUBSET Chores : [f EXCEPT ![n].hand = h] \in [Nights -> NightRecords]
<1>1. \A a \in NightSpots : [f EXCEPT ![n].at = a] \in [Nights -> NightRecords]
  BY DEF NightRecords
<1>2. \A d \in Nat : [f EXCEPT ![n].deadline = d] \in [Nights -> NightRecords]
  BY DEF NightRecords
<1>3. [f EXCEPT ![n].stashed = TRUE] \in [Nights -> NightRecords]
  BY DEF NightRecords
<1>4. [f EXCEPT ![n].worktree = TRUE] \in [Nights -> NightRecords]
  BY DEF NightRecords
<1>5. \A c \in 0 .. MaxCycles : [f EXCEPT ![n].cycle = c] \in [Nights -> NightRecords]
  BY DEF NightRecords
<1>6. \A d \in 0 .. Budget : [f EXCEPT ![n].spend = d] \in [Nights -> NightRecords]
  BY DEF NightRecords
<1>7. \A h \in SUBSET Chores : [f EXCEPT ![n].hand = h] \in [Nights -> NightRecords]
  BY DEF NightRecords
<1> QED  BY <1>1, <1>2, <1>3, <1>4, <1>5, <1>6, <1>7

\* A session that goes on changes its place only.
LEMMA NightGoesOn ==
  ASSUME MeditationTypes, NEW n \in Nights, NEW a \in NightSpots, NightGoes(n, a)
  PROVE  night' \in [Nights -> NightRecords]
BY NightFields DEF MeditationTypes, NightGoes

\* One mark is made.
LEMMA MarkFields ==
  ASSUME NEW k \in Marks, NEW b \in BOOLEAN, NEW s \in SUBSET Nights
  PROVE  /\ [k EXCEPT !.usurped = b] \in Marks /\ [k EXCEPT !.raced = b] \in Marks
         /\ [k EXCEPT !.popFailed = b] \in Marks /\ [k EXCEPT !.killed = b] \in Marks
         /\ [k EXCEPT !.stolen = s] \in Marks
BY DEF Marks

\* The steps that take and release the lock directory.
LEMMA LocksKeepTypes ==
  ASSUME MeditationTypes, NEW n \in Nights,
         \/ NightStarts(n) \/ NightLocks(n) \/ NightReclaims(n) \/ NightRetakes(n)
         \/ NightSigns(n)
  PROVE  MeditationTypes'
<1>0. night \in [Nights -> NightRecords] /\ clock + RunHours \in Nat /\ mark \in Marks
  BY DEF MeditationTypes
<1>1. CASE NightStarts(n)
  <2> DEFINE mid == [night EXCEPT ![n].at = "lock"]
  <2>1. mid \in [Nights -> NightRecords]
    BY <1>0, NightFields DEF NightSpots
  <2>2. night' = [mid EXCEPT ![n].deadline = clock + RunHours]
    BY <1>1 DEF NightStarts
  <2> HIDE DEF mid
  <2>3. night' \in [Nights -> NightRecords]
    BY <1>0, <2>1, <2>2, NightFields
  <2> QED  BY <2>3, <1>1 DEF NightStarts, MeditationTypes
<1>2. CASE NightLocks(n)
  <2>1. \E a \in NightSpots : NightGoes(n, a)
    BY <1>2 DEF NightLocks, NightSpots
  <2>2. night' \in [Nights -> NightRecords]
    BY <2>1, NightGoesOn
  <2> QED  BY <1>2, <2>2 DEF NightLocks, MeditationTypes
<1>3. CASE NightReclaims(n)
  <2>1. night' \in [Nights -> NightRecords]
    BY <1>3, NightGoesOn DEF NightReclaims, NightSpots
  <2> DEFINE b == mark.usurped \/ \E m \in Nights :
                    NightAt(m, "sign") \/ (nightLock.pid = m /\ NightLives(m))
  <2>2. b \in BOOLEAN /\ mark' = [mark EXCEPT !.usurped = b]
    BY <1>0, <1>3 DEF NightReclaims, Marks
  <2> HIDE DEF b
  <2>3. mark' \in Marks
    BY <1>0, <2>2, MarkFields
  <2> QED  BY <1>3, <2>1, <2>3 DEF NightReclaims, MeditationTypes
<1>4. CASE NightRetakes(n)
  <2>1. \E a \in NightSpots : NightGoes(n, a)
    BY <1>4 DEF NightRetakes, NightSpots
  <2>2. night' \in [Nights -> NightRecords]
    BY <2>1, NightGoesOn
  <2> QED  BY <1>4, <2>2 DEF NightRetakes, MeditationTypes
<1>5. CASE NightSigns(n)
  <2>1. \E a \in NightSpots : NightGoes(n, a)
    BY <1>5 DEF NightSigns, NightSpots
  <2>2. night' \in [Nights -> NightRecords]
    BY <2>1, NightGoesOn
  <2> QED  BY <1>5, <2>2 DEF NightSigns, MeditationTypes
<1> QED  BY <1>1, <1>2, <1>3, <1>4, <1>5

\* The guard, the stash and the worktree.
LEMMA GuardsKeepTypes ==
  ASSUME MeditationTypes, NEW n \in Nights,
         \/ NightGuards(n) \/ NightStashes(n) \/ NightProvisions(n) \/ NightReaps(n)
         \/ NightLoops(n) \/ NightLaunches(n)
  PROVE  MeditationTypes'
<1>0. /\ night \in [Nights -> NightRecords] /\ site \in Sites /\ mark \in Marks
      /\ chore \in [Chores -> ChoreRecords] /\ clock \in Nat
  BY DEF MeditationTypes
<1>1. CASE NightGuards(n)
  <2>1. \E a \in NightSpots : NightGoes(n, a)
    BY <1>1 DEF NightGuards, NightSpots
  <2>2. night' \in [Nights -> NightRecords]
    BY <2>1, NightGoesOn
  <2> QED  BY <1>1, <2>2 DEF NightGuards, MeditationTypes
<1>2. CASE NightStashes(n)
  <2>1. night' \in [Nights -> NightRecords]
    <3> DEFINE mid == [night EXCEPT ![n].at = "provision"]
    <3>1. mid \in [Nights -> NightRecords]
      BY <1>0, NightFields DEF NightSpots
    <3>2. CASE NightGoes(n, "cleanup")
      BY <3>2, NightGoesOn DEF NightSpots
    <3>3. CASE night' = [mid EXCEPT ![n].stashed = TRUE]
      <4> HIDE DEF mid
      <4> QED  BY <3>1, <3>3, NightFields
    <3> QED  BY <1>2, <3>2, <3>3 DEF NightStashes
  <2>2. site' \in Sites
    <3> DEFINE taken == site.stash \cup (IF site.work THEN {"churn", "work"} ELSE {"churn"})
    <3>1. taken \in SUBSET {"churn", "work"}
      BY <1>0 DEF Sites
    <3>2. \/ site' = site
          \/ site' = [site EXCEPT !.churn = FALSE, !.work = FALSE, !.stash = taken]
      BY <1>2 DEF NightStashes
    <3> HIDE DEF taken
    <3> QED  BY <1>0, <3>1, <3>2 DEF Sites
  <2> QED  BY <2>1, <2>2, <1>2 DEF NightStashes, MeditationTypes
<1>3. CASE NightProvisions(n)
  <2>1. night' \in [Nights -> NightRecords]
    <3> DEFINE mid == [night EXCEPT ![n].at = "reap"]
    <3>1. mid \in [Nights -> NightRecords]
      BY <1>0, NightFields DEF NightSpots
    <3>2. night' = mid \/ night' = [mid EXCEPT ![n].worktree = TRUE]
      BY <1>3 DEF NightProvisions, NightGoes
    <3> HIDE DEF mid
    <3>3. [mid EXCEPT ![n].worktree = TRUE] \in [Nights -> NightRecords]
      BY <3>1, NightFields
    <3> QED  BY <3>1, <3>2, <3>3
  <2>2. site' \in Sites
    BY <1>0, <1>3 DEF NightProvisions, Sites
  <2> QED  BY <2>1, <2>2, <1>3 DEF NightProvisions, MeditationTypes
<1>4. CASE NightReaps(n)
  <2>1. night' \in [Nights -> NightRecords]
    BY <1>4, NightGoesOn DEF NightReaps, NightSpots
  <2>2. NoWorker \in ChoreRecords
    BY DEF NoWorker, ChoreRecords
  <2>3. chore' \in [Chores -> ChoreRecords]
    BY <1>0, <1>4, <2>2 DEF NightReaps
  <2> DEFINE b == mark.stolen \cup {m \in Nights : InFlight(m)}
  <2>4. b \in SUBSET Nights /\ mark' = [mark EXCEPT !.stolen = b]
    BY <1>0, <1>4 DEF NightReaps, Marks
  <2> HIDE DEF b
  <2>5. mark' \in Marks
    BY <1>0, <2>4, MarkFields
  <2> QED  BY <1>4, <2>1, <2>3, <2>5 DEF NightReaps, MeditationTypes
<1>5. CASE NightLoops(n)
  <2> DEFINE mid == [night EXCEPT ![n].at = IF NightHalts(n) THEN "cleanup" ELSE "launch"]
             more == IF NightHalts(n) THEN night[n].cycle ELSE night[n].cycle + 1
  <2>1. mid \in [Nights -> NightRecords]
    BY <1>0, NightFields DEF NightSpots
  <2>2. night' = [mid EXCEPT ![n].cycle = more]
    BY <1>0, <1>5 DEF NightLoops, NightRecords
  <2>3. more \in 0 .. MaxCycles
    BY <1>0 DEF NightHalts, NightRecords
  <2> HIDE DEF mid, more
  <2>4. night' \in [Nights -> NightRecords]
    BY <2>1, <2>2, <2>3, NightFields
  <2> QED  BY <1>5, <2>4 DEF NightLoops, MeditationTypes
<1>6. CASE NightLaunches(n)
  <2>1. night' \in [Nights -> NightRecords]
    <3> DEFINE mid == [night EXCEPT ![n].at = "agent"]
    <3>1. mid \in [Nights -> NightRecords]
      BY <1>0, NightFields DEF NightSpots
    <3>2. \/ NightGoes(n, "cleanup") \/ NightGoes(n, "agent")
          \/ \E c \in Chores : night' = [mid EXCEPT ![n].hand = {c}]
      BY <1>6 DEF NightLaunches
    <3> HIDE DEF mid
    <3>3. ASSUME NEW c \in Chores
          PROVE  [mid EXCEPT ![n].hand = {c}] \in [Nights -> NightRecords]
      <4>1. {c} \in SUBSET Chores
        OBVIOUS
      <4> QED  BY <3>1, <4>1, NightFields
    <3> QED  BY <3>2, <3>3, NightGoesOn DEF NightSpots
  <2> DEFINE new == [st |-> "doing", since |-> clock]
  <2>2. new \in ChoreRecords
    BY <1>0 DEF ChoreRecords
  <2>3. chore' = chore \/ \E c \in Chores : chore' = [chore EXCEPT ![c] = new]
    BY <1>6 DEF NightLaunches
  <2> HIDE DEF new
  <2>4. chore' \in [Chores -> ChoreRecords]
    BY <1>0, <2>2, <2>3
  <2> QED  BY <2>1, <2>4, <1>6 DEF NightLaunches, MeditationTypes
<1> QED  BY <1>1, <1>2, <1>3, <1>4, <1>5, <1>6

\* What an agent leaves is typed.
LEMMA ItemsLeft ==
  ASSUME chore \in [Chores -> ChoreRecords], NEW n \in Nights, NEW improved \in BOOLEAN,
         AgentLeaves(n, improved)
  PROVE  chore' \in [Chores -> ChoreRecords]
<1>1. ASSUME NEW c \in Chores PROVE chore'[c] \in ChoreRecords
  BY DEF AgentLeaves, ChoreRecords
<1> QED  BY <1>1 DEF AgentLeaves

\* The cost of a cycle reaches the budget at most: it was below before.
LEMMA LandingKeepsTypes ==
  ASSUME MeditationTypes, MoneyIsLeft, NEW n \in Nights, NightLands(n)
  PROVE  /\ MeditationTypes'
         /\ night'[n].at # "cleanup" => night'[n].spend < Budget
<1>0. /\ night \in [Nights -> NightRecords] /\ keiko \in [flat : 0 .. FlatLimit, stop : BOOLEAN]
      /\ chore \in [Chores -> ChoreRecords]
  BY DEF MeditationTypes
<1>1. PICK improved \in BOOLEAN, cost \in {0, 1} :
        /\ AgentLeaves(n, improved)
        /\ LET broke == night[n].spend + cost >= Budget
               flat == IF broke THEN keiko.flat ELSE FlatCycles(improved)
           IN /\ keiko' = [keiko EXCEPT !.flat =
                             IF flat > FlatLimit THEN FlatLimit ELSE flat]
              /\ night' = [night EXCEPT ![n].spend = @ + cost, ![n].hand = {},
                             ![n].at = IF broke \/ flat >= FlatLimit
                                       THEN "cleanup" ELSE "loop"]
  BY DEF NightLands
<1> DEFINE broke == night[n].spend + cost >= Budget
           flat == IF broke THEN keiko.flat ELSE FlatCycles(improved)
           next == IF broke \/ flat >= FlatLimit THEN "cleanup" ELSE "loop"
           paid == [night EXCEPT ![n].spend = night[n].spend + cost]
           mid == [paid EXCEPT ![n].hand = {}]
<1>2. /\ night[n].spend < Budget /\ night[n].spend \in Nat /\ Budget \in Nat
      /\ keiko.flat \in 0 .. FlatLimit
  BY <1>0 DEF NightLands, NightAt, MoneyIsLeft, NightRecords
<1>3. night[n].spend + cost \in 0 .. Budget
  BY <1>2
<1>4. next \in NightSpots /\ (next # "cleanup" => night[n].spend + cost < Budget)
  BY <1>2 DEF NightSpots
<1>5. mid \in [Nights -> NightRecords] /\ mid[n].spend = night[n].spend + cost
  <2>1. paid \in [Nights -> NightRecords]
    BY <1>0, <1>3, NightFields
  <2>2. paid[n].spend = night[n].spend + cost
    BY <1>0 DEF NightRecords
  <2> HIDE DEF paid
  <2>3. mid \in [Nights -> NightRecords]
    <3>1. {} \in SUBSET Chores
      OBVIOUS
    <3> QED  BY <2>1, <3>1, NightFields
  <2> QED  BY <2>1, <2>2, <2>3 DEF NightRecords
<1>6. night' = [mid EXCEPT ![n].at = next]
  BY <1>1
<1>7. flat \in Nat /\ keiko' = [keiko EXCEPT !.flat =
                                  IF flat > FlatLimit THEN FlatLimit ELSE flat]
  BY <1>1, <1>2 DEF FlatCycles
<1> HIDE DEF broke, flat, next, paid, mid
<1>8. keiko' \in [flat : 0 .. FlatLimit, stop : BOOLEAN]
  BY <1>0, <1>7
<1>9. night' \in [Nights -> NightRecords]
  BY <1>4, <1>5, <1>6, NightFields
<1>11. chore' \in [Chores -> ChoreRecords]
  BY <1>0, <1>1, ItemsLeft
<1>12. night'[n].at = next /\ night'[n].spend = night[n].spend + cost
  BY <1>5, <1>6 DEF NightRecords
<1> QED
  BY <1>4, <1>8, <1>9, <1>11, <1>12 DEF NightLands, MeditationTypes

\* Cleaning up, and being killed.
LEMMA EndKeepsTypes ==
  ASSUME MeditationTypes, NEW n \in Nights,
         NightCleansUp(n) \/ NightKilled(n) \/ OrphanEnds(n)
  PROVE  /\ MeditationTypes'
         /\ night'[n].at \in {"over", "orphaned", "killed"} /\ night'[n].spend < Budget
         /\ ~night'[n].stashed
<1>0. /\ night \in [Nights -> NightRecords] /\ site \in Sites /\ mark \in Marks
      /\ chore \in [Chores -> ChoreRecords]
  BY DEF MeditationTypes
<1> DEFINE Last(r) == /\ r \in NightRecords /\ r.at \in {"over", "orphaned", "killed"}
                      /\ ~r.stashed /\ r.spend < Budget
<1>1. PICK last : night' = [night EXCEPT ![n] = last] /\ Last(last)
  <2>1. \A a \in {"over", "killed"} : Last([NoNight EXCEPT !.at = a])
    BY NightRecord DEF NoNight, NightSpots, NightRecords
  <2>2. ASSUME NEW a \in {"orphaned", "killed"}
        PROVE  Last([NoNight EXCEPT !.at = a, !.hand = night[n].hand])
    BY <1>0, NightRecord DEF NoNight, NightSpots, NightRecords
  <2>3. CASE NightKilled(n)
    BY <2>2, <2>3 DEF NightKilled
  <2>4. CASE NightCleansUp(n)
    BY <2>1, <2>4 DEF NightCleansUp
  <2>5. CASE OrphanEnds(n)
    BY <2>1, <2>5 DEF OrphanEnds
  <2> QED  BY <2>3, <2>4, <2>5
<1>2. Last(last)
  BY <1>1
<1>3. night' = [night EXCEPT ![n] = last]
  BY <1>1
<1>4. night' \in [Nights -> NightRecords] /\ night'[n] = last
  BY <1>0, <1>2, <1>3
<1>5. CASE NightCleansUp(n)
  <2>1. Restores(n) \in Sites
    BY <1>0 DEF Restores, Sites, NightRecords
  <2>2. site' \in Sites
    BY <1>0, <1>5, <2>1 DEF NightCleansUp, Sites
  <2>3. mark' \in Marks
    BY <1>0, <1>5, MarkFields DEF NightCleansUp
  <2> QED
    BY <1>2, <1>4, <1>5, <2>2, <2>3 DEF NightCleansUp, MeditationTypes, FreesOwnLock
<1>6. CASE NightKilled(n)
  <2>1. mark' \in Marks
    BY <1>0, <1>6, MarkFields DEF NightKilled
  <2> QED  BY <1>2, <1>4, <1>6, <2>1 DEF NightKilled, MeditationTypes
<1>7. CASE OrphanEnds(n)
  <2>1. chore' \in [Chores -> ChoreRecords]
    BY <1>0, <1>7, ItemsLeft DEF OrphanEnds
  <2> QED  BY <1>2, <1>4, <1>7, <2>1 DEF OrphanEnds, MeditationTypes
<1> QED  BY <1>5, <1>6, <1>7

\* Every step of a session keeps the types.
LEMMA SessionKeepsTypes ==
  ASSUME MeditationTypes, SessionWorks
  PROVE  MeditationTypes'
<1>0. site \in Sites /\ mark \in Marks /\ keiko \in [flat : 0 .. FlatLimit, stop : BOOLEAN]
  BY DEF MeditationTypes
<1> DEFINE b == mark.raced \/ \E n \in Nights : NightAt(n, "stash")
<1>1. b \in BOOLEAN /\ mark' = [mark EXCEPT !.raced = b]
  BY <1>0 DEF SessionWorks, Marks
<1> HIDE DEF b
<1>2. mark' \in Marks
  BY <1>0, <1>1, MarkFields
<1>3. site' \in Sites
  BY <1>0 DEF SessionWorks, Sites
<1>4. keiko' \in [flat : 0 .. FlatLimit, stop : BOOLEAN]
  BY <1>0 DEF SessionWorks
<1> QED  BY <1>2, <1>3, <1>4 DEF SessionWorks, MeditationTypes

\* Every step of the system keeps the types.
LEMMA MeditationKeepsTypes ==
  ASSUME MeditationTypes, MoneyIsLeft, [MeditationNext]_meditationVars
  PROVE  MeditationTypes' /\ MoneyIsLeft'
<1>1. ASSUME NEW n \in Nights, NightEvent(n)
      PROVE  /\ MeditationTypes'
             /\ night'[n].at # "cleanup" => night'[n].spend < Budget
  <2>0. night[n].at # "cleanup" => night[n].spend < Budget
    BY DEF MoneyIsLeft
  <2>1. CASE \/ NightStarts(n) \/ NightLocks(n) \/ NightReclaims(n) \/ NightRetakes(n)
             \/ NightSigns(n)
    <3>1. night'[n].spend = night[n].spend /\ night[n].at # "cleanup"
      BY <2>1 DEF NightStarts, NightLocks, NightReclaims, NightRetakes, NightSigns,
                  NightGoes, NightAt, MeditationTypes, NightRecords
    <3> QED  BY <2>0, <2>1, <3>1, LocksKeepTypes
  <2>2. CASE \/ NightGuards(n) \/ NightStashes(n) \/ NightProvisions(n) \/ NightReaps(n)
             \/ NightLoops(n) \/ NightLaunches(n)
    <3>1. night'[n].spend = night[n].spend /\ night[n].at # "cleanup"
      BY <2>2 DEF NightGuards, NightStashes, NightProvisions, NightReaps, NightLoops,
                  NightLaunches, NightGoes, NightAt, MeditationTypes, NightRecords
    <3> QED  BY <2>0, <2>2, <3>1, GuardsKeepTypes
  <2>3. CASE NightLands(n)
    BY <2>3, LandingKeepsTypes
  <2>4. CASE NightCleansUp(n) \/ NightKilled(n) \/ OrphanEnds(n)
    BY <2>4, EndKeepsTypes
  <2> QED  BY <1>1, <2>1, <2>2, <2>3, <2>4 DEF NightEvent, NightStep
<1>2. ASSUME NEW n \in Nights, NightEvent(n) PROVE MoneyIsLeft'
  BY <1>1, <1>2, OthersNightsStay DEF MoneyIsLeft
<1>3. CASE SessionWorks
  BY <1>3, SessionKeepsTypes DEF SessionWorks, MoneyIsLeft
<1>4. CASE HourPasses
  BY <1>4 DEF HourPasses, MeditationTypes, MoneyIsLeft
<1>5. CASE UNCHANGED meditationVars
  BY <1>5 DEF meditationVars, MeditationTypes, MoneyIsLeft
<1> QED  BY <1>1, <1>2, <1>3, <1>4, <1>5 DEF MeditationNext, NightEvent

-----------------------------------------------------------------------------
(* The lock                                                                *)

\* What happened is remembered, and the setting of the site does not change.
LEMMA MarksStay ==
  ASSUME MeditationTypes, [MeditationNext]_meditationVars
  PROVE  /\ mark.usurped => mark'.usurped
         /\ mark.raced => mark'.raced
         /\ mark.popFailed => mark'.popFailed
         /\ mark.killed => mark'.killed
         /\ site'.isolated = site.isolated
<1>0. mark \in Marks /\ site \in Sites
  BY DEF MeditationTypes
<1>1. CASE mark' = mark /\ site'.isolated = site.isolated
  BY <1>1
<1>2. ASSUME NEW n \in Nights, NightReclaims(n) \/ NightReaps(n) PROVE site' = site
  BY <1>2 DEF NightReclaims, NightReaps
<1>3. ASSUME NEW n \in Nights, NightReclaims(n)
      PROVE  /\ mark.usurped => mark'.usurped
             /\ mark'.raced = mark.raced /\ mark'.popFailed = mark.popFailed
             /\ mark'.killed = mark.killed
  BY <1>0, <1>3 DEF NightReclaims, Marks
<1>4. ASSUME NEW n \in Nights, NightReaps(n)
      PROVE  /\ mark'.usurped = mark.usurped
             /\ mark'.raced = mark.raced /\ mark'.popFailed = mark.popFailed
             /\ mark'.killed = mark.killed
  BY <1>0, <1>4 DEF NightReaps, Marks
<1>5. ASSUME NEW n \in Nights, NightCleansUp(n)
      PROVE  /\ mark'.usurped = mark.usurped /\ mark'.raced = mark.raced
             /\ mark.popFailed => mark'.popFailed
             /\ mark'.killed = mark.killed /\ site'.isolated = site.isolated
  BY <1>0, <1>5 DEF NightCleansUp, Marks, Sites, Restores
<1>6. ASSUME NEW n \in Nights, NightKilled(n)
      PROVE  /\ mark'.usurped = mark.usurped /\ mark'.raced = mark.raced
             /\ mark'.popFailed = mark.popFailed /\ mark'.killed /\ site' = site
  BY <1>0, <1>6 DEF NightKilled, Marks
<1>7. ASSUME SessionWorks
      PROVE  /\ mark'.usurped = mark.usurped
             /\ mark.raced => mark'.raced
             /\ mark'.popFailed = mark.popFailed /\ mark'.killed = mark.killed
             /\ site'.isolated = site.isolated
  BY <1>0, <1>7 DEF SessionWorks, Marks, Sites
<1>8. ASSUME NEW n \in Nights,
             \/ NightStarts(n) \/ NightLocks(n) \/ NightRetakes(n) \/ NightSigns(n)
             \/ NightGuards(n) \/ NightStashes(n) \/ NightProvisions(n) \/ NightLoops(n)
             \/ NightLaunches(n) \/ NightLands(n) \/ OrphanEnds(n)
      PROVE  mark' = mark /\ site'.isolated = site.isolated
  BY <1>0, <1>8 DEF NightStarts, NightLocks, NightRetakes, NightSigns, NightGuards,
       NightStashes, NightProvisions, NightLoops, NightLaunches, NightLands,
       OrphanEnds, Sites
<1>9. CASE HourPasses \/ UNCHANGED meditationVars
  BY <1>9 DEF HourPasses, meditationVars
<1>10. ASSUME NEW n \in Nights, NightEvent(n)
       PROVE  /\ mark.usurped => mark'.usurped
              /\ mark.raced => mark'.raced
              /\ mark.popFailed => mark'.popFailed
              /\ mark.killed => mark'.killed
              /\ site'.isolated = site.isolated
  <2>1. CASE NightReclaims(n)
    BY <1>2, <1>3, <2>1
  <2>2. CASE NightReaps(n)
    BY <1>2, <1>4, <2>2
  <2>3. CASE NightCleansUp(n)
    BY <1>5, <2>3
  <2>4. CASE NightKilled(n)
    BY <1>6, <2>4
  <2>5. CASE \/ NightStarts(n) \/ NightLocks(n) \/ NightRetakes(n) \/ NightSigns(n)
             \/ NightGuards(n) \/ NightStashes(n) \/ NightProvisions(n) \/ NightLoops(n)
             \/ NightLaunches(n) \/ NightLands(n) \/ OrphanEnds(n)
    BY <1>1, <1>8, <2>5
  <2> QED  BY <1>10, <2>1, <2>2, <2>3, <2>4, <2>5 DEF NightEvent, NightStep
<1> QED
  BY <1>1, <1>7, <1>9, <1>10 DEF MeditationNext, NightEvent

\* Who has the lock is in the tree or about to sign, and nobody else is.
LEMMA LockHolds ==
  ASSUME MeditationIInv, [MeditationNext]_meditationVars
  PROVE  LockIsTheNights'
<1> SUFFICES ASSUME ~mark'.usurped, NEW p \in Nights, HasTheLock(p)'
             PROVE  nightLock' = LockOf(p)' /\ \A q \in Nights \ {p} : ~HasTheLock(q)'
  BY DEF LockIsTheNights
<1>0. /\ MeditationTypes /\ MeditationTypes' /\ ~mark.usurped
      /\ night \in [Nights -> NightRecords]
  BY MeditationKeepsTypes, MarksStay DEF MeditationIInv, MeditationTypes
<1>1. \A m \in Nights : HasTheLock(m) =>
        nightLock = LockOf(m) /\ \A q \in Nights \ {m} : ~HasTheLock(q)
  BY <1>0 DEF MeditationIInv, LockIsTheNights
<1>2. \A m \in Nights : HasTheLock(m) =>
        /\ nightLock.dir
        /\ ~NightAt(m, "sign") => nightLock.pid = m
  BY <1>1, LockRecords DEF LockOf
<1> USE DEF HasTheLock, NightLives, LockOf, NightAt
<1>3. ASSUME NEW n \in Nights, NightEvent(n), nightLock' = nightLock,
             HasTheLock(n)' => HasTheLock(n) /\ LockOf(n)' = LockOf(n)
      PROVE  nightLock' = LockOf(p)' /\ \A q \in Nights \ {p} : ~HasTheLock(q)'
  <2>1. \A m \in Nights : HasTheLock(m)' => HasTheLock(m) /\ LockOf(m)' = LockOf(m)
    BY <1>0, <1>3, OthersNightsStay
  <2> QED  BY <1>1, <1>3, <2>1
<1>4. ASSUME NEW n \in Nights, NightEvent(n), \A m \in Nights : ~HasTheLock(m),
             HasTheLock(n)' => nightLock' = LockOf(n)'
      PROVE  nightLock' = LockOf(p)' /\ \A q \in Nights \ {p} : ~HasTheLock(q)'
  <2>1. \A m \in Nights \ {n} : ~HasTheLock(m)'
    BY <1>0, <1>4, OthersNightsStay
  <2> QED  BY <1>4, <2>1
<1>5. ASSUME NEW n \in Nights, NightEvent(n)
      PROVE  nightLock' = LockOf(p)' /\ \A q \in Nights \ {p} : ~HasTheLock(q)'
  <2>1. CASE \/ NightStarts(n) \/ NightGuards(n) \/ NightStashes(n) \/ NightProvisions(n)
             \/ NightReaps(n) \/ NightLoops(n) \/ NightLaunches(n) \/ NightLands(n)
             \/ NightKilled(n) \/ OrphanEnds(n)
    <3>1. nightLock' = nightLock
      BY <2>1 DEF NightStarts, NightGuards, NightStashes, NightProvisions, NightReaps,
                  NightLoops, NightLaunches, NightLands, NightKilled, OrphanEnds
    <3>2. CASE NightStarts(n) \/ NightKilled(n) \/ OrphanEnds(n)
      <4>1. ~HasTheLock(n)'
        <5>1. CASE NightStarts(n)
          BY <1>0, <5>1 DEF NightStarts, NightRecords
        <5>2. CASE NightKilled(n) \/ OrphanEnds(n)
          BY <1>0, <5>2, EndKeepsTypes
        <5> QED  BY <3>2, <5>1, <5>2
      <4> QED  BY <1>3, <1>5, <3>1, <4>1
    <3>3. CASE \/ NightGuards(n) \/ NightStashes(n) \/ NightProvisions(n)
               \/ NightReaps(n) \/ NightLoops(n) \/ NightLaunches(n) \/ NightLands(n)
      <4>1. /\ night[n].at \in {"guard", "stash", "provision", "reap", "loop", "launch",
                                "agent"}
            /\ night'[n].at # "sign"
        BY <1>0, <3>3
           DEF NightGuards, NightStashes, NightProvisions, NightReaps, NightLoops,
               NightLaunches, NightLands, NightGoes, NightRecords
      <4>2. HasTheLock(n) /\ LockOf(n)' = LockOf(n)
        BY <4>1
      <4> QED  BY <1>3, <1>5, <3>1, <4>2
    <3> QED  BY <2>1, <3>2, <3>3
  <2>2. CASE NightLocks(n)
    <3>1. CASE nightLock.dir
      <4>1. nightLock' = nightLock /\ night'[n].at \in {"over", "reclaim"}
        BY <1>0, <2>2, <3>1 DEF NightLocks, NightGoes, NightRecords
      <4> QED  BY <1>3, <1>5, <4>1
    <3>2. CASE ~nightLock.dir
      <4>1. nightLock.pid = Nobody
        BY <1>0, <3>2, LockRecords DEF MeditationTypes
      <4>2. nightLock' = NoPidYet /\ NightGoes(n, "sign")
        BY <2>2, <3>2, <4>1 DEF NightLocks
      <4>3. night'[n].at = "sign"
        BY <1>0, <4>2 DEF NightGoes, NightRecords
      <4> QED  BY <1>2, <1>4, <1>5, <3>2, <4>2, <4>3
    <3> QED  BY <3>1, <3>2
  <2>3. CASE NightRetakes(n)
    <3>1. CASE nightLock.dir
      <4>1. nightLock' = nightLock /\ night'[n].at = "over"
        BY <1>0, <2>3, <3>1 DEF NightRetakes, NightGoes, NightRecords
      <4> QED  BY <1>3, <1>5, <4>1
    <3>2. CASE ~nightLock.dir
      <4>1. nightLock' = NoPidYet /\ night'[n].at = "sign"
        BY <1>0, <2>3, <3>2 DEF NightRetakes, NightGoes, NightRecords
      <4> QED  BY <1>2, <1>4, <1>5, <3>2, <4>1
    <3> QED  BY <3>1, <3>2
  <2>4. CASE NightReclaims(n)
    <3>1. ~\E m \in Nights : NightAt(m, "sign") \/ (nightLock.pid = m /\ NightLives(m))
      BY <1>0, <2>4 DEF NightReclaims, MeditationTypes, Marks
    <3>2. \A m \in Nights : ~HasTheLock(m)
      BY <1>2, <3>1
    <3>3. night'[n].at = "retake"
      BY <1>0, <2>4 DEF NightReclaims, NightGoes, NightRecords
    <3> QED  BY <1>4, <1>5, <3>2, <3>3
  <2>5. CASE NightSigns(n)
    <3>1. HasTheLock(n) /\ nightLock.dir
      BY <1>2, <2>5 DEF NightSigns
    <3>2. nightLock' = OwnedBy(n) /\ night'[n].at = "guard"
      BY <1>0, <2>5, <3>1 DEF NightSigns, NightGoes, NightRecords
    <3>3. \A m \in Nights \ {n} : ~HasTheLock(m)'
      BY <1>0, <1>1, <1>5, <3>1, OthersNightsStay
    <3> QED  BY <3>2, <3>3
  <2>6. CASE NightCleansUp(n)
    <3>1. HasTheLock(n)
      BY <2>6 DEF NightCleansUp
    <3>2. \A m \in Nights \ {n} : ~HasTheLock(m)'
      BY <1>0, <1>1, <1>5, <3>1, OthersNightsStay
    <3>3. ~HasTheLock(n)'
      BY <1>0, <2>6, EndKeepsTypes
    <3> QED  BY <3>2, <3>3
  <2> QED
    BY <1>5, <2>1, <2>2, <2>3, <2>4, <2>5, <2>6 DEF NightEvent, NightStep
<1>6. CASE SessionWorks \/ HourPasses \/ UNCHANGED meditationVars
  <2>1. night' = night /\ nightLock' = nightLock
    BY <1>6 DEF SessionWorks, HourPasses, meditationVars
  <2> QED  BY <1>1, <2>1
<1> QED  BY <1>5, <1>6 DEF MeditationNext, NightEvent

-----------------------------------------------------------------------------
(* The backlog, the stash and the worktree                                 *)

\* Two runs with the lock are one, unless it was reclaimed from a living run.
LEMMA LockIsExclusive ==
  ASSUME MeditationIInv, ~mark.usurped, NEW n \in Nights, NEW m \in Nights,
         HasTheLock(n), HasTheLock(m)
  PROVE  n = m
BY DEF MeditationIInv, LockIsTheNights

\* The reaper works under the lock, and so does the cycle it would take from, unless
\* the run of that cycle was killed.
LEMMA ItemsStayWithTheirCycle ==
  ASSUME MeditationIInv, [MeditationNext]_meditationVars
  PROVE  InFlightIsKept'
<1> DEFINE Gone(m) == night[m].at \in {"orphaned", "killed"}
<1> SUFFICES ASSUME ~mark'.usurped, NEW p \in mark'.stolen PROVE Gone(p)'
  BY DEF InFlightIsKept
<1>0. /\ MeditationTypes /\ ~mark.usurped /\ mark \in Marks
      /\ \A m \in mark.stolen : Gone(m)
      /\ night \in [Nights -> NightRecords]
  BY MarksStay DEF MeditationIInv, InFlightIsKept, MeditationTypes
<1>1. ASSUME NEW n \in Nights, NightReaps(n) PROVE Gone(p)'
  <2>1. p \in mark.stolen \/ (p \in Nights /\ AgentWorks(p))
    BY <1>0, <1>1 DEF NightReaps, InFlight, Marks
  <2>2. p \in Nights /\ NightAt(n, "reap")
    BY <1>0, <1>1, <2>1 DEF NightReaps, Marks
  <2>3. CASE NightAt(p, "agent")
    <3>1. HasTheLock(p) /\ HasTheLock(n) /\ p # n
      BY <2>2, <2>3 DEF HasTheLock, NightLives, NightAt
    <3> QED  BY <1>0, <2>2, <3>1, LockIsExclusive
  <2>4. CASE ~NightAt(p, "agent")
    <3>1. Gone(p) /\ p # n
      BY <1>0, <2>1, <2>2, <2>4 DEF AgentWorks, NightAt
    <3> QED  BY <1>0, <1>1, <2>2, <3>1, OthersNightsStay DEF NightEvent, NightStep
  <2> QED  BY <2>3, <2>4
<1>2. ASSUME NEW n \in Nights, NightEvent(n), ~NightReaps(n) PROVE Gone(p)'
  <2>1. mark'.stolen = mark.stolen
    BY <1>0, <1>2
       DEF NightEvent, NightStep, NightStarts, NightLocks, NightReclaims, NightRetakes,
           NightSigns, NightGuards, NightStashes, NightProvisions, NightLoops,
           NightLaunches, NightLands, NightCleansUp, NightKilled, OrphanEnds, Marks
  <2>2. p \in Nights /\ Gone(p)
    BY <1>0, <2>1 DEF Marks
  <2>3. CASE p # n
    BY <1>0, <1>2, <2>2, <2>3, OthersNightsStay
  <2>4. CASE p = n
    <3>1. OrphanEnds(n)
      BY <1>2, <2>2, <2>4
         DEF NightEvent, NightStep, NightStarts, NightLocks, NightReclaims, NightRetakes,
             NightSigns, NightGuards, NightStashes, NightProvisions, NightLoops,
             NightLaunches, NightLands, NightCleansUp, NightKilled, NightLives, NightAt
    <3> QED  BY <1>0, <2>4, <3>1 DEF OrphanEnds, NoNight
  <2> QED  BY <2>3, <2>4
<1>3. CASE SessionWorks \/ HourPasses \/ UNCHANGED meditationVars
  BY <1>0, <1>3 DEF SessionWorks, HourPasses, meditationVars, Marks
<1> QED  BY <1>1, <1>2, <1>3 DEF MeditationNext, NightEvent

\* Going somewhere is all that changes of a run.
LEMMA GoneFields ==
  ASSUME MeditationTypes, NEW n \in Nights, NEW a, NightGoes(n, a)
  PROVE  night'[n].at = a /\ night'[n].stashed = night[n].stashed
BY DEF MeditationTypes, NightRecords, NightGoes

\* The stash and the work in the tree are touched by the stashing and at the end alone,
\* and a run comes to stash only over a tree without work.
LEMMA StashIsLeftAlone ==
  ASSUME MeditationTypes, NEW n \in Nights, NightEvent(n),
         ~NightCleansUp(n), ~NightKilled(n), ~OrphanEnds(n),
         NightStashes(n) => NightGoes(n, "cleanup")
  PROVE  /\ night'[n].stashed = night[n].stashed
         /\ NightStashes(n) => site' = site
         /\ site'.stash = site.stash /\ site'.work = site.work
         /\ night[n].at \in StashedSpots => night'[n].at \in StashedSpots
         /\ night'[n].at = "stash" => ~site.work /\ ~site.isolated
<1>0. night \in [Nights -> NightRecords] /\ site \in Sites
  BY DEF MeditationTypes
<1> USE DEF StashedSpots, NightAt
<1>1. CASE NightStarts(n)
  <2> DEFINE mid == [night EXCEPT ![n].at = "lock"]
  <2>1. /\ mid \in [Nights -> NightRecords] /\ mid[n].at = "lock"
        /\ mid[n].stashed = night[n].stashed
    BY <1>0 DEF NightRecords, NightSpots
  <2>2. night' = [mid EXCEPT ![n].deadline = clock + RunHours] /\ site' = site
        /\ night[n].at = "off"
    BY <1>1 DEF NightStarts
  <2> HIDE DEF mid
  <2>3. night'[n].at = "lock" /\ night'[n].stashed = mid[n].stashed
    BY <2>1, <2>2 DEF NightRecords
  <2> QED  BY <1>1, <2>1, <2>2, <2>3 DEF NightStashes
<1>2. CASE NightLocks(n) \/ NightReclaims(n) \/ NightRetakes(n) \/ NightSigns(n)
  <2>1. /\ night[n].at \in {"lock", "reclaim", "retake", "sign"} /\ site' = site
        /\ \E a \in {"sign", "over", "reclaim", "retake", "guard"} : NightGoes(n, a)
    BY <1>2 DEF NightLocks, NightReclaims, NightRetakes, NightSigns
  <2> QED  BY <2>1, GoneFields DEF NightStashes
<1>3. CASE NightGuards(n)
  <2>1. PICK a \in {"cleanup", "provision", "stash"} :
          NightGoes(n, a) /\ (a = "stash" => ~site.work /\ ~site.isolated)
    BY <1>0, <1>3 DEF NightGuards, Sites
  <2> QED  BY <1>3, <2>1, GoneFields DEF NightGuards, NightStashes
<1>4. CASE NightStashes(n)
  <2>1. NightGoes(n, "cleanup") /\ night'[n].at = "cleanup" /\ night[n].at = "stash"
    BY <1>4, GoneFields DEF NightStashes
  <2>2. night'[n].at # "provision"
    BY <2>1
  <2>3. ASSUME night' = [night EXCEPT ![n].at = "provision", ![n].stashed = TRUE]
        PROVE  FALSE
    <3> DEFINE mid == [night EXCEPT ![n].at = "provision"]
    <3>1. mid \in [Nights -> NightRecords] /\ mid[n].at = "provision"
      BY <1>0 DEF NightRecords, NightSpots
    <3>2. night' = [mid EXCEPT ![n].stashed = TRUE]
      BY <2>3
    <3> HIDE DEF mid
    <3>3. night'[n].at = mid[n].at
      BY <3>1, <3>2 DEF NightRecords
    <3> QED  BY <2>1, <3>1, <3>3
  <2>4. site' = site
    BY <1>4, <2>3 DEF NightStashes
  <2> QED  BY <2>1, <2>4, GoneFields
<1>5. CASE NightProvisions(n)
  <2>1. night[n].at = "provision" /\ site'.stash = site.stash /\ site'.work = site.work
    BY <1>0, <1>5 DEF NightProvisions, Sites
  <2> DEFINE mid == [night EXCEPT ![n].at = "reap"]
  <2>2. /\ mid \in [Nights -> NightRecords] /\ mid[n].at = "reap"
        /\ mid[n].stashed = night[n].stashed
    BY <1>0 DEF NightRecords, NightSpots
  <2>3. night' = mid \/ night' = [mid EXCEPT ![n].worktree = TRUE]
    BY <1>5 DEF NightProvisions, NightGoes
  <2> HIDE DEF mid
  <2>4. night'[n].at = "reap" /\ night'[n].stashed = mid[n].stashed
    BY <2>2, <2>3 DEF NightRecords
  <2> QED  BY <2>1, <2>2, <2>4 DEF NightStashes
<1>6. CASE NightReaps(n) \/ NightLaunches(n)
  <2>1. /\ night[n].at \in {"reap", "launch"} /\ site' = site
        /\ \/ \E a \in {"loop", "cleanup", "agent"} : NightGoes(n, a)
           \/ \E c \in Chores : night' = [night EXCEPT ![n].at = "agent", ![n].hand = {c}]
    BY <1>6 DEF NightReaps, NightLaunches
  <2>2. CASE \E a \in {"loop", "cleanup", "agent"} : NightGoes(n, a)
    BY <2>1, <2>2, GoneFields DEF NightStashes
  <2>3. ASSUME NEW c \in Chores,
               night' = [night EXCEPT ![n].at = "agent", ![n].hand = {c}]
        PROVE  night'[n].at = "agent" /\ night'[n].stashed = night[n].stashed
    <3> DEFINE mid == [night EXCEPT ![n].at = "agent"]
    <3>1. /\ mid \in [Nights -> NightRecords] /\ mid[n].at = "agent"
          /\ mid[n].stashed = night[n].stashed
      BY <1>0 DEF NightRecords, NightSpots
    <3>2. night' = [mid EXCEPT ![n].hand = {c}]
      BY <2>3
    <3> HIDE DEF mid
    <3> QED  BY <3>1, <3>2 DEF NightRecords
  <2> QED  BY <2>1, <2>2, <2>3 DEF NightStashes
<1>7. CASE NightLoops(n)
  <2> DEFINE mid == [night EXCEPT ![n].at = IF NightHalts(n) THEN "cleanup" ELSE "launch"]
             more == IF NightHalts(n) THEN night[n].cycle ELSE night[n].cycle + 1
  <2>1. /\ mid \in [Nights -> NightRecords] /\ mid[n].at \in {"cleanup", "launch"}
        /\ mid[n].stashed = night[n].stashed
    BY <1>0 DEF NightRecords, NightSpots
  <2>2. night' = [mid EXCEPT ![n].cycle = more] /\ site' = site /\ night[n].at = "loop"
    BY <1>0, <1>7 DEF NightLoops, NightRecords
  <2> HIDE DEF mid, more
  <2>3. night'[n].at = mid[n].at /\ night'[n].stashed = mid[n].stashed
    BY <2>1, <2>2 DEF NightRecords
  <2> QED  BY <2>1, <2>2, <2>3 DEF NightStashes
<1>8. CASE NightLands(n)
  <2>1. PICK d \in {night[n].spend, night[n].spend + 1}, a \in {"cleanup", "loop"} :
          night' = [night EXCEPT ![n].spend = d, ![n].hand = {}, ![n].at = a]
    BY <1>0, <1>8 DEF NightLands, NightRecords
  <2> DEFINE mid == [night EXCEPT ![n].spend = d, ![n].hand = {}]
  <2>2. mid[n].stashed = night[n].stashed /\ mid = [mid EXCEPT ![n] = mid[n]]
        /\ night' = [mid EXCEPT ![n].at = a] /\ n \in DOMAIN mid
    BY <1>0, <2>1 DEF NightRecords
  <2>3. mid[n] = [night[n] EXCEPT !.spend = d, !.hand = {}]
    BY <1>0
  <2>4. night'[n] = [mid[n] EXCEPT !.at = a]
    BY <2>2
  <2>5. night'[n].at = a /\ night'[n].stashed = night[n].stashed
    BY <1>0, <2>3, <2>4 DEF NightRecords
  <2>6. night[n].at = "agent" /\ site' = site
    BY <1>8 DEF NightLands
  <2> QED  BY <2>1, <2>5, <2>6 DEF NightStashes
<1> QED
  BY <1>1, <1>2, <1>3, <1>4, <1>5, <1>6, <1>7, <1>8 DEF NightEvent, NightStep

\* What a session set aside is the work it found, and comes back.
LEMMA StashIsKept ==
  ASSUME MeditationIInv, [MeditationNext]_meditationVars
  PROVE  StashIsLate' /\ WorkCameLate' /\ WorkIsNotStashed' /\ StashComesBack'
<1>0. /\ MeditationTypes /\ StashIsLate /\ WorkCameLate /\ WorkIsNotStashed /\ StashComesBack
      /\ night \in [Nights -> NightRecords] /\ site \in Sites /\ mark \in Marks
  BY DEF MeditationIInv, MeditationTypes
<1>2. /\ mark.raced => mark'.raced
      /\ mark.popFailed => mark'.popFailed
      /\ mark.killed => mark'.killed
  BY <1>0, MarksStay
<1>3. site'.isolated = site.isolated
  BY <1>0, MarksStay
<1> USE DEF NightAt
<1>4. ASSUME NEW n \in Nights, NightEvent(n),
             ~NightCleansUp(n), ~NightKilled(n), ~OrphanEnds(n),
             NightStashes(n) => NightGoes(n, "cleanup")
      PROVE  StashIsLate' /\ WorkCameLate' /\ WorkIsNotStashed' /\ StashComesBack'
  <2>1. /\ night'[n].stashed = night[n].stashed
        /\ site'.stash = site.stash /\ site'.work = site.work
        /\ night[n].at \in StashedSpots => night'[n].at \in StashedSpots
        /\ night'[n].at = "stash" => ~site.work /\ ~site.isolated
    BY <1>0, <1>4, StashIsLeftAlone
  <2>2. \A m \in Nights \ {n} : night'[m] = night[m]
    BY <1>0, <1>4, OthersNightsStay
  <2>3. StashIsLate'
    BY <1>0, <2>1, <2>2 DEF StashIsLate
  <2>4. WorkCameLate'
    BY <1>0, <1>2, <1>3, <2>1, <2>2 DEF WorkCameLate
  <2>5. WorkIsNotStashed'
    BY <1>0, <1>2, <1>3, <2>1 DEF WorkIsNotStashed
  <2>6. StashComesBack'
    <3> SUFFICES ASSUME site'.stash # {}, ~mark'.killed, ~mark'.popFailed
                 PROVE  \E m \in Nights : NightLives(m)' /\ night'[m].stashed
      BY DEF StashComesBack
    <3>1. PICK m \in Nights : NightLives(m) /\ night[m].stashed
      BY <1>0, <1>2, <2>1 DEF StashComesBack
    <3>2. CASE m = n
      <4>1. night'[n].at \in StashedSpots /\ night'[n].stashed
        BY <1>0, <2>1, <3>1, <3>2 DEF StashIsLate
      <4> QED  BY <4>1 DEF StashedSpots, NightLives
    <3>3. CASE m # n
      BY <2>2, <3>1, <3>3 DEF NightLives
    <3> QED  BY <3>2, <3>3
  <2> QED  BY <2>3, <2>4, <2>5, <2>6
<1>5. ASSUME NEW n \in Nights, NightStashes(n), ~NightGoes(n, "cleanup")
      PROVE  StashIsLate' /\ WorkCameLate' /\ WorkIsNotStashed' /\ StashComesBack'
  <2>1. /\ site' = [site EXCEPT !.churn = FALSE, !.work = FALSE,
                 !.stash = @ \cup (IF site.work THEN {"churn", "work"} ELSE {"churn"})]
        /\ night' = [night EXCEPT ![n].at = "provision", ![n].stashed = TRUE]
        /\ night[n].at = "stash" /\ mark' = mark
    BY <1>5 DEF NightStashes
  <2>2. night'[n].at = "provision" /\ night'[n].stashed
    <3> DEFINE mid == [night EXCEPT ![n].at = "provision"]
    <3>1. mid \in [Nights -> NightRecords] /\ mid[n].at = "provision"
      BY <1>0 DEF NightRecords, NightSpots
    <3>2. night' = [mid EXCEPT ![n].stashed = TRUE]
      BY <2>1
    <3> HIDE DEF mid
    <3> QED  BY <3>1, <3>2 DEF NightRecords
  <2>3. /\ ~site'.work
        /\ "work" \in site'.stash => site.work \/ "work" \in site.stash
    BY <1>0, <2>1 DEF Sites
  <2>4. \A m \in Nights \ {n} : night'[m] = night[m]
    BY <1>0, <1>5, OthersNightsStay DEF NightEvent, NightStep
  <2>5. ~site.isolated /\ (site.work => mark.raced)
    BY <1>0, <2>1 DEF WorkCameLate
  <2>6. StashIsLate'
    BY <1>0, <2>2, <2>4 DEF StashIsLate, StashedSpots
  <2>7. WorkCameLate'
    BY <1>0, <1>3, <2>2, <2>3, <2>4, <2>5 DEF WorkCameLate
  <2>8. WorkIsNotStashed'
    BY <1>0, <1>2, <1>3, <2>3, <2>5 DEF WorkIsNotStashed
  <2>9. StashComesBack'
    BY <2>2 DEF StashComesBack, NightLives
  <2> QED  BY <2>6, <2>7, <2>8, <2>9
<1>6. ASSUME NEW n \in Nights, NightCleansUp(n)
      PROVE  StashIsLate' /\ WorkCameLate' /\ WorkIsNotStashed' /\ StashComesBack'
  <2>1. night'[n].at \in {"over", "orphaned", "killed"} /\ ~night'[n].stashed
    BY <1>0, <1>6, EndKeepsTypes
  <2>2. \A m \in Nights \ {n} : night'[m] = night[m]
    BY <1>0, <1>6, OthersNightsStay DEF NightEvent, NightStep
  <2>3. /\ site'.work => site.work \/ "work" \in site.stash
        /\ site'.stash \subseteq site.stash
        /\ site'.stash # {} => ~night[n].stashed \/ mark'.popFailed
    <3>1. /\ Restores(n) \in Sites
          /\ Restores(n).work => site.work \/ "work" \in site.stash
          /\ Restores(n).stash \subseteq site.stash
          /\ Restores(n).stash # {} => ~night[n].stashed
      BY <1>0 DEF Restores, Sites, NightRecords
    <3>2. CASE site' = Restores(n)
      BY <3>1, <3>2
    <3>3. CASE /\ site' = [Restores(n) EXCEPT !.churn = site.churn, !.work = site.work,
                                              !.stash = site.stash]
               /\ mark' = [mark EXCEPT !.popFailed = TRUE]
      <4>1. site'.work = site.work /\ site'.stash = site.stash
        BY <1>0, <3>1, <3>3 DEF Sites
      <4>2. mark'.popFailed
        BY <1>0, <3>3 DEF Marks
      <4> QED  BY <4>1, <4>2
    <3> QED  BY <1>6, <3>2, <3>3 DEF NightCleansUp
  <2>4. StashIsLate'
    BY <1>0, <2>1, <2>2 DEF StashIsLate
  <2>5. WorkCameLate'
    BY <1>0, <1>2, <1>3, <2>1, <2>2, <2>3 DEF WorkCameLate, WorkIsNotStashed
  <2>6. WorkIsNotStashed'
    BY <1>0, <1>2, <1>3, <2>3 DEF WorkIsNotStashed
  <2>7. StashComesBack'
    <3> SUFFICES ASSUME site'.stash # {}, ~mark'.killed, ~mark'.popFailed
                 PROVE  \E m \in Nights : NightLives(m)' /\ night'[m].stashed
      BY DEF StashComesBack
    <3>1. PICK m \in Nights : NightLives(m) /\ night[m].stashed
      BY <1>0, <1>2, <2>3 DEF StashComesBack
    <3>2. m # n
      BY <2>3, <3>1
    <3> QED  BY <2>2, <3>1, <3>2 DEF NightLives
  <2> QED  BY <2>4, <2>5, <2>6, <2>7
<1>7. ASSUME NEW n \in Nights, NightKilled(n)
      PROVE  StashIsLate' /\ WorkCameLate' /\ WorkIsNotStashed' /\ StashComesBack'
  <2>1. night'[n].at \in {"over", "orphaned", "killed"} /\ ~night'[n].stashed
    BY <1>0, <1>7, EndKeepsTypes
  <2>2. \A m \in Nights \ {n} : night'[m] = night[m]
    BY <1>0, <1>7, OthersNightsStay DEF NightEvent
  <2>3. site' = site /\ mark'.killed
    BY <1>0, <1>7 DEF NightKilled, Marks
  <2> QED
    BY <1>0, <1>2, <2>1, <2>2, <2>3
       DEF StashIsLate, WorkCameLate, WorkIsNotStashed, StashComesBack
<1>10. ASSUME NEW n \in Nights, OrphanEnds(n)
       PROVE  StashIsLate' /\ WorkCameLate' /\ WorkIsNotStashed' /\ StashComesBack'
  <2>1. night'[n].at \in {"over", "orphaned", "killed"} /\ ~night'[n].stashed
    BY <1>0, <1>10, EndKeepsTypes
  <2>2. \A m \in Nights \ {n} : night'[m] = night[m]
    BY <1>0, <1>10, OthersNightsStay DEF NightEvent
  <2>3. site' = site /\ mark' = mark /\ ~NightLives(n)
    BY <1>10 DEF OrphanEnds, NightLives
  <2> QED
    BY <1>0, <2>1, <2>2, <2>3
       DEF StashIsLate, WorkCameLate, WorkIsNotStashed, StashComesBack, NightLives
<1>8. CASE SessionWorks
  <2>1. night' = night /\ site'.stash = site.stash
    BY <1>0, <1>8 DEF SessionWorks, Sites
  <2>2. (\E n \in Nights : NightAt(n, "stash")) => mark'.raced
    BY <1>0, <1>8 DEF SessionWorks, Marks
  <2> QED
    BY <1>0, <1>2, <1>3, <2>1, <2>2
       DEF StashIsLate, WorkCameLate, WorkIsNotStashed, StashComesBack, NightLives
<1>9. CASE HourPasses \/ UNCHANGED meditationVars
  <2>1. night' = night /\ site' = site
    BY <1>9 DEF HourPasses, meditationVars
  <2> QED
    BY <1>0, <1>2, <2>1
       DEF StashIsLate, WorkCameLate, WorkIsNotStashed, StashComesBack, NightLives
<1> QED
  BY <1>4, <1>5, <1>6, <1>7, <1>8, <1>9, <1>10 DEF MeditationNext, NightEvent, NightStep

\* Only the run with the lock makes and removes the worktree.
LEMMA WorktreeIsKept ==
  ASSUME MeditationIInv, [MeditationNext]_meditationVars
  PROVE  WorktreeIsTheNights'
<1> SUFFICES ASSUME site'.isolated, ~mark'.usurped, NEW p \in Nights, InTheWorktree(p)'
             PROVE  site'.wt = p
  BY DEF WorktreeIsTheNights
<1>0. /\ MeditationTypes /\ site.isolated /\ ~mark.usurped
      /\ night \in [Nights -> NightRecords] /\ site \in Sites
  BY MarksStay DEF MeditationIInv, MeditationTypes
<1>1. \A m \in Nights : InTheWorktree(m) => site.wt = m
  BY <1>0 DEF MeditationIInv, WorktreeIsTheNights
<1>2. \A m \in Nights : InTheWorktree(m) => HasTheLock(m)
  BY DEF InTheWorktree, HasTheLock, NightLives
<1>3. ASSUME NEW n \in Nights, NightEvent(n), ~NightProvisions(n), ~NightCleansUp(n)
      PROVE  site'.wt = p
  <2>1. site'.wt = site.wt
    BY <1>0, <1>3
       DEF NightEvent, NightStep, NightStarts, NightLocks, NightReclaims, NightRetakes,
           NightSigns, NightGuards, NightStashes, NightReaps, NightLoops, NightLaunches,
           NightLands, NightKilled, OrphanEnds, Sites
  <2>2. CASE p # n
    BY <1>0, <1>1, <1>3, <2>1, <2>2, OthersNightsStay DEF InTheWorktree
  <2>3. CASE p = n
    <3>1. ASSUME ~InTheWorktree(n) PROVE FALSE
      <4>1. CASE NightKilled(n) \/ OrphanEnds(n)
        BY <1>0, <2>3, <4>1, EndKeepsTypes DEF InTheWorktree
      <4>2. CASE NightStarts(n)
        BY <1>0, <2>3, <4>2 DEF NightStarts, InTheWorktree, NightRecords
      <4>3. CASE \/ NightLocks(n) \/ NightReclaims(n) \/ NightRetakes(n)
                 \/ NightSigns(n) \/ NightGuards(n)
        <5>1. \E a \in {"sign", "over", "reclaim", "retake", "guard", "cleanup", "provision",
                        "stash"} : NightGoes(n, a)
          BY <1>0, <4>3 DEF NightLocks, NightReclaims, NightRetakes, NightSigns, NightGuards,
                            Sites
        <5> QED  BY <1>0, <2>3, <5>1, GoneFields DEF InTheWorktree
      <4>4. CASE NightStashes(n)
        <5>1. CASE NightGoes(n, "cleanup")
          BY <1>0, <2>3, <5>1, GoneFields DEF InTheWorktree
        <5>2. CASE night' = [night EXCEPT ![n].at = "provision", ![n].stashed = TRUE]
          <6> DEFINE mid == [night EXCEPT ![n].at = "provision"]
          <6>1. mid \in [Nights -> NightRecords] /\ mid[n].at = "provision"
            BY <1>0 DEF NightRecords, NightSpots
          <6>2. night' = [mid EXCEPT ![n].stashed = TRUE]
            BY <5>2
          <6> HIDE DEF mid
          <6>3. night'[n].at = "provision"
            BY <6>1, <6>2 DEF NightRecords
          <6> QED  BY <2>3, <6>3 DEF InTheWorktree
        <5> QED  BY <4>4, <5>1, <5>2 DEF NightStashes
      <4>5. CASE NightReaps(n) \/ NightLoops(n) \/ NightLaunches(n) \/ NightLands(n)
        BY <3>1, <4>5
           DEF NightReaps, NightLoops, NightLaunches, NightLands, NightAt, InTheWorktree
      <4> QED
        BY <1>3, <4>1, <4>2, <4>3, <4>4, <4>5 DEF NightEvent, NightStep
    <3> QED  BY <1>1, <2>1, <2>3, <3>1
  <2> QED  BY <2>2, <2>3
<1>4. ASSUME NEW n \in Nights, NightProvisions(n) PROVE site'.wt = p
  <2>1. site'.wt = n
    BY <1>0, <1>4 DEF NightProvisions, Sites
  <2>2. HasTheLock(n)
    BY <1>4 DEF NightProvisions, HasTheLock, NightLives, NightAt
  <2>3. p # n => InTheWorktree(p)
    BY <1>0, <1>4, OthersNightsStay DEF NightEvent, NightStep, InTheWorktree
  <2> QED  BY <1>0, <1>2, <2>1, <2>2, <2>3, LockIsExclusive
<1>5. ASSUME NEW n \in Nights, NightCleansUp(n) PROVE FALSE
  <2>1. p # n
    BY <1>0, <1>5, EndKeepsTypes DEF InTheWorktree
  <2>2. HasTheLock(n)
    BY <1>5 DEF NightCleansUp, HasTheLock, NightLives, NightAt
  <2>3. InTheWorktree(p)
    BY <1>0, <1>5, <2>1, OthersNightsStay DEF NightEvent, NightStep, InTheWorktree
  <2> QED  BY <1>0, <1>2, <2>1, <2>2, <2>3, LockIsExclusive
<1>6. CASE SessionWorks \/ HourPasses \/ UNCHANGED meditationVars
  <2>1. night' = night /\ site'.wt = site.wt
    BY <1>0, <1>6 DEF SessionWorks, HourPasses, meditationVars, Sites
  <2> QED  BY <1>1, <2>1 DEF InTheWorktree
<1> QED  BY <1>3, <1>4, <1>5, <1>6 DEF MeditationNext, NightEvent, NightStep

-----------------------------------------------------------------------------

\* The inductive invariant says what the run checks.
LEMMA MeditationIInvImplies == MeditationIInv => MeditationInv
<1> SUFFICES ASSUME MeditationIInv PROVE MeditationInv
  OBVIOUS
<1>0. /\ MeditationTypes /\ LockIsTheNights /\ InFlightIsKept /\ WorkIsNotStashed
      /\ StashComesBack /\ WorktreeIsTheNights
  BY DEF MeditationIInv
<1>1. MeditationTypeOK
  BY <1>0 DEF MeditationTypes, MeditationTypeOK, NightRecords, NightSpots, Sites, Marks
<1>2. \A n \in Nights : InTheTree(n) => HasTheLock(n) /\ LockOf(n) = OwnedBy(n)
  BY DEF InTheTree, HasTheLock, LockOf, NightAt
<1>3. OneNight
  BY <1>0, <1>2 DEF OneNight, LockIsTheNights
<1>4. WorktreeIsMine
  BY <1>0 DEF WorktreeIsMine, WorktreeIsTheNights, InTheWorktree, NightAt
<1> QED  BY <1>0, <1>1, <1>3, <1>4 DEF MeditationInv

\* For any number of runs, killed at any moment, and a session that works beside them
\* (bin/meditation_overnight.sh:120-330): until a lock is reclaimed from a living run one
\* run is alone past it, no item is taken out of a living cycle's hands, and a living run
\* works in its own worktree (the agent that a killed run leaves is excepted); and work in
\* progress is stashed only when it came after the guards, and comes back.
THEOREM NightsKeepTheirHandsOff == MeditationSpec => []MeditationInv
<1>1. MeditationIInv /\ [MeditationNext]_meditationVars => MeditationIInv'
  <2> SUFFICES ASSUME MeditationIInv, [MeditationNext]_meditationVars PROVE MeditationIInv'
    OBVIOUS
  <2>1. MeditationTypes' /\ MoneyIsLeft'
    BY MeditationKeepsTypes DEF MeditationIInv
  <2> QED
    BY <2>1, LockHolds, ItemsStayWithTheirCycle, StashIsKept, WorktreeIsKept
       DEF MeditationIInv
<1> QED  BY <1>1, MeditationStarts, MeditationIInvImplies, PTL DEF MeditationSpec
=============================================================================
