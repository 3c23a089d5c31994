--------------------------- MODULE Installer_proofs ---------------------------
(* What holds of the installer for any harnesses, events, install paths and    *)
(* users: an inductive invariant, that its steps keep it, and the safety        *)
(* properties that follow from it.                                              *)
(*                                                                              *)
(* The idea is one value per harness: the path its config runs Samurai from, or *)
(* NoRoot.  Every step of a command moves a config between two such values, and *)
(* before it does the manifest holds a record that fits both (Fits).            *)
EXTENDS Installer, FiniteSetTheorems, SequenceTheorems, TLAPS

Paths == Roots \union {NoRoot}
Files == [Events -> Seq(Group)]
Manifests == [roots : SUBSET Roots, entries : [Harnesses -> Entry]]
WritePoints == {"write", "check", "replace", "settle"}
Failures == {"refused", "busy", "unfit", "io"}
Commands ==
  [kind : {"none", "install", "uninstall"}, root : Roots, force : BOOLEAN,
   at : WritePoints \union {"next", "over"}, todo : Seq(Harnesses), man : Manifests,
   entry : Entry, remove : SUBSET Events, raw : Files \union {<< >>},
   again : BOOLEAN, failed : SUBSET Failures, done : SUBSET Harnesses]
Users ==
  [past : Pasts, hers : [Harnesses -> Nat], touched : SUBSET Harnesses,
   raced : SUBSET Harnesses, calm : BOOLEAN]
Allowances == [edits : Nat, commands : Nat, faults : Nat]

\* The harness whose file is being written.
Hand == Head(cmd.todo)

Typed ==
  /\ config \in [Harnesses -> [ok : BOOLEAN, at : Files]]
  /\ manifest \in Manifests
  /\ cmd \in Commands
  /\ user \in Users
  /\ left \in Allowances

Locks == lock \in {"file", "orphan", "shared"}

\* No group of the user lies beyond the bound on what she adds.
Low(at) ==
  \A e \in Events : \A i \in DOMAIN at[e] : i \notin Ours(at[e]) => i <= MaxGroups

\* What a write has read, and that it has not changed when it is replaced.
Flow ==
  /\ cmd.at \in WritePoints => cmd.todo /= << >>
  /\ cmd.at \in {"check", "replace", "settle"} => cmd.raw \in Files
  /\ cmd.at \in {"check", "replace"} => ~MutateRefuses(cmd.raw) /\ Low(cmd.raw)
  /\ cmd.at = "replace" /\ Hand \notin user.raced
       => config[Hand] = [ok |-> TRUE, at |-> cmd.raw]
  /\ cmd.at = "over" \/ cmd.kind /= "none"

\* The places of the user's groups: UserHooksStay counts them.
ForeignAt(at) ==
  {x \in Events \X (1 .. MaxGroups + 1) :
     x[2] \in DOMAIN at[x[1]] \ Ours(at[x[1]])}

HandsOff ==
  \A h \in Harnesses :
    /\ Low(config[h].at)
    /\ h \notin user.raced => user.hers[h] = Cardinality(ForeignAt(config[h].at))

-----------------------------------------------------------------------------
\* A definition of h's hooks for path d.
Says(def, h, d) == def = [e \in Events |-> IF e \in HookEvents[h] THEN d ELSE NoRoot]

\* h's file runs Samurai from r, and from nowhere else.
RunsFrom(at, h, r) ==
  \A e \in Events :
    IF e \in HookEvents[h] /\ r /= NoRoot
    THEN \E i \in DOMAIN at[e] : at[e][i] = Hook(r) /\ Ours(at[e]) = {i}
    ELSE Ours(at[e]) = {}

\* Without a record there is nothing of Samurai, or what a legacy install left.
Unrecorded(r, past) == r = NoRoot \/ (r = Core /\ past = "legacy")

\* The record is a true one of a file that runs Samurai from r: while a write is
\* under way it is true of the file before it and of the file after it.
Fits(entry, h, r, roots, past) ==
  \/ entry = NoEntry /\ Unrecorded(r, past)
  \/ \E d \in {Core} \union roots :
       /\ Says(entry.def, h, d)
       /\ \/ entry.state = "installed" /\ r = d
          \/ entry.state = "removing" /\ r \in {d, NoRoot}
          \/ entry.state = "pending" /\ r = d
          \/ entry.state = "pending" /\ entry.prior = {} /\ Unrecorded(r, past)
          \/ /\ entry.state = "pending"
             /\ r \in {Core} \union roots
             /\ \E p \in entry.prior : entry.prior = {p} /\ Says(p.def, h, r)

\* As recovery leaves it: it says where Samurai runs from, or that it does not.
Sure(entry, h, r, roots, past) ==
  \/ entry = NoEntry /\ Unrecorded(r, past)
  \/ /\ entry.state \in {"installed", "removing"}
     /\ r \in {Core} \union roots /\ Says(entry.def, h, r)

Firm == {"none", "installed"}
Fitting(entry, h, r) == Fits(entry, h, r, manifest.roots, user.past)

\* A write of h's file, which runs Samurai from r.
Writes(h, r) ==
  cmd.at \in WritePoints /\ Hand = h =>
    /\ cmd.kind = "install" =>
         /\ manifest.entries[h].state = "pending"
         /\ Says(manifest.entries[h].def, h, cmd.root)
         /\ cmd.at /= "settle" =>
              /\ Sure(cmd.entry, h, r, manifest.roots, user.past)
              /\ cmd.entry.state \in Firm
         /\ cmd.at = "settle" => r = cmd.root
    /\ cmd.kind = "uninstall" =>
         /\ manifest.entries[h].state = "removing"
         /\ cmd.at /= "settle" => r \in Roots /\ Says(cmd.entry.def, h, r)
         /\ cmd.remove = HookEvents[h]
         /\ cmd.at = "settle" => r = NoRoot

\* What a command may report as done of h, whose file runs Samurai from r and whose
\* record is entry.
Reported(h, r, entry) ==
  /\ cmd.kind = "install" =>
       r = cmd.root /\ entry.state = "installed" /\ Says(entry.def, h, r)
  /\ cmd.kind = "uninstall" =>
       r = NoRoot \/ (r = Core /\ user.past = "legacy" /\ ~user.calm)

\* The files whose Samurai groups only Samurai wrote.
Clean == Harnesses \ (user.touched \union user.raced)

Book(h, r) ==
  /\ config[h].ok /\ RunsFrom(config[h].at, h, r)
  /\ Fitting(manifest.entries[h], h, r)
  /\ cmd.at /= "over" => Fitting(cmd.man.entries[h], h, r)
  /\ Writes(h, r)
  /\ h \in cmd.done => Reported(h, r, manifest.entries[h])
Books == \A h \in Clean : \E r \in Paths : Book(h, r)

\* The command's copy of the manifest, what it still has to do, and who is to
\* blame when an install refuses.
Course ==
  /\ cmd.at /= "over" => cmd.man.roots = manifest.roots
  /\ cmd.at \in WritePoints => cmd.man = manifest
  /\ cmd.kind = "install" /\ cmd.at /= "over" =>
       /\ \A h \in cmd.done : cmd.man.entries[h] = manifest.entries[h]
       /\ cmd.root \in manifest.roots
       /\ IsInjective(cmd.todo)
       /\ cmd.done \intersect ToSet(cmd.todo) = {}
       /\ \A h \in Clean \intersect ToSet(cmd.todo) :
            cmd.man.entries[h].state \in Firm \/ (cmd.at \in WritePoints /\ Hand = h)
  /\ cmd.kind = "install" /\ "refused" \in cmd.failed => Clean /= Harnesses
  /\ cmd.kind = "uninstall" /\ cmd.at /= "over" /\ cmd.failed = {} =>
       Clean \subseteq cmd.done \union ToSet(cmd.todo)

\* Until the first edit or fault no write is refused and none is left unfinished.
Calm ==
  user.calm =>
    /\ user.touched = {} /\ user.raced = {}
    /\ \A h \in Harnesses, e \in Events :
         Ours(config[h].at[e]) = DOMAIN config[h].at[e]
    /\ cmd.at \in {"check", "replace"} => config[Hand].at = cmd.raw
    /\ \A h \in Harnesses :
         \/ cmd.at \in WritePoints /\ Hand = h
         \/ /\ manifest.entries[h].state \in Firm
            /\ cmd.at /= "over" => cmd.man.entries[h].state \in Firm

Ledger == Books /\ Course /\ Calm

-----------------------------------------------------------------------------
(* The helpers on groups                                                     *)

\* Every harness has events, and there are finitely many of them.
LEMMA EventsAreFinite ==
  /\ IsFiniteSet(Events)
  /\ \A h \in Harnesses : HookEvents[h] \subseteq Events /\ HookEvents[h] /= {}
<1>1. IsFiniteSet(Harnesses)
  <2>1. HarnessOrder \in Surjection(1 .. Len(HarnessOrder), Harnesses)
    BY InstallerAssumption DEF Harnesses, ToSet, Surjection
  <2> QED
    BY <2>1, FS_Surjection, FS_Interval, InstallerAssumption, LenProperties
<1> DEFINE sets == {HookEvents[h] : h \in Harnesses}
<1>2. IsFiniteSet(sets)
  <2> DEFINE f == [h \in Harnesses |-> HookEvents[h]]
  <2>1. f \in Surjection(Harnesses, sets)
    BY DEF Surjection
  <2> QED
    BY <2>1, <1>1, FS_Surjection
<1>3. \A s \in sets : IsFiniteSet(s)
  BY InstallerAssumption
<1>4. IsFiniteSet(UNION sets)
  BY <1>2, <1>3, FS_UNION
<1> QED
  BY <1>4, InstallerAssumption DEF Events

LEMMA Groups ==
  /\ Foreign \in Group
  /\ \A r \in Roots : Hook(r) \in Group /\ Hook(r) /= Foreign
  /\ \A g \in Group : g.exact => g /= Foreign /\ g.root \in Roots /\ g = Hook(g.root)
  /\ \A g \in Group : g /= Foreign <=> g.root \in Roots
  BY InstallerAssumption DEF Group, Foreign, Hook

\* _locate finds only groups of Samurai.
LEMMA HitsAreOurs ==
  ASSUME NEW groups \in Seq(Group), NEW S
  PROVE  Hits(groups, S) \subseteq Ours(groups) /\ Ours(groups) \subseteq DOMAIN groups
  BY Groups, ElementOfSeq, LenProperties DEF Hits, Ours

\* What _locate finds for the paths S in a file that runs Samurai from r.
LEMMA RunsHits ==
  ASSUME NEW at \in Files, NEW h \in Harnesses, NEW r \in Paths, RunsFrom(at, h, r),
         NEW S \in SUBSET Roots, NEW e \in Events
  PROVE  /\ e \in HookEvents[h] /\ r \in S =>
              /\ Hits(at[e], S) = Ours(at[e])
              /\ \E i \in DOMAIN at[e] :
                   at[e][i] = Hook(r) /\ Hits(at[e], S) = {i}
         /\ ~(e \in HookEvents[h] /\ r \in S) => Hits(at[e], S) = {}
         /\ Cardinality(Hits(at[e], S)) =
              IF e \in HookEvents[h] /\ r \in S THEN 1 ELSE 0
<1>0. at[e] \in Seq(Group) /\ NoRoot \notin S
  BY InstallerAssumption DEF Files
<1>1. Hits(at[e], S) \subseteq Ours(at[e])
  BY <1>0, HitsAreOurs
<1>2. ASSUME e \in HookEvents[h], r \in S
      PROVE  \E i \in DOMAIN at[e] :
               /\ at[e][i] = Hook(r) /\ Hits(at[e], S) = {i}
               /\ Hits(at[e], S) = Ours(at[e])
  <2>1. PICK i \in DOMAIN at[e] : at[e][i] = Hook(r) /\ Ours(at[e]) = {i}
    BY <1>2, <1>0 DEF RunsFrom
  <2>2. i \in Hits(at[e], S)
    BY <2>1, <1>2 DEF Hits, Hook
  <2> QED
    BY <2>1, <2>2, <1>1
<1>3. ASSUME ~(e \in HookEvents[h] /\ r \in S)
      PROVE  Hits(at[e], S) = {}
  <2>1. CASE e \in HookEvents[h] /\ r /= NoRoot
    <3>1. PICK i \in DOMAIN at[e] : at[e][i] = Hook(r) /\ Ours(at[e]) = {i}
      BY <2>1 DEF RunsFrom
    <3>2. i \notin Hits(at[e], S)
      BY <3>1, <1>3, <2>1 DEF Hits, Hook
    <3> QED
      BY <3>1, <3>2, <1>1
  <2>2. CASE ~(e \in HookEvents[h] /\ r /= NoRoot)
    BY <2>2, <1>1 DEF RunsFrom
  <2> QED
    BY <2>1, <2>2
<1> QED
  BY <1>2, <1>3, FS_EmptySet, FS_Singleton

\* A file runs Samurai from one path only.
LEMMA RunsFromOne ==
  ASSUME NEW at \in Files, NEW h \in Harnesses, NEW r \in Paths, NEW q \in Paths,
         RunsFrom(at, h, r), RunsFrom(at, h, q)
  PROVE  r = q
<1>1. PICK e \in Events : e \in HookEvents[h]
  BY EventsAreFinite
<1> QED
  BY <1>1, Groups DEF RunsFrom, Hook

\* RemoveAt (`del groups[i]`).
LEMMA Removed ==
  ASSUME NEW S, NEW s \in Seq(S), NEW i \in DOMAIN s
  PROVE  /\ RemoveAt(s, i) \in Seq(S)
         /\ DOMAIN RemoveAt(s, i) = 1 .. Len(s) - 1
         /\ Len(RemoveAt(s, i)) = Len(s) - 1
         /\ \A j \in 1 .. Len(s) - 1 :
              RemoveAt(s, i)[j] = IF j < i THEN s[j] ELSE s[j + 1]
<1> DEFINE a == SubSeq(s, 1, i - 1)
           b == SubSeq(s, i + 1, Len(s))
<1>1. i \in 1 .. Len(s) /\ Len(s) \in Nat /\ \A j \in 1 .. Len(s) : s[j] \in S
  BY LenProperties, ElementOfSeq
<1>2. a \in Seq(S) /\ Len(a) = i - 1 /\ \A j \in 1 .. i - 1 : a[j] = s[j]
  BY <1>1, SubSeqProperties
<1>3. /\ b \in Seq(S) /\ Len(b) = Len(s) - i
      /\ \A j \in 1 .. Len(s) - i : b[j] = s[i + j]
  <2>1. \A j \in i + 1 .. Len(s) : s[j] \in S
    BY <1>1
  <2>2. /\ SubSeq(s, i + 1, Len(s)) \in Seq(S)
        /\ Len(SubSeq(s, i + 1, Len(s))) =
             IF i + 1 <= Len(s) THEN Len(s) - (i + 1) + 1 ELSE 0
        /\ \A j \in 1 .. Len(s) - (i + 1) + 1 :
             SubSeq(s, i + 1, Len(s))[j] = s[i + 1 + j - 1]
    BY <1>1, <2>1, SubSeqProperties
  <2> QED
    BY <1>1, <2>2
<1> HIDE DEF a, b
<1>4. /\ a \o b \in Seq(S) /\ Len(a \o b) = Len(s) - 1
      /\ \A j \in 1 .. Len(s) - 1 :
           (a \o b)[j] = IF j <= i - 1 THEN a[j] ELSE b[j - (i - 1)]
  <2>1. /\ a \o b \in Seq(S) /\ Len(a \o b) = Len(a) + Len(b)
        /\ \A j \in 1 .. Len(a) + Len(b) :
             (a \o b)[j] = IF j <= Len(a) THEN a[j] ELSE b[j - Len(a)]
    BY <1>2, <1>3, ConcatProperties
  <2>2. Len(a) + Len(b) = Len(s) - 1
    BY <1>1, <1>2, <1>3
  <2> QED
    BY <2>1, <2>2, <1>2
<1>5. \A j \in 1 .. Len(s) - 1 : (a \o b)[j] = IF j < i THEN s[j] ELSE s[j + 1]
  <2> TAKE j \in 1 .. Len(s) - 1
  <2>1. CASE j < i
    BY <2>1, <1>1, <1>2, <1>4
  <2>2. CASE ~(j < i)
    <3>1. j - (i - 1) \in 1 .. Len(s) - i /\ i + (j - (i - 1)) = j + 1
      BY <2>2, <1>1
    <3>2. (a \o b)[j] = b[j - (i - 1)]
      BY <2>2, <1>1, <1>4
    <3> QED
      BY <2>2, <3>1, <3>2, <1>3
  <2> QED
    BY <2>1, <2>2
<1>6. RemoveAt(s, i) = a \o b
  BY DEF RemoveAt, a, b
<1> QED
  BY <1>4, <1>5, <1>6, LenProperties

-----------------------------------------------------------------------------
(* _apply_plan and the removal of _uninstall_harness                         *)

\* The paths looked for are install paths.
LEMMA SoughtRoots ==
  ASSUME NEW entry \in Entry, NEW e \in Events, NEW known \in SUBSET Roots
  PROVE  /\ Sought(entry, e, known) \in SUBSET Roots
         /\ e \in Recorded(entry) => Defs(entry, e) \in SUBSET Roots
         /\ entry.def[e] \in Paths /\ entry.prev[e] \in SUBSET Roots
<1>1. entry.def[e] \in Paths /\ entry.prev[e] \in SUBSET Roots
  BY DEF Entry, Paths
<1> QED
  BY <1>1 DEF Sought, Defs, Recorded, Paths

\* An event of the file after _apply_plan: untouched, or the hook is appended or
\* written over what was found.
Rewritten(new, old, named, hits, root) ==
  /\ new \in Seq(Group)
  /\ ~named => new = old
  /\ named /\ hits = {} =>
       /\ new = Append(old, Hook(root))
       /\ Ours(new) = Ours(old) \union {Len(old) + 1}
       /\ new[Len(old) + 1] = Hook(root)
       /\ DOMAIN new = 1 .. Len(old) + 1
  /\ named /\ hits /= {} =>
       /\ Ours(new) = Ours(old)
       /\ DOMAIN new = DOMAIN old
       /\ \A i \in DOMAIN new : new[i] = IF i \in hits THEN Hook(root) ELSE old[i]
  /\ DOMAIN new \ Ours(new) = DOMAIN old \ Ours(old)

LEMMA AppliedEvent ==
  ASSUME NEW at \in Files, NEW h \in Harnesses, NEW entry \in Entry,
         NEW known \in SUBSET Roots, NEW root \in Roots, NEW e \in Events
  PROVE  Rewritten(Applied(at, h, entry, known, root)[e], at[e], e \in HookEvents[h],
                   Hits(at[e], Sought(entry, e, known)), root)
<1> DEFINE new == Applied(at, h, entry, known, root)[e]
           hits == Hits(at[e], Sought(entry, e, known))
<1>0. at[e] \in Seq(Group)
  BY DEF Files
<1>1. new = IF e \notin HookEvents[h] THEN at[e]
            ELSE IF hits = {} THEN Append(at[e], Hook(root))
            ELSE [i \in DOMAIN at[e] |-> IF i \in hits THEN Hook(root) ELSE at[e][i]]
  BY DEF Applied
<1>2. hits \subseteq Ours(at[e]) /\ Ours(at[e]) \subseteq DOMAIN at[e]
  BY <1>0, HitsAreOurs
<1>3. Hook(root) \in Group /\ Hook(root) /= Foreign
  BY Groups
<1>4. DOMAIN at[e] = 1 .. Len(at[e]) /\ Len(at[e]) \in Nat
  BY <1>0, LenProperties
<1> HIDE DEF new, hits
<1>5. CASE e \notin HookEvents[h]
  BY <1>5, <1>1, <1>0 DEF new, hits, Rewritten
<1>6. CASE e \in HookEvents[h] /\ hits = {}
  <2>1. new = Append(at[e], Hook(root))
    BY <1>6, <1>1
  <2>2. /\ new \in Seq(Group) /\ DOMAIN new = 1 .. Len(at[e]) + 1
        /\ \A i \in 1 .. Len(at[e]) : new[i] = at[e][i]
        /\ new[Len(at[e]) + 1] = Hook(root)
    BY <2>1, <1>0, <1>3, AppendProperties, LenProperties
  <2>3. Ours(new) = Ours(at[e]) \union {Len(at[e]) + 1}
    BY <2>2, <1>3, <1>4 DEF Ours
  <2>4. DOMAIN new \ Ours(new) = DOMAIN at[e] \ Ours(at[e])
    BY <2>2, <2>3, <1>2, <1>4
  <2> QED
    BY <1>6, <2>1, <2>2, <2>3, <2>4 DEF new, hits, Rewritten
<1>7. CASE e \in HookEvents[h] /\ hits /= {}
  <2>1. new = [i \in 1 .. Len(at[e]) |-> IF i \in hits THEN Hook(root) ELSE at[e][i]]
    BY <1>7, <1>1, <1>4
  <2>2. \A i \in 1 .. Len(at[e]) : (IF i \in hits THEN Hook(root) ELSE at[e][i]) \in Group
    BY <1>0, <1>3, ElementOfSeq
  <2>3. new \in Seq(Group)
    BY <2>1, <2>2, <1>4
  <2>4. Ours(new) = Ours(at[e])
    BY <2>1, <1>2, <1>3, <1>4 DEF Ours
  <2>5. DOMAIN new = DOMAIN at[e]
    BY <2>1, <1>4
  <2> QED
    BY <1>7, <2>1, <2>3, <2>4, <2>5, <1>4 DEF new, hits, Rewritten
<1> QED
  BY <1>5, <1>6, <1>7

LEMMA AppliedFile ==
  ASSUME NEW at \in Files, NEW h \in Harnesses, NEW entry \in Entry,
         NEW known \in SUBSET Roots, NEW root \in Roots
  PROVE  Applied(at, h, entry, known, root) \in Files
<1> DEFINE file == Applied(at, h, entry, known, root)
<1>1. file = [e \in Events |-> file[e]]
  BY DEF Applied
<1>2. \A e \in Events : file[e] \in Seq(Group)
  BY AppliedEvent DEF Rewritten
<1> QED
  BY <1>1, <1>2 DEF Files

\* An install writes its path over the one a file runs Samurai from, or where
\* there was none, and finds nothing to write when it is its own.
LEMMA AppliedRuns ==
  ASSUME NEW at \in Files, NEW h \in Harnesses, NEW entry \in Entry,
         NEW known \in SUBSET Roots, NEW root \in Roots, NEW r \in Paths,
         RunsFrom(at, h, r),
         r = NoRoot \/ \A e \in HookEvents[h] : r \in Sought(entry, e, known)
  PROVE  RunsFrom(Applied(at, h, entry, known, root), h, root)
<1> DEFINE file == Applied(at, h, entry, known, root)
<1>0. root /= NoRoot
  BY InstallerAssumption
<1> SUFFICES ASSUME NEW e \in Events
             PROVE  IF e \in HookEvents[h]
                    THEN \E i \in DOMAIN file[e] :
                           file[e][i] = Hook(root) /\ Ours(file[e]) = {i}
                    ELSE Ours(file[e]) = {}
  BY <1>0 DEF RunsFrom
<1> DEFINE hits == Hits(at[e], Sought(entry, e, known))
<1>1. Sought(entry, e, known) \in SUBSET Roots
  BY SoughtRoots
<1>a. Rewritten(file[e], at[e], e \in HookEvents[h], hits, root)
  BY AppliedEvent
<1>b. /\ e \in HookEvents[h] /\ r \in Sought(entry, e, known) =>
           /\ hits = Ours(at[e])
           /\ \E i \in DOMAIN at[e] : at[e][i] = Hook(r) /\ hits = {i}
      /\ r \notin Sought(entry, e, known) => hits = {}
  BY <1>1, RunsHits
<1> HIDE DEF file, hits
<1>2. CASE e \notin HookEvents[h]
  BY <1>2, <1>a DEF RunsFrom, Rewritten
<1>3. CASE e \in HookEvents[h] /\ r = NoRoot
  <2>1. hits = {} /\ Ours(at[e]) = {}
    BY <1>1, <1>3, <1>b, InstallerAssumption DEF RunsFrom
  <2>2. /\ Ours(file[e]) = {Len(at[e]) + 1}
        /\ file[e][Len(at[e]) + 1] = Hook(root)
        /\ DOMAIN file[e] = 1 .. Len(at[e]) + 1
    BY <1>3, <2>1, <1>a DEF Rewritten
  <2>3. Len(at[e]) + 1 \in 1 .. Len(at[e]) + 1
    BY LenProperties DEF Files
  <2> QED
    BY <1>3, <2>2, <2>3
<1>4. CASE e \in HookEvents[h] /\ r /= NoRoot
  <2>1. r \in Sought(entry, e, known)
    BY <1>4
  <2>2. PICK i \in DOMAIN at[e] : hits = {i} /\ Ours(at[e]) = {i}
    BY <1>b, <1>4, <2>1
  <2> QED
    BY <1>4, <2>2, <1>a DEF Rewritten
<1> QED
  BY <1>2, <1>3, <1>4

\* Events whose hook can be removed have exactly one hit.
LEMMA LocatedHits ==
  ASSUME NEW at \in Files, NEW entry \in Entry, NEW e \in Located(at, entry)
  PROVE  /\ e \in Recorded(entry) /\ e \in Events
         /\ \E i \in Hits(at[e], Defs(entry, e)) : Hits(at[e], Defs(entry, e)) = {i}
<1>1. e \in Recorded(entry) /\ e \in Events /\ at[e] \in Seq(Group)
  BY DEF Located, Recorded, Files
<1> DEFINE hits == Hits(at[e], Defs(entry, e))
<1>2. hits \subseteq 1 .. Len(at[e])
  BY <1>1, HitsAreOurs, LenProperties
<1>3. IsFiniteSet(hits)
  <2>1. IsFiniteSet(1 .. Len(at[e]))
    BY <1>1, FS_Interval, LenProperties
  <2> HIDE DEF hits
  <2> QED
    BY <1>2, <2>1, FS_Subset
<1>4. Cardinality(hits) = 1
  BY DEF Located
<1>5. PICK x : hits = {x}
  BY <1>3, <1>4, FS_Singleton
<1> QED
  BY <1>1, <1>5

\* An event of the file after the removal: the one hit is gone, and what is behind
\* it moves up.
LEMMA WithoutEvent ==
  ASSUME NEW at \in Files, NEW entry \in Entry,
         NEW remove \in SUBSET Located(at, entry), NEW e \in Events
  PROVE  LET new == Without(at, entry, remove)[e]
         IN  /\ new \in Seq(Group)
             /\ e \notin remove => new = at[e]
             /\ e \in remove =>
                  \E i \in Ours(at[e]) :
                    /\ Hits(at[e], Defs(entry, e)) = {i}
                    /\ new = RemoveAt(at[e], i)
<1> DEFINE hits == Hits(at[e], Defs(entry, e))
           new == Without(at, entry, remove)[e]
<1>0. at[e] \in Seq(Group)
  BY DEF Files
<1>1. new = IF e \notin remove THEN at[e]
            ELSE RemoveAt(at[e], CHOOSE i \in hits : TRUE)
  BY DEF Without
<1>2. CASE e \notin remove
  BY <1>0, <1>1, <1>2
<1>3. CASE e \in remove
  <2>0. e \in Located(at, entry)
    BY <1>3
  <2>1. PICK i \in hits : hits = {i}
    BY <2>0, LocatedHits
  <2>2. (CHOOSE j \in hits : TRUE) = i
    BY <2>1
  <2>3. i \in Ours(at[e]) /\ i \in DOMAIN at[e]
    BY <1>0, <2>1, HitsAreOurs
  <2>4. new = RemoveAt(at[e], i)
    BY <1>1, <1>3, <2>2
  <2>5. new \in Seq(Group)
    BY <2>3, <2>4, <1>0, Removed
  <2> QED
    BY <1>3, <2>1, <2>3, <2>4, <2>5
<1> QED
  BY <1>2, <1>3

LEMMA WithoutFile ==
  ASSUME NEW at \in Files, NEW entry \in Entry,
         NEW remove \in SUBSET Located(at, entry)
  PROVE  Without(at, entry, remove) \in Files
<1> DEFINE file == Without(at, entry, remove)
<1>1. file = [e \in Events |-> file[e]]
  BY DEF Without
<1>2. \A e \in Events : file[e] \in Seq(Group)
  BY WithoutEvent
<1> QED
  BY <1>1, <1>2 DEF Files

\* A record of path r finds every hook of a file that runs Samurai from r.
LEMMA LocatedAll ==
  ASSUME NEW at \in Files, NEW h \in Harnesses, NEW r \in Roots, NEW entry \in Entry,
         RunsFrom(at, h, r), Says(entry.def, h, r)
  PROVE  /\ Recorded(entry) = HookEvents[h]
         /\ Located(at, entry) = HookEvents[h]
         /\ Missing(at, entry) = {}
         /\ \A e \in HookEvents[h] : Hits(at[e], {entry.def[e]}) /= {}
<1>0. r /= NoRoot /\ HookEvents[h] \subseteq Events /\ r \in Paths
  BY InstallerAssumption, EventsAreFinite DEF Paths
<1>1. Recorded(entry) = HookEvents[h]
  BY <1>0 DEF Says, Recorded
<1>2. ASSUME NEW e \in HookEvents[h]
      PROVE  /\ Cardinality(Hits(at[e], Defs(entry, e))) = 1
             /\ Hits(at[e], Defs(entry, e)) /= {}
             /\ Hits(at[e], {entry.def[e]}) /= {}
  <2>1. e \in Events /\ entry.def[e] = r
    BY <1>0 DEF Says
  <2>2. Defs(entry, e) \in SUBSET Roots /\ r \in Defs(entry, e)
    BY <1>1, <2>1, SoughtRoots DEF Defs
  <2>3. Cardinality(Hits(at[e], Defs(entry, e))) = 1
    BY <1>0, <2>1, <2>2, RunsHits
  <2>4. Hits(at[e], Defs(entry, e)) /= {}
    BY <2>3, FS_EmptySet
  <2>5. Cardinality(Hits(at[e], {r})) = 1
    BY <1>0, <2>1, RunsHits
  <2>7. Hits(at[e], {r}) /= {}
    BY <2>5, FS_EmptySet
  <2>6. Hits(at[e], {entry.def[e]}) /= {}
    BY <2>1, <2>7
  <2> QED
    BY <2>3, <2>4, <2>6
<1> QED
  BY <1>1, <1>2 DEF Located, Missing

\* Without its hooks a file runs nothing of Samurai.
LEMMA WithoutRuns ==
  ASSUME NEW at \in Files, NEW h \in Harnesses, NEW r \in Roots, NEW entry \in Entry,
         RunsFrom(at, h, r), Says(entry.def, h, r)
  PROVE  RunsFrom(Without(at, entry, HookEvents[h]), h, NoRoot)
<1> DEFINE file == Without(at, entry, HookEvents[h])
<1>0. r /= NoRoot /\ HookEvents[h] \in SUBSET Located(at, entry)
  BY InstallerAssumption, LocatedAll
<1> SUFFICES ASSUME NEW e \in Events PROVE Ours(file[e]) = {}
  BY DEF RunsFrom
<1>1. /\ file[e] \in Seq(Group)
      /\ e \notin HookEvents[h] => file[e] = at[e]
      /\ e \in HookEvents[h] =>
           \E i \in Ours(at[e]) :
             Hits(at[e], Defs(entry, e)) = {i} /\ file[e] = RemoveAt(at[e], i)
  BY <1>0, WithoutEvent
<1> HIDE DEF file
<1>2. CASE e \notin HookEvents[h]
  BY <1>1, <1>2 DEF RunsFrom
<1>3. CASE e \in HookEvents[h]
  <2>1. PICK i \in Ours(at[e]) : file[e] = RemoveAt(at[e], i)
    BY <1>1, <1>3
  <2>2. Ours(at[e]) = {i}
    BY <1>0, <1>3, <2>1 DEF RunsFrom
  <2>3. at[e] \in Seq(Group) /\ i \in DOMAIN at[e]
    BY <2>1 DEF Files, Ours
  <2>4. /\ DOMAIN file[e] = 1 .. Len(at[e]) - 1
        /\ \A j \in 1 .. Len(at[e]) - 1 :
             file[e][j] = IF j < i THEN at[e][j] ELSE at[e][j + 1]
    BY <2>1, <2>3, Removed
  <2>5. \A j \in 1 .. Len(at[e]) : j /= i => at[e][j] = Foreign
    BY <2>2, <2>3, LenProperties DEF Ours
  <2>6. Len(at[e]) \in Nat /\ i \in 1 .. Len(at[e])
    BY <2>3, LenProperties
  <2> QED
    BY <2>4, <2>5, <2>6 DEF Ours
<1> QED
  BY <1>2, <1>3

-----------------------------------------------------------------------------
(* The user's groups                                                         *)

Places(groups) == DOMAIN groups \ Ours(groups)
Spots(P) == {x \in Events \X (1 .. MaxGroups + 1) : x[2] \in P[x[1]]}

LEMMA SpotsAreFinite == \A P : IsFiniteSet(Spots(P))
<1> TAKE P
<1>1. IsFiniteSet(1 .. MaxGroups + 1)
  BY InstallerAssumption, FS_Interval
<1>2. IsFiniteSet(Events \X (1 .. MaxGroups + 1))
  BY <1>1, EventsAreFinite, FS_Product
<1>3. Spots(P) \in SUBSET (Events \X (1 .. MaxGroups + 1))
  BY DEF Spots
<1> QED
  BY <1>2, <1>3, FS_Subset

LEMMA ForeignSpots ==
  ASSUME NEW at
  PROVE  ForeignAt(at) = Spots([e \in Events |-> Places(at[e])])
  BY DEF ForeignAt, Spots, Places

\* Places that move, event by event and one to one, stay as many.
LEMMA MovedSpots ==
  ASSUME NEW P \in [Events -> SUBSET (1 .. MaxGroups + 1)],
         NEW Q \in [Events -> SUBSET (1 .. MaxGroups + 1)],
         NEW m, \A e \in Events : m[e] \in Bijection(P[e], Q[e])
  PROVE  Cardinality(Spots(P)) = Cardinality(Spots(Q))
<1> DEFINE move == [x \in Spots(P) |-> <<x[1], m[x[1]][x[2]]>>]
<1>0. \A e \in Events :
        /\ \A i \in P[e] : m[e][i] \in Q[e]
        /\ \A i, j \in P[e] : m[e][i] = m[e][j] => i = j
        /\ \A k \in Q[e] : \E i \in P[e] : m[e][i] = k
  BY DEF Bijection, Injection, Surjection, IsInjective
<1>1. \A x \in Spots(P) :
        /\ x[1] \in Events /\ x[2] \in P[x[1]] /\ x = <<x[1], x[2]>>
        /\ move[x] = <<x[1], m[x[1]][x[2]]>>
        /\ move[x] \in Spots(Q)
  BY <1>0 DEF Spots
<1>2. move \in [Spots(P) -> Spots(Q)]
  BY <1>1
<1>3. \A x, y \in Spots(P) : move[x] = move[y] => x = y
  <2> TAKE x \in Spots(P), y \in Spots(P)
  <2> HAVE move[x] = move[y]
  <2>1. x[1] = y[1] /\ m[x[1]][x[2]] = m[x[1]][y[2]]
    BY <1>1
  <2>2. /\ x[1] \in Events /\ x[2] \in P[x[1]] /\ y[2] \in P[x[1]]
        /\ x = <<x[1], x[2]>> /\ y = <<y[1], y[2]>>
    BY <2>1, <1>1
  <2>3. x[2] = y[2]
    BY <2>1, <2>2, <1>0
  <2> QED
    BY <2>1, <2>2, <2>3
<1>4. \A z \in Spots(Q) : \E x \in Spots(P) : move[x] = z
  <2> TAKE z \in Spots(Q)
  <2>1. z[1] \in Events /\ z[2] \in Q[z[1]] /\ z = <<z[1], z[2]>>
    BY DEF Spots
  <2>2. PICK i \in P[z[1]] : m[z[1]][i] = z[2]
    BY <2>1, <1>0
  <2>3. <<z[1], i>> \in Spots(P)
    BY <2>1, <2>2 DEF Spots
  <2>4. move[<<z[1], i>>] = z
    BY <2>1, <2>2, <2>3
  <2> QED
    BY <2>3, <2>4
<1> HIDE DEF move
<1>5. move \in Bijection(Spots(P), Spots(Q))
  BY <1>2, <1>3, <1>4 DEF Bijection, Injection, Surjection, IsInjective
<1> QED
  BY <1>5, SpotsAreFinite, FS_Bijection DEF ExistsBijection

\* What is behind a removed group moves up.
LEMMA RemovedPlaces ==
  ASSUME NEW s \in Seq(Group), NEW i \in Ours(s)
  PROVE  [j \in Places(s) |-> IF j < i THEN j ELSE j - 1]
           \in Bijection(Places(s), Places(RemoveAt(s, i)))
<1> DEFINE t == RemoveAt(s, i)
           m == [j \in Places(s) |-> IF j < i THEN j ELSE j - 1]
<1>1. i \in DOMAIN s /\ DOMAIN s = 1 .. Len(s) /\ Len(s) \in Nat
  BY LenProperties DEF Ours
<1>2. /\ DOMAIN t = 1 .. Len(s) - 1
      /\ \A j \in 1 .. Len(s) - 1 : t[j] = IF j < i THEN s[j] ELSE s[j + 1]
  BY <1>1, Removed
<1> HIDE DEF t
<1>3. Places(s) = {j \in 1 .. Len(s) : s[j] = Foreign} /\ i \notin Places(s)
  BY <1>1 DEF Places, Ours
<1>4. Places(t) = {j \in 1 .. Len(s) - 1 : t[j] = Foreign}
  BY <1>2 DEF Places, Ours
<1>5. \A j \in Places(s) : m[j] \in Places(t)
  BY <1>1, <1>2, <1>3, <1>4
<1>6. \A j, k \in Places(s) : m[j] = m[k] => j = k
  BY <1>1, <1>3
<1>7. \A k \in Places(t) : \E j \in Places(s) : m[j] = k
  <2> TAKE k \in Places(t)
  <2>1. CASE k < i
    <3>1. k \in Places(s) /\ m[k] = k
      BY <2>1, <1>1, <1>2, <1>3, <1>4
    <3> QED
      BY <3>1
  <2>2. CASE ~(k < i)
    <3>1. k + 1 \in Places(s) /\ m[k + 1] = k
      BY <2>2, <1>1, <1>2, <1>3, <1>4
    <3> QED
      BY <3>1
  <2> QED
    BY <2>1, <2>2
<1>8. m \in [Places(s) -> Places(t)]
  BY <1>5
<1> HIDE DEF m
<1>9. m \in Bijection(Places(s), Places(t))
  BY <1>8, <1>6, <1>7 DEF Bijection, Injection, Surjection, IsInjective
<1> QED
  BY <1>9 DEF m, t

LEMMA MovedForeign ==
  ASSUME NEW at \in Files, NEW new \in Files, Low(at), Low(new),
         \A e \in Events : ExistsBijection(Places(at[e]), Places(new[e]))
  PROVE  Cardinality(ForeignAt(new)) = Cardinality(ForeignAt(at))
<1> DEFINE P == [e \in Events |-> Places(at[e])]
           Q == [e \in Events |-> Places(new[e])]
           m == [e \in Events |-> CHOOSE b : b \in Bijection(P[e], Q[e])]
<1>1. \A file \in Files : Low(file) =>
        \A e \in Events : Places(file[e]) \in SUBSET (1 .. MaxGroups + 1)
  <2> TAKE file \in Files
  <2> HAVE Low(file)
  <2> TAKE e \in Events
  <2>1. DOMAIN file[e] = 1 .. Len(file[e]) /\ Len(file[e]) \in Nat
    BY LenProperties DEF Files
  <2>2. \A i \in Places(file[e]) : i \in Nat /\ 1 <= i /\ i <= MaxGroups
    BY <2>1 DEF Low, Places
  <2>3. MaxGroups \in Nat
    BY InstallerAssumption
  <2> QED
    BY <2>2, <2>3
<1>2. P \in [Events -> SUBSET (1 .. MaxGroups + 1)]
  BY <1>1
<1>3. Q \in [Events -> SUBSET (1 .. MaxGroups + 1)]
  BY <1>1
<1>4. \A e \in Events : m[e] \in Bijection(P[e], Q[e])
  BY DEF ExistsBijection
<1>5. ForeignAt(at) = Spots(P) /\ ForeignAt(new) = Spots(Q)
  BY ForeignSpots
<1> HIDE DEF P, Q, m
<1> QED
  BY <1>2, <1>3, <1>4, <1>5, MovedSpots

LEMMA SameBijection == \A S : ExistsBijection(S, S)
<1> TAKE S
<1>1. [x \in S |-> x] \in Bijection(S, S)
  BY DEF Bijection, Injection, Surjection, IsInjective
<1> QED
  BY <1>1 DEF ExistsBijection

LEMMA SameForeign ==
  ASSUME NEW at \in Files, NEW new \in Files,
         \A e \in Events : Places(new[e]) = Places(at[e])
  PROVE  ForeignAt(new) = ForeignAt(at) /\ (Low(at) => Low(new))
  BY DEF ForeignAt, Low, Places

\* Neither _apply_plan nor the removal loses a hook of the user.
LEMMA AppliedForeign ==
  ASSUME NEW at \in Files, NEW h \in Harnesses, NEW entry \in Entry,
         NEW known \in SUBSET Roots, NEW root \in Roots, Low(at)
  PROVE  /\ Low(Applied(at, h, entry, known, root))
         /\ Cardinality(ForeignAt(Applied(at, h, entry, known, root))) =
              Cardinality(ForeignAt(at))
<1> DEFINE new == Applied(at, h, entry, known, root)
<1>1. new \in Files
  BY AppliedFile
<1>2. ASSUME NEW e \in Events PROVE Places(new[e]) = Places(at[e])
  <2>1. Rewritten(new[e], at[e], e \in HookEvents[h],
                  Hits(at[e], Sought(entry, e, known)), root)
    BY AppliedEvent
  <2> QED
    BY <2>1 DEF Rewritten, Places
<1> HIDE DEF new
<1>3. ForeignAt(new) = ForeignAt(at) /\ Low(new)
  BY <1>1, <1>2, SameForeign
<1> QED
  BY <1>3 DEF new

LEMMA RemovedForeign ==
  ASSUME NEW at \in Files, NEW new \in Files, Low(at),
         \A e \in Events :
           new[e] = at[e] \/ \E i \in Ours(at[e]) : new[e] = RemoveAt(at[e], i)
  PROVE  Low(new) /\ Cardinality(ForeignAt(new)) = Cardinality(ForeignAt(at))
<1>1. ASSUME NEW e \in Events
      PROVE  /\ ExistsBijection(Places(at[e]), Places(new[e]))
             /\ \A i \in DOMAIN new[e] : i \notin Ours(new[e]) => i <= MaxGroups
  <2>0. at[e] \in Seq(Group) /\ new[e] \in Seq(Group)
    BY DEF Files
  <2>1. CASE new[e] = at[e]
    BY <2>1, SameBijection DEF Low
  <2>2. CASE \E i \in Ours(at[e]) : new[e] = RemoveAt(at[e], i)
    <3>1. PICK i \in Ours(at[e]) : new[e] = RemoveAt(at[e], i)
      BY <2>2
    <3> DEFINE m == [j \in Places(at[e]) |-> IF j < i THEN j ELSE j - 1]
    <3>2. m \in Bijection(Places(at[e]), Places(new[e]))
      BY <3>1, <2>0, RemovedPlaces
    <3>3. \A k \in Places(new[e]) : \E j \in Places(at[e]) : m[j] = k
      BY <3>2 DEF Bijection, Surjection
    <3>4. \A j \in Places(at[e]) : j \in Nat /\ j <= MaxGroups
      BY <2>0, LenProperties DEF Low, Places
    <3>5. i \in Nat
      BY <2>0, LenProperties DEF Ours
    <3>6. \A j \in Places(at[e]) : m[j] <= j
      BY <3>4, <3>5
    <3>7. \A k \in Places(new[e]) : k \in Nat
      BY <2>0, LenProperties DEF Places
    <3>8. ExistsBijection(Places(at[e]), Places(new[e]))
      BY <3>2 DEF ExistsBijection
    <3> HIDE DEF m
    <3>9. \A k \in Places(new[e]) : k <= MaxGroups
      BY <3>3, <3>4, <3>6, <3>7, InstallerAssumption
    <3> QED
      BY <3>8, <3>9 DEF Places
  <2> QED
    BY <2>1, <2>2
<1>2. Low(new)
  BY <1>1 DEF Low
<1> QED
  BY <1>1, <1>2, MovedForeign

LEMMA WithoutForeign ==
  ASSUME NEW at \in Files, NEW entry \in Entry,
         NEW remove \in SUBSET Located(at, entry), Low(at)
  PROVE  /\ Low(Without(at, entry, remove))
         /\ Cardinality(ForeignAt(Without(at, entry, remove))) =
              Cardinality(ForeignAt(at))
<1> DEFINE new == Without(at, entry, remove)
<1>1. new \in Files
  BY WithoutFile
<1>2. \A e \in Events :
        new[e] = at[e] \/ \E i \in Ours(at[e]) : new[e] = RemoveAt(at[e], i)
  BY WithoutEvent
<1> HIDE DEF new
<1>3. Low(new) /\ Cardinality(ForeignAt(new)) = Cardinality(ForeignAt(at))
  BY <1>1, <1>2, RemovedForeign
<1> QED
  BY <1>3 DEF new

\* The user deletes, edits or copies a hook of Samurai: hers stay.
TouchesOf(groups, i) ==
  {RemoveAt(groups, i), [groups EXCEPT ![i].exact = FALSE], Append(groups, groups[i])}

LEMMA TouchedForeign ==
  ASSUME NEW at \in Files, NEW e \in Events, NEW i \in Ours(at[e]),
         NEW groups \in TouchesOf(at[e], i), Low(at)
  PROVE  /\ [at EXCEPT ![e] = groups] \in Files
         /\ Low([at EXCEPT ![e] = groups])
         /\ Cardinality(ForeignAt([at EXCEPT ![e] = groups])) =
              Cardinality(ForeignAt(at))
<1> DEFINE new == [at EXCEPT ![e] = groups]
<1>0. /\ at[e] \in Seq(Group) /\ i \in DOMAIN at[e] /\ DOMAIN at[e] = 1 .. Len(at[e])
      /\ Len(at[e]) \in Nat
  BY LenProperties DEF Files, Ours
<1>1. new[e] = groups /\ \A f \in Events : f /= e => new[f] = at[f]
  BY DEF Files
<1>2. at[e][i] \in Group /\ at[e][i] /= Foreign
  BY <1>0, ElementOfSeq DEF Ours
<1>3. ASSUME groups \in Seq(Group)
      PROVE  new \in Files
  BY <1>3 DEF Files
<1>4. CASE groups = RemoveAt(at[e], i)
  <2>1. groups \in Seq(Group)
    BY <1>0, <1>4, Removed
  <2>2. \A f \in Events :
          new[f] = at[f] \/ \E j \in Ours(at[f]) : new[f] = RemoveAt(at[f], j)
    BY <1>1, <1>4
  <2>3. new \in Files
    BY <2>1, <1>3
  <2> HIDE DEF new
  <2>4. Low(new) /\ Cardinality(ForeignAt(new)) = Cardinality(ForeignAt(at))
    BY <2>2, <2>3, RemovedForeign
  <2> QED
    BY <2>3, <2>4 DEF new
<1>5. CASE groups = [at[e] EXCEPT ![i].exact = FALSE]
  <2> DEFINE g == [at[e][i] EXCEPT !.exact = FALSE]
  <2>1. g \in Group /\ g /= Foreign
    BY <1>2, InstallerAssumption DEF Group, Foreign
  <2>2. groups = [at[e] EXCEPT ![i] = g]
    BY <1>5
  <2> HIDE DEF g
  <2>3. /\ groups \in Seq(Group) /\ Len(groups) = Len(at[e])
        /\ \A j \in 1 .. Len(at[e]) : groups[j] = IF j = i THEN g ELSE at[e][j]
    BY <1>0, <2>1, <2>2, ExceptSeq
  <2>4. DOMAIN groups = DOMAIN at[e]
    BY <2>3, <1>0, LenProperties
  <2>5. Places(groups) = Places(at[e])
    BY <1>0, <1>2, <2>1, <2>3, <2>4 DEF Places, Ours
  <2>6. \A f \in Events : Places(new[f]) = Places(at[f])
    BY <1>1, <2>5
  <2>7. new \in Files
    BY <2>3, <1>3
  <2> HIDE DEF new
  <2>8. ForeignAt(new) = ForeignAt(at) /\ Low(new)
    BY <2>6, <2>7, SameForeign
  <2> QED
    BY <2>7, <2>8 DEF new
<1>6. CASE groups = Append(at[e], at[e][i])
  <2>1. /\ groups \in Seq(Group) /\ Len(groups) = Len(at[e]) + 1
        /\ \A j \in 1 .. Len(at[e]) : groups[j] = at[e][j]
        /\ groups[Len(at[e]) + 1] = at[e][i]
    BY <1>0, <1>2, <1>6, AppendProperties
  <2>2. DOMAIN groups = 1 .. Len(at[e]) + 1
    BY <2>1, LenProperties
  <2>3. Places(groups) = Places(at[e])
    BY <1>0, <1>2, <2>1, <2>2 DEF Places, Ours
  <2>4. \A f \in Events : Places(new[f]) = Places(at[f])
    BY <1>1, <2>3
  <2>5. new \in Files
    BY <2>1, <1>3
  <2> HIDE DEF new
  <2>6. ForeignAt(new) = ForeignAt(at) /\ Low(new)
    BY <2>4, <2>5, SameForeign
  <2> QED
    BY <2>5, <2>6 DEF new
<1> QED
  BY <1>4, <1>5, <1>6 DEF TouchesOf

\* The user adds a hook of her own at either end.
LEMMA AddedForeign ==
  ASSUME NEW at \in Files, NEW e \in Events, Len(at[e]) < MaxGroups,
         NEW groups \in {Append(at[e], Foreign), <<Foreign>> \o at[e]}, Low(at)
  PROVE  /\ [at EXCEPT ![e] = groups] \in Files
         /\ Low([at EXCEPT ![e] = groups])
         /\ Cardinality(ForeignAt([at EXCEPT ![e] = groups])) =
              Cardinality(ForeignAt(at)) + 1
<1> DEFINE new == [at EXCEPT ![e] = groups]
           old == at[e]
           k == IF groups = Append(old, Foreign) THEN Len(old) + 1 ELSE 1
           Q == [f \in Events |-> Places(new[f]) \ (IF f = e THEN {k} ELSE {})]
           P == [f \in Events |-> Places(at[f])]
<1>0. old \in Seq(Group) /\ DOMAIN old = 1 .. Len(old) /\ Len(old) \in Nat
  BY LenProperties DEF Files
<1>1. new[e] = groups /\ \A f \in Events : f /= e => new[f] = at[f]
  BY DEF Files
<1>2. MaxGroups \in Nat /\ Foreign \in Group
  BY InstallerAssumption, Groups
<1>3. /\ groups \in Seq(Group) /\ DOMAIN groups = 1 .. Len(old) + 1
      /\ k \in 1 .. Len(old) + 1 /\ groups[k] = Foreign
      /\ ExistsBijection(Places(old), Places(groups) \ {k})
  <2>1. CASE groups = Append(old, Foreign)
    <3>1. /\ groups \in Seq(Group) /\ Len(groups) = Len(old) + 1
          /\ \A j \in 1 .. Len(old) : groups[j] = old[j]
          /\ groups[Len(old) + 1] = Foreign
      BY <1>0, <1>2, <2>1, AppendProperties
    <3>2. DOMAIN groups = 1 .. Len(old) + 1 /\ k = Len(old) + 1
      BY <3>1, <2>1, LenProperties
    <3>3. Places(groups) \ {k} = Places(old)
      BY <1>0, <3>1, <3>2 DEF Places, Ours
    <3> HIDE DEF k, old
    <3>4. ExistsBijection(Places(old), Places(groups) \ {k})
      BY <3>3, SameBijection
    <3> QED
      BY <1>0, <3>1, <3>2, <3>4
  <2>2. CASE groups /= Append(old, Foreign)
    <3>0. groups = <<Foreign>> \o old /\ k = 1
      BY <2>2
    <3>1. <<Foreign>> \in Seq(Group) /\ Len(<<Foreign>>) = 1
      BY <1>2
    <3>2. /\ groups \in Seq(Group) /\ Len(groups) = 1 + Len(old)
          /\ \A j \in 1 .. 1 + Len(old) :
               groups[j] = IF j <= 1 THEN <<Foreign>>[j] ELSE old[j - 1]
      BY <3>0, <3>1, <1>0, ConcatProperties
    <3>3. DOMAIN groups = 1 .. Len(old) + 1 /\ groups[1] = Foreign
      BY <3>2, <1>0, LenProperties
    <3> DEFINE m == [j \in Places(old) |-> j + 1]
    <3>4. Places(old) = {j \in 1 .. Len(old) : old[j] = Foreign}
      BY <1>0 DEF Places, Ours
    <3>5. Places(groups) = {j \in 1 .. Len(old) + 1 : groups[j] = Foreign}
      BY <3>3 DEF Places, Ours
    <3> HIDE DEF k, old
    <3>6. \A j \in Places(old) : m[j] \in Places(groups) \ {1}
      BY <1>0, <3>2, <3>4, <3>5
    <3>7. \A j, i \in Places(old) : m[j] = m[i] => j = i
      BY <1>0, <3>4
    <3>8. \A j \in Places(groups) \ {1} : j - 1 \in Places(old) /\ m[j - 1] = j
      BY <1>0, <3>2, <3>4, <3>5
    <3>9. m \in [Places(old) -> Places(groups) \ {1}]
      BY <3>6
    <3> HIDE DEF m
    <3>10. m \in Bijection(Places(old), Places(groups) \ {1})
      BY <3>7, <3>8, <3>9 DEF Bijection, Injection, Surjection, IsInjective
    <3>11. ExistsBijection(Places(old), Places(groups) \ {k})
      BY <3>0, <3>10 DEF ExistsBijection
    <3> QED
      BY <3>0, <3>2, <3>3, <3>11, <1>0
  <2> QED
    BY <2>1, <2>2
<1>4. new \in Files
  BY <1>3 DEF Files
<1>5. k \in Places(groups) /\ \A i \in DOMAIN groups : i <= MaxGroups
  BY <1>0, <1>2, <1>3 DEF Places, Ours
<1>6. Low(new)
  BY <1>1, <1>5 DEF Low
<1> HIDE DEF k
<1>7. \A f \in Events : ExistsBijection(P[f], Q[f])
  <2> TAKE f \in Events
  <2>1. CASE f = e
    BY <2>1, <1>1, <1>3
  <2>2. CASE f /= e
    BY <2>2, <1>1, SameBijection
  <2> QED
    BY <2>1, <2>2
<1>8. \A file \in Files : Low(file) =>
        \A f \in Events : Places(file[f]) \in SUBSET (1 .. MaxGroups + 1)
  <2> TAKE file \in Files
  <2> HAVE Low(file)
  <2> TAKE f \in Events
  <2>1. DOMAIN file[f] = 1 .. Len(file[f]) /\ Len(file[f]) \in Nat
    BY LenProperties DEF Files
  <2>2. \A i \in Places(file[f]) : i \in Nat /\ 1 <= i /\ i <= MaxGroups
    BY <2>1 DEF Low, Places
  <2> QED
    BY <2>2, <1>2
<1>9. P \in [Events -> SUBSET (1 .. MaxGroups + 1)]
  BY <1>8
<1>10. Q \in [Events -> SUBSET (1 .. MaxGroups + 1)]
  <2> HIDE DEF new
  <2>1. \A f \in Events : Places(new[f]) \in SUBSET (1 .. MaxGroups + 1)
    BY <1>4, <1>6, <1>8
  <2> QED
    BY <2>1
<1>11. Cardinality(Spots(P)) = Cardinality(Spots(Q))
  <2> DEFINE m == [f \in Events |-> CHOOSE b : b \in Bijection(P[f], Q[f])]
  <2>1. \A f \in Events : m[f] \in Bijection(P[f], Q[f])
    BY <1>7 DEF ExistsBijection
  <2> HIDE DEF P, Q, m
  <2> QED
    BY <2>1, <1>9, <1>10, MovedSpots
<1>12. ForeignAt(at) = Spots(P)
  BY ForeignSpots
<1>13. Spots(Q) = ForeignAt(new) \ {<<e, k>>}
  BY DEF Spots, ForeignAt, Places
<1>14. <<e, k>> \in ForeignAt(new)
  BY <1>0, <1>1, <1>2, <1>3, <1>5 DEF ForeignAt, Places
<1>15. IsFiniteSet(ForeignAt(new))
  BY ForeignSpots, SpotsAreFinite
<1> HIDE DEF P, Q, new
<1>16. /\ Cardinality(ForeignAt(new)) \in Nat
       /\ Cardinality(ForeignAt(new) \ {<<e, k>>}) = Cardinality(ForeignAt(new)) - 1
  BY <1>14, <1>15, FS_RemoveElement, FS_CardinalityType
<1>17. Cardinality(ForeignAt(new)) = Cardinality(ForeignAt(at)) + 1
  BY <1>11, <1>12, <1>13, <1>16
<1> QED
  BY <1>4, <1>6, <1>17 DEF new

-----------------------------------------------------------------------------
(* Types, what a write has read, and the user's hooks                        *)

Base == Typed /\ Flow /\ HandsOff

Definitions == [Events -> Paths]
Earlier == [Events -> SUBSET Roots]
PriorOf == [def : Definitions, prev : Earlier]

LEMMA EntryTypes ==
  /\ Entry = [state : {"none", "pending", "installed", "removing"},
              def : Definitions, prev : Earlier, prior : SUBSET PriorOf]
  /\ NoEntry \in Entry /\ NoManifest \in Manifests /\ NoCommand \in Commands
<1>1. Entry = [state : {"none", "pending", "installed", "removing"},
               def : Definitions, prev : Earlier, prior : SUBSET PriorOf]
  BY DEF Entry, Definitions, Earlier, PriorOf, Paths
<1>2. NoEntry \in Entry
  BY DEF Entry, NoEntry
<1>3. NoManifest \in Manifests
  BY <1>2 DEF Manifests, NoManifest
<1>4. NoCommand \in Commands
  BY <1>2, <1>3, InstallerAssumption DEF NoCommand, Commands, WritePoints
<1> QED
  BY <1>1, <1>2, <1>3, <1>4

LEMMA RecoveredType ==
  ASSUME NEW entry \in Entry, NEW h \in Harnesses, NEW installing \in BOOLEAN
  PROVE  Recovered(entry, h, installing) \in Entry
<1> DEFINE kept == [entry EXCEPT !.state = "installed", !.prior = {}]
           p == CHOOSE q \in entry.prior : TRUE
           back == [kept EXCEPT !.def = p.def, !.prev = p.prev]
<1>1. kept \in Entry
  BY EntryTypes
<1>2. entry.prior /= {} => back \in Entry
  <2> HAVE entry.prior /= {}
  <2>1. p \in PriorOf
    BY EntryTypes
  <2>2. p.def \in Definitions /\ p.prev \in Earlier
    BY <2>1 DEF PriorOf
  <2> HIDE DEF p
  <2> QED
    BY <2>2, EntryTypes
<1>3. Recovered(entry, h, installing) \in {entry, kept, NoEntry}
        \/ (entry.prior /= {} /\ Recovered(entry, h, installing) = back)
  <2> DEFINE found == {e \in Recorded(entry) :
                         Hits(config[h].at[e], {entry.def[e]}) /= {}}
             whole == found = Recorded(entry)
             firm == entry.state \in {"none", "installed"} \/ ~config[h].ok
             answer == Recovered(entry, h, installing)
  <2>1. entry.state \in {"none", "pending", "installed", "removing"}
    BY EntryTypes
  <2>2. answer =
          CASE firm -> entry
            [] entry.state = "pending" /\ whole -> kept
            [] entry.state = "pending" /\ ~whole ->
                 IF entry.prior = {} THEN NoEntry ELSE back
            [] entry.state = "removing" /\ installing ->
                 IF whole THEN kept ELSE NoEntry
            [] entry.state = "removing" /\ ~installing ->
                 IF found = {} THEN NoEntry ELSE entry
    BY DEF Recovered
  <2>3. firm \/ entry.state \in {"pending", "removing"}
    BY <2>1
  <2>4. entry.state = "pending" => entry.state /= "removing"
    OBVIOUS
  <2> HIDE DEF found, whole, firm, kept, back, answer
  <2>5. answer \in {entry, kept, NoEntry} \/ (entry.prior /= {} /\ answer = back)
    BY <2>2, <2>3, <2>4
  <2> QED
    BY <2>5 DEF answer
<1> QED
  BY <1>1, <1>2, <1>3, EntryTypes

LEMMA RecordsType ==
  ASSUME NEW at \in Files, NEW h \in Harnesses, NEW entry \in Entry,
         NEW known \in SUBSET Roots, NEW root \in Roots,
         NEW state \in {"pending", "installed"}
  PROVE  Records(at, h, entry, known, root, state) \in Entry
<1> DEFINE def == [e \in Events |-> IF e \in HookEvents[h] THEN root ELSE NoRoot]
           found(e) == {at[e][i].root : i \in Hits(at[e], Sought(entry, e, known))}
           prev == [e \in Events |->
                      IF e \notin HookEvents[h] THEN {}
                      ELSE entry.prev[e] \union (found(e) \ {root})]
           prior == IF state = "pending" /\ entry.state /= "none"
                    THEN {[def |-> entry.def, prev |-> entry.prev]} ELSE {}
<1>1. def \in Definitions
  BY DEF Definitions, Paths
<1>2. \A e \in Events : entry.prev[e] \in SUBSET Roots /\ found(e) \in SUBSET Roots
  BY SoughtRoots DEF Hits
<1>3. prev \in Earlier
  BY <1>2 DEF Earlier
<1>4. prior \in SUBSET PriorOf
  BY EntryTypes DEF PriorOf
<1>5. Records(at, h, entry, known, root, state) =
        [state |-> state, def |-> def, prev |-> prev, prior |-> prior]
  BY DEF Records
<1> HIDE DEF def, prev, prior
<1> QED
  BY <1>1, <1>3, <1>4, <1>5, EntryTypes

LEMMA AdoptedType ==
  ASSUME Typed, NEW h \in Harnesses, NEW known \in SUBSET Roots
  PROVE  Adopted(h, known) \in Entry
<1> DEFINE def == [e \in Events |->
                     IF e \in Adoptable(h, known)
                     THEN config[h].at[e][CHOOSE i \in Hits(config[h].at[e], known) :
                                            TRUE].root
                     ELSE NoRoot]
<1>1. \A e \in Events : e \in Adoptable(h, known) =>
        config[h].at[e][CHOOSE i \in Hits(config[h].at[e], known) : TRUE].root \in Roots
  BY DEF Adoptable, Hits
<1>2. def \in Definitions
  BY <1>1 DEF Definitions, Paths
<1>3. Adopted(h, known) = IF Adoptable(h, known) = {} THEN NoEntry
                          ELSE [NoEntry EXCEPT !.state = "installed", !.def = def]
  BY DEF Adopted
<1> HIDE DEF def
<1> QED
  BY <1>2, <1>3, EntryTypes

LEMMA CommandTypes ==
  ASSUME Typed
  PROVE  /\ cmd.todo \in Seq(Harnesses) /\ cmd.root \in Roots
         /\ cmd.man \in Manifests /\ cmd.entry \in Entry
         /\ cmd.man.roots \in SUBSET Roots
         /\ Known(cmd.man, cmd.root) \in SUBSET Roots
         /\ cmd.todo /= << >> =>
              /\ Hand \in Harnesses /\ cmd.man.entries[Hand] \in Entry
              /\ config[Hand].at \in Files /\ Tail(cmd.todo) \in Seq(Harnesses)
         /\ \A h \in Harnesses :
              /\ config[h].at \in Files /\ config[h].ok \in BOOLEAN
              /\ manifest.entries[h] \in Entry /\ cmd.man.entries[h] \in Entry
<1>1. cmd.todo \in Seq(Harnesses) /\ cmd.root \in Roots /\ cmd.man \in Manifests
      /\ cmd.entry \in Entry
  BY DEF Typed, Commands
<1>2. cmd.todo /= << >> => Hand \in Harnesses /\ Tail(cmd.todo) \in Seq(Harnesses)
  BY <1>1, HeadTailProperties DEF Hand
<1>3. \A h \in Harnesses :
        /\ config[h].at \in Files /\ config[h].ok \in BOOLEAN
        /\ manifest.entries[h] \in Entry /\ cmd.man.entries[h] \in Entry
  BY <1>1 DEF Typed, Manifests
<1>4. cmd.man.roots \in SUBSET Roots
  BY <1>1 DEF Manifests
<1>5. Known(cmd.man, cmd.root) \in SUBSET Roots
  BY <1>1, <1>4, InstallerAssumption DEF Known
<1> QED
  BY <1>1, <1>2, <1>3, <1>4, <1>5

LEMMA ManifestSet ==
  ASSUME NEW man \in Manifests, NEW h \in Harnesses, NEW record \in Entry
  PROVE  [man EXCEPT !.entries[h] = record] \in Manifests
  BY DEF Manifests

\* The next harness of a command.
LEMMA GoesOnTo ==
  ASSUME NEW c \in Commands, c.todo /= << >>, NEW man \in Manifests,
         NEW h \in Harnesses, NEW ok \in BOOLEAN, GoesOn(c, man, h, ok)
  PROVE  /\ cmd' \in Commands /\ cmd'.at = "next" /\ cmd'.kind = c.kind
         /\ cmd'.root = c.root /\ cmd'.todo = Tail(c.todo) /\ cmd'.man = man
         /\ cmd'.failed = c.failed
         /\ cmd'.done = IF ok THEN c.done \union {h} ELSE c.done
<1>1. Tail(c.todo) \in Seq(Harnesses) /\ c.done \in SUBSET Harnesses
  BY HeadTailProperties DEF Commands
<1>2. cmd' = [c EXCEPT !.at = "next", !.todo = Tail(@), !.man = man,
                       !.done = IF ok THEN @ \union {h} ELSE @,
                       !.entry = NoEntry, !.remove = {}, !.raw = << >>,
                       !.again = FALSE]
  BY DEF GoesOn
<1> QED
  BY <1>1, <1>2, EntryTypes DEF Commands, WritePoints

\* A fault costs an allowance, and the calm.
LEMMA FaultTypes ==
  ASSUME Typed, left.faults > 0, left' = [left EXCEPT !.faults = @ - 1],
         user' = [user EXCEPT !.calm = FALSE]
  PROVE  /\ left' \in Allowances /\ user' \in Users
         /\ user'.hers = user.hers /\ user'.raced = user.raced
         /\ user'.touched = user.touched /\ user'.past = user.past
         /\ user'.calm = FALSE
<1>1. left \in Allowances /\ user \in Users
  BY DEF Typed
<1>2. left' \in Allowances
  BY <1>1 DEF Allowances
<1> QED
  BY <1>1, <1>2 DEF Users

LEMMA ProceedsBase ==
  ASSUME Base, NEW c \in Commands, c.kind /= "none", c.todo /= << >>,
         NEW man \in Manifests, NEW saved \in BOOLEAN, NEW h \in Harnesses,
         NEW ok \in BOOLEAN, Proceeds(c, man, saved, h, ok)
  PROVE  Base'
<1>2. GoesOn(c, man, h, ok)
  BY DEF Proceeds
<1>3. cmd' \in Commands /\ cmd'.at = "next" /\ cmd'.kind = c.kind
  <2>1. CASE ok = TRUE
    <3>1. GoesOn(c, man, h, TRUE)
      BY <1>2, <2>1
    <3> QED
      BY <3>1, GoesOnTo
  <2>2. CASE ok = FALSE
    <3>1. GoesOn(c, man, h, FALSE)
      BY <1>2, <2>2
    <3> QED
      BY <3>1, GoesOnTo
  <2> QED
    BY <2>1, <2>2
<1>4. manifest' \in Manifests
  BY DEF Proceeds, Base, Typed
<1>5. UNCHANGED <<config, user, left>>
  BY DEF Proceeds
<1>6. Typed'
  BY <1>3, <1>4, <1>5 DEF Base, Typed
<1>7. Flow'
  BY <1>3 DEF Flow, WritePoints
<1>8. HandsOff'
  BY <1>5 DEF Base, HandsOff
<1> QED
  BY <1>6, <1>7, <1>8 DEF Base

\* A command that has failed at a harness.
LEMMA Failed ==
  ASSUME Typed, NEW reason \in Failures
  PROVE  LET c == [cmd EXCEPT !.failed = @ \union {reason}]
         IN  /\ c \in Commands /\ c.kind = cmd.kind /\ c.root = cmd.root
             /\ c.todo = cmd.todo /\ c.done = cmd.done
             /\ c.failed = cmd.failed \union {reason}
  BY DEF Typed, Commands

LEMMA FailsBase ==
  ASSUME Base, cmd.kind /= "none", cmd.todo /= << >>, NEW man \in Manifests,
         NEW reason \in Failures, Fails(reason, man)
  PROVE  Base'
<1> DEFINE c == [cmd EXCEPT !.failed = @ \union {reason}]
<1>1. c \in Commands /\ c.kind = cmd.kind /\ c.todo = cmd.todo
  BY Failed DEF Base
<1>2. Head(cmd.todo) \in Harnesses
  BY CommandTypes DEF Base, Hand
<1>3. Proceeds(c, man, FALSE, Head(cmd.todo), FALSE)
  BY DEF Fails
<1> HIDE DEF c
<1> QED
  BY <1>1, <1>2, <1>3, ProceedsBase

LEMMA LosesBase ==
  ASSUME Base, cmd.kind /= "none", cmd.todo /= << >>, NEW man \in Manifests, Loses(man)
  PROVE  Base'
<1> DEFINE c == [cmd EXCEPT !.failed = @ \union {"io"}]
<1>1. c \in Commands /\ c.kind = cmd.kind /\ c.todo = cmd.todo
  BY Failed DEF Base, Failures
<1>2. Head(cmd.todo) \in Harnesses
  BY CommandTypes DEF Base, Hand
<1>3. /\ GoesOn(c, man, Head(cmd.todo), FALSE)
      /\ left.faults > 0 /\ left' = [left EXCEPT !.faults = @ - 1]
      /\ user' = [user EXCEPT !.calm = FALSE] /\ UNCHANGED <<config, manifest>>
  BY DEF Loses
<1> HIDE DEF c
<1>4. cmd' \in Commands /\ cmd'.at = "next" /\ cmd'.kind /= "none"
  BY <1>1, <1>2, <1>3, GoesOnTo
<1>5. left' \in Allowances /\ user' \in Users
      /\ user'.hers = user.hers /\ user'.raced = user.raced
  BY <1>3, FaultTypes DEF Base
<1>6. Typed'
  BY <1>3, <1>4, <1>5 DEF Base, Typed
<1>7. Flow'
  BY <1>4 DEF Flow, WritePoints
<1>8. HandsOff'
  BY <1>3, <1>5 DEF Base, HandsOff
<1> QED
  BY <1>6, <1>7, <1>8 DEF Base

LEMMA SavesBase ==
  ASSUME Base, cmd.kind /= "none", cmd.todo /= << >>, NEW man \in Manifests,
         SavesManifest(man)
  PROVE  Base'
<1>1. Head(cmd.todo) \in Harnesses /\ cmd \in Commands
  BY CommandTypes DEF Base, Hand, Typed
<1> QED
  BY <1>1, ProceedsBase, LosesBase DEF SavesManifest

LEMMA AnnouncesBase ==
  ASSUME Base, cmd.kind /= "none", cmd.todo /= << >>, NEW man \in Manifests,
         NEW entry \in Entry, NEW record \in Entry, NEW remove \in SUBSET Events,
         Announces(entry, record, remove, man)
  PROVE  Base'
<1> DEFINE announced == [man EXCEPT !.entries[Head(cmd.todo)] = record]
<1>1. announced \in Manifests
  BY CommandTypes, ManifestSet DEF Base, Hand
<1>2. CASE Loses(announced)
  BY <1>1, <1>2, LosesBase
<1>3. CASE /\ cmd' = [cmd EXCEPT !.at = "write", !.man = announced,
                                 !.entry = entry, !.remove = remove]
           /\ manifest' = announced /\ UNCHANGED <<config, user, left>>
  <2> HIDE DEF announced
  <2>1. /\ cmd' \in Commands /\ cmd'.at = "write" /\ cmd'.kind = cmd.kind
        /\ cmd'.todo = cmd.todo
    BY <1>1, <1>3 DEF Base, Typed, Commands, WritePoints
  <2>2. Typed'
    BY <1>1, <1>3, <2>1 DEF Base, Typed
  <2>3. Flow'
    BY <2>1 DEF Flow, WritePoints
  <2>4. HandsOff'
    BY <1>3 DEF Base, HandsOff
  <2> QED
    BY <2>2, <2>3, <2>4 DEF Base
<1> QED
  BY <1>2, <1>3 DEF Announces

LEMMA SelectionsAreSeqs == \A s \in Selections : s \in Seq(Harnesses)
<1> TAKE s \in Selections
<1>1. PICK n \in 0 .. Len(HarnessOrder) : s \in [1 .. n -> Harnesses]
  BY DEF Selections
<1>2. n \in Nat
  BY InstallerAssumption, LenProperties
<1> QED
  BY <1>1, <1>2, IsASeq

LEMMA StartsBase ==
  ASSUME Base, left.commands > 0,
         cmd' \in Commands, cmd'.at = "next", cmd'.kind /= "none",
         manifest' \in Manifests,
         left' = [left EXCEPT !.commands = @ - 1],
         UNCHANGED <<config, user>>
  PROVE  Base'
<1>2. left' \in Allowances
  BY DEF Base, Typed, Allowances
<1>3. Typed'
  BY <1>2 DEF Base, Typed
<1>4. Flow'
  BY DEF Flow, WritePoints
<1>5. HandsOff'
  BY DEF Base, HandsOff
<1> QED
  BY <1>3, <1>4, <1>5 DEF Base

LEMMA StartInstallBase ==
  ASSUME Base, NEW root \in Roots, NEW targets \in Selections,
         StartInstall(root, targets)
  PROVE  Base'
<1> DEFINE man == [roots |-> manifest.roots \union {root},
                   entries |-> [h \in Harnesses |->
                                  Recovered(manifest.entries[h], h, TRUE)]]
<1>1. man \in Manifests
  <2>1. \A h \in Harnesses : Recovered(manifest.entries[h], h, TRUE) \in Entry
    BY CommandTypes, RecoveredType DEF Base
  <2>2. manifest.roots \in SUBSET Roots
    BY DEF Base, Typed, Manifests
  <2> QED
    BY <2>1, <2>2 DEF Manifests
<1>2. /\ manifest' = man /\ left.commands > 0
      /\ cmd' = [NoCommand EXCEPT !.kind = "install", !.root = root, !.man = man,
                                  !.at = "next", !.todo = targets]
      /\ left' = [left EXCEPT !.commands = @ - 1]
      /\ UNCHANGED <<config, user>>
  BY DEF StartInstall
<1>3. targets \in Seq(Harnesses)
  BY SelectionsAreSeqs
<1> HIDE DEF man
<1>4. cmd' \in Commands /\ cmd'.at = "next" /\ cmd'.kind /= "none"
  BY <1>1, <1>2, <1>3, EntryTypes DEF Commands, WritePoints
<1> QED
  BY <1>1, <1>2, <1>4, StartsBase

LEMMA StartUninstallBase ==
  ASSUME Base, NEW root \in Roots, NEW force \in BOOLEAN, StartUninstall(root, force)
  PROVE  Base'
<1>1. HarnessOrder \in Seq(Harnesses) /\ manifest \in Manifests
  BY InstallerAssumption DEF Base, Typed
<1>2. cmd' \in Commands /\ cmd'.at = "next" /\ cmd'.kind /= "none"
  BY <1>1, EntryTypes DEF StartUninstall, Commands, WritePoints
<1> QED
  BY <1>1, <1>2, StartsBase DEF StartUninstall

LEMMA InstallBeginsBase ==
  ASSUME Base, InstallBegins
  PROVE  Base'
<1> DEFINE h == Head(cmd.todo)
           entry == cmd.man.entries[h]
           at == config[h].at
           known == Known(cmd.man, cmd.root)
           record(state) == Records(at, h, entry, known, cmd.root, state)
<1>0. /\ cmd.kind = "install" /\ cmd.todo /= << >>
      /\ \/ Fails("unfit", cmd.man) \/ Fails("refused", cmd.man)
         \/ SavesManifest([cmd.man EXCEPT !.entries[h] = record("installed")])
         \/ Announces(entry, record("pending"), {}, cmd.man)
  BY DEF InstallBegins
<1>1. h \in Harnesses /\ entry \in Entry /\ at \in Files /\ known \in SUBSET Roots
      /\ cmd.root \in Roots /\ cmd.man \in Manifests /\ cmd \in Commands
  BY <1>0, CommandTypes DEF Base, Hand, Typed
<1> HIDE DEF h, entry, at, known
<1>2. record("installed") \in Entry /\ record("pending") \in Entry
  BY <1>1, RecordsType
<1> HIDE DEF record
<1>3. CASE Fails("unfit", cmd.man) \/ Fails("refused", cmd.man)
  BY <1>0, <1>1, <1>3, FailsBase DEF Failures
<1>4. CASE SavesManifest([cmd.man EXCEPT !.entries[h] = record("installed")])
  <2>1. [cmd.man EXCEPT !.entries[h] = record("installed")] \in Manifests
    BY <1>1, <1>2, ManifestSet
  <2> QED
    BY <1>0, <1>4, <2>1, SavesBase
<1>5. CASE Announces(entry, record("pending"), {}, cmd.man)
  BY <1>0, <1>1, <1>2, <1>5, AnnouncesBase
<1> QED
  BY <1>0, <1>3, <1>4, <1>5

LEMMA UninstallBeginsBase ==
  ASSUME Base, UninstallBegins
  PROVE  Base'
<1> DEFINE h == Head(cmd.todo)
           known == Known(cmd.man, cmd.root)
           old == cmd.man.entries[h]
           entry == IF old.state = "none" THEN Adopted(h, known)
                    ELSE Recovered(old, h, FALSE)
           man == [cmd.man EXCEPT !.entries[h] = entry]
           gone == [cmd.man EXCEPT !.entries[h] = NoEntry]
           remove == Located(config[h].at, entry)
           record == [entry EXCEPT !.state = "removing"]
<1>0. /\ cmd.kind = "uninstall" /\ cmd.todo /= << >>
      /\ \/ Fails("refused", cmd.man)
         \/ Proceeds(cmd, cmd.man, FALSE, h, FALSE)
         \/ Proceeds(cmd, gone, FALSE, h, TRUE)
         \/ Fails("refused", man)
         \/ SavesManifest(gone)
         \/ Announces(entry, record, remove, man)
  BY DEF UninstallBegins
<1>1. h \in Harnesses /\ old \in Entry /\ known \in SUBSET Roots
      /\ cmd.man \in Manifests /\ cmd \in Commands
  BY <1>0, CommandTypes DEF Base, Hand, Typed
<1>2. entry \in Entry
  BY <1>1, RecoveredType, AdoptedType DEF Base
<1>3. remove \in SUBSET Events
  BY DEF Located, Recorded
<1> HIDE DEF h, known, old, entry
<1>4. record \in Entry
  BY <1>2, EntryTypes
<1>5. man \in Manifests /\ gone \in Manifests
  BY <1>1, <1>2, EntryTypes, ManifestSet
<1> HIDE DEF man, gone, remove, record
<1>6. CASE Fails("refused", cmd.man) \/ Fails("refused", man)
  BY <1>0, <1>1, <1>5, <1>6, FailsBase DEF Failures
<1>7. CASE \/ Proceeds(cmd, cmd.man, FALSE, h, FALSE)
           \/ Proceeds(cmd, gone, FALSE, h, TRUE)
  BY <1>0, <1>1, <1>5, <1>7, ProceedsBase
<1>8. CASE SavesManifest(gone)
  BY <1>0, <1>5, <1>8, SavesBase
<1>9. CASE Announces(entry, record, remove, man)
  BY <1>0, <1>2, <1>3, <1>4, <1>5, <1>9, AnnouncesBase
<1> QED
  BY <1>0, <1>6, <1>7, <1>8, <1>9

LEMMA ReadsFileBase ==
  ASSUME Base, ReadsFile
  PROVE  Base'
<1> DEFINE file == config[Head(cmd.todo)]
<1>0. cmd.at = "write" /\ cmd.todo /= << >> /\ cmd.kind /= "none"
      /\ cmd.man \in Manifests /\ file.at \in Files /\ cmd \in Commands
  BY CommandTypes DEF ReadsFile, Base, Flow, WritePoints, Hand, Typed
<1>1. CASE ~file.ok \/ MutateRefuses(file.at)
  BY <1>0, <1>1, FailsBase DEF ReadsFile, Failures
<1>2. CASE ~(~file.ok \/ MutateRefuses(file.at))
  <2>1. /\ cmd' = [cmd EXCEPT !.raw = file.at,
                    !.at = IF Mutated(file.at) = file.at THEN "settle" ELSE "check"]
        /\ UNCHANGED <<config, manifest, user, left>>
    BY <1>2 DEF ReadsFile
  <2>2. ~MutateRefuses(file.at) /\ Low(file.at)
    BY <1>0, <1>2, CommandTypes DEF Base, HandsOff, Hand
  <2> HIDE DEF file
  <2>3. /\ cmd' \in Commands /\ cmd'.at \in {"settle", "check"}
        /\ cmd'.raw = file.at /\ cmd'.kind = cmd.kind /\ cmd'.todo = cmd.todo
        /\ cmd'.man = cmd.man /\ cmd'.entry = cmd.entry /\ cmd'.root = cmd.root
        /\ cmd'.remove = cmd.remove /\ cmd'.force = cmd.force
    BY <1>0, <2>1 DEF Commands, WritePoints
  <2>4. Typed'
    BY <2>1, <2>3 DEF Base, Typed
  <2>5. ~MutateRefuses(cmd.raw)' /\ Low(cmd.raw)'
    BY <2>2, <2>3 DEF MutateRefuses, PlanRefuses, Reapproves, Low
  <2>6. Flow'
    BY <1>0, <2>3, <2>5 DEF Flow, WritePoints
  <2>7. HandsOff'
    BY <2>1 DEF Base, HandsOff
  <2> QED
    BY <2>4, <2>6, <2>7 DEF Base
<1> QED
  BY <1>1, <1>2

LEMMA ChecksFileBase ==
  ASSUME Base, ChecksFile
  PROVE  Base'
<1>0. cmd.at = "check" /\ cmd.todo /= << >> /\ cmd.kind /= "none"
      /\ cmd.man \in Manifests /\ cmd \in Commands /\ cmd.raw \in Files
      /\ ~MutateRefuses(cmd.raw) /\ Low(cmd.raw)
  BY CommandTypes DEF ChecksFile, Base, Flow, WritePoints, Typed
<1>1. CASE ~Unchanged /\ cmd.again
  BY <1>0, <1>1, FailsBase DEF ChecksFile, Failures
<1>2. CASE Unchanged
  <2>1. cmd' = [cmd EXCEPT !.at = "replace"] /\ UNCHANGED <<config, manifest, user, left>>
    BY <1>2 DEF ChecksFile
  <2>2. /\ cmd' \in Commands /\ cmd'.at = "replace"
        /\ cmd'.raw = cmd.raw /\ cmd'.kind = cmd.kind /\ cmd'.todo = cmd.todo
        /\ cmd'.man = cmd.man /\ cmd'.entry = cmd.entry /\ cmd'.root = cmd.root
        /\ cmd'.remove = cmd.remove /\ cmd'.force = cmd.force
    BY <1>0, <2>1 DEF Commands, WritePoints
  <2>3. Typed'
    BY <2>1, <2>2 DEF Base, Typed
  <2>4. ~MutateRefuses(cmd.raw)' /\ Low(cmd.raw)'
    BY <1>0, <2>2 DEF MutateRefuses, PlanRefuses, Reapproves, Low
  <2>5. config[Hand] = [ok |-> TRUE, at |-> cmd.raw]
    BY <1>2 DEF Unchanged, Hand
  <2>6. Flow'
    BY <1>0, <2>1, <2>2, <2>4, <2>5 DEF Flow, WritePoints, Hand
  <2>7. HandsOff'
    BY <2>1 DEF Base, HandsOff
  <2> QED
    BY <2>3, <2>6, <2>7 DEF Base
<1>3. CASE ~Unchanged /\ ~cmd.again
  <2>1. /\ cmd' = [cmd EXCEPT !.at = "write", !.again = TRUE]
        /\ UNCHANGED <<config, manifest, user, left>>
    BY <1>3 DEF ChecksFile
  <2>2. /\ cmd' \in Commands /\ cmd'.at = "write" /\ cmd'.kind = cmd.kind
        /\ cmd'.todo = cmd.todo
    BY <1>0, <2>1 DEF Commands, WritePoints
  <2>3. Typed'
    BY <2>1, <2>2 DEF Base, Typed
  <2>4. Flow'
    BY <1>0, <2>2 DEF Flow, WritePoints
  <2>5. HandsOff'
    BY <2>1 DEF Base, HandsOff
  <2> QED
    BY <2>3, <2>4, <2>5 DEF Base
<1> QED
  BY <1>1, <1>2, <1>3

\* What a write makes of the file it has read.
LEMMA MutatedFile ==
  ASSUME Base, cmd.at = "replace"
  PROVE  /\ Mutated(cmd.raw) \in Files
         /\ Low(Mutated(cmd.raw))
         /\ Cardinality(ForeignAt(Mutated(cmd.raw))) = Cardinality(ForeignAt(cmd.raw))
<1>0. /\ cmd.raw \in Files /\ cmd.todo /= << >>
      /\ ~MutateRefuses(cmd.raw) /\ Low(cmd.raw)
      /\ Hand \in Harnesses /\ cmd.entry \in Entry /\ cmd.root \in Roots
      /\ Known(cmd.man, cmd.root) \in SUBSET Roots
  BY CommandTypes DEF Base, Flow, WritePoints
<1>1. CASE cmd.kind = "install"
  <2>1. Mutated(cmd.raw) =
          Applied(cmd.raw, Hand, cmd.entry, Known(cmd.man, cmd.root), cmd.root)
    BY <1>1 DEF Mutated, Hand
  <2> QED
    BY <1>0, <2>1, AppliedFile, AppliedForeign
<1>2. CASE cmd.kind /= "install"
  <2>1. Mutated(cmd.raw) = Without(cmd.raw, cmd.entry, cmd.remove)
    BY <1>2 DEF Mutated
  <2>2. cmd.remove \in SUBSET Located(cmd.raw, cmd.entry)
    BY <1>0, <1>2 DEF MutateRefuses
  <2> QED
    BY <1>0, <2>1, <2>2, WithoutFile, WithoutForeign
<1> QED
  BY <1>1, <1>2

LEMMA ReplacesFileBase ==
  ASSUME Base, ReplacesFile
  PROVE  Base'
<1> DEFINE file == Mutated(cmd.raw)
<1>0. cmd.at = "replace" /\ cmd.todo /= << >> /\ cmd.kind /= "none"
      /\ cmd \in Commands /\ cmd.raw \in Files /\ Hand \in Harnesses
  BY CommandTypes DEF ReplacesFile, Base, Flow, WritePoints, Typed
<1>1. file \in Files /\ Low(file)
      /\ Cardinality(ForeignAt(file)) = Cardinality(ForeignAt(cmd.raw))
  BY <1>0, MutatedFile
<1>2. /\ config' = [config EXCEPT ![Hand] = [ok |-> TRUE, at |-> file]]
      /\ cmd' = [cmd EXCEPT !.at = "settle"]
      /\ UNCHANGED <<manifest, user, left>>
  BY DEF ReplacesFile, Hand
<1> HIDE DEF file
<1>3. /\ cmd' \in Commands /\ cmd'.at = "settle" /\ cmd'.kind = cmd.kind
      /\ cmd'.todo = cmd.todo /\ cmd'.raw = cmd.raw
  BY <1>0, <1>2 DEF Commands, WritePoints
<1>4. config' \in [Harnesses -> [ok : BOOLEAN, at : Files]]
  BY <1>0, <1>1, <1>2 DEF Base, Typed
<1>5. Typed'
  BY <1>2, <1>3, <1>4 DEF Base, Typed
<1>6. Flow'
  BY <1>0, <1>3 DEF Flow, WritePoints
<1>7. HandsOff'
  <2> SUFFICES ASSUME NEW h \in Harnesses
               PROVE  /\ Low(config'[h].at)
                      /\ h \notin user.raced =>
                           user.hers[h] = Cardinality(ForeignAt(config'[h].at))
    BY <1>2 DEF HandsOff, Low, ForeignAt
  <2>1. CASE h = Hand
    <3>1. config'[h].at = file
      BY <1>0, <1>2, <2>1 DEF Base, Typed
    <3>2. h \notin user.raced => config[h].at = cmd.raw
      BY <1>0, <2>1 DEF Base, Flow
    <3> QED
      BY <1>1, <3>1, <3>2 DEF Base, HandsOff
  <2>2. CASE h /= Hand
    <3>1. config'[h] = config[h]
      BY <1>2, <2>2 DEF Base, Typed
    <3> QED
      BY <3>1 DEF Base, HandsOff
  <2> QED
    BY <2>1, <2>2
<1> QED
  BY <1>5, <1>6, <1>7 DEF Base

LEMMA UpdateFailsBase ==
  ASSUME Base, UpdateFails
  PROVE  Base'
<1>1. cmd.todo /= << >> /\ cmd.kind /= "none" /\ cmd.man \in Manifests
  BY CommandTypes DEF UpdateFails, Base, Flow, WritePoints
<1> QED
  BY <1>1, LosesBase DEF UpdateFails

LEMMA SettlesBase ==
  ASSUME Base, Settles
  PROVE  Base'
<1> DEFINE h == Head(cmd.todo)
           record == IF cmd.kind = "uninstall" THEN NoEntry
                     ELSE Records(cmd.raw, h, cmd.entry, Known(cmd.man, cmd.root),
                                  cmd.root, "installed")
           man == [cmd.man EXCEPT !.entries[h] = record]
<1>0. cmd.at = "settle" /\ cmd.todo /= << >> /\ cmd.kind /= "none"
      /\ cmd \in Commands /\ cmd.raw \in Files /\ h \in Harnesses
      /\ cmd.entry \in Entry /\ cmd.root \in Roots /\ cmd.man \in Manifests
      /\ Known(cmd.man, cmd.root) \in SUBSET Roots
  BY CommandTypes DEF Settles, Base, Flow, WritePoints, Typed, Hand
<1>1. SavesManifest(man)
  BY DEF Settles
<1> HIDE DEF h
<1>2. record \in Entry
  BY <1>0, RecordsType, EntryTypes
<1> HIDE DEF record
<1>3. man \in Manifests
  BY <1>0, <1>2, ManifestSet
<1> HIDE DEF man
<1> QED
  BY <1>0, <1>1, <1>3, SavesBase

LEMMA EndsBase ==
  ASSUME Base, Ends \/ RemovesHome
  PROVE  Base'
<1>0. /\ cmd' = [cmd EXCEPT !.at = "over", !.man = NoManifest]
      /\ manifest' \in {manifest, NoManifest} /\ UNCHANGED <<config, user, left>>
  BY DEF Ends, RemovesHome
<1>1. cmd' \in Commands /\ cmd'.at = "over"
  BY <1>0, EntryTypes DEF Base, Typed, Commands, WritePoints
<1>2. manifest' \in Manifests
  BY <1>0, EntryTypes DEF Base, Typed
<1>3. Typed'
  BY <1>0, <1>1, <1>2 DEF Base, Typed
<1>4. Flow'
  BY <1>1 DEF Flow, WritePoints
<1>5. HandsOff'
  BY <1>0 DEF Base, HandsOff
<1> QED
  BY <1>3, <1>4, <1>5 DEF Base

LEMMA OverlapsBase ==
  ASSUME Base, Overlaps
  PROVE  Base'
<1>1. /\ left.commands > 0 /\ left' = [left EXCEPT !.commands = @ - 1]
      /\ UNCHANGED <<config, manifest, cmd, user>>
  BY DEF Overlaps
<1>2. left' \in Allowances
  BY <1>1 DEF Base, Typed, Allowances
<1>3. Typed'
  BY <1>1, <1>2 DEF Base, Typed
<1> QED
  BY <1>1, <1>3 DEF Base, Flow, HandsOff, Hand, Low, ForeignAt, MutateRefuses,
                    PlanRefuses, Reapproves

LEMMA CommandDiesBase ==
  ASSUME Base, CommandDies
  PROVE  Base'
<1>0. /\ cmd' = NoCommand /\ left' = [left EXCEPT !.faults = @ - 1] /\ left.faults > 0
      /\ user' = [user EXCEPT !.calm = FALSE] /\ UNCHANGED <<config, manifest>>
  BY DEF CommandDies
<1>1. cmd' \in Commands /\ cmd'.at = "over"
  BY <1>0, EntryTypes DEF NoCommand
<1>2. left' \in Allowances /\ user' \in Users
      /\ user'.hers = user.hers /\ user'.raced = user.raced
  BY <1>0, FaultTypes DEF Base
<1>3. Typed'
  BY <1>0, <1>1, <1>2 DEF Base, Typed
<1>4. Flow'
  BY <1>1 DEF Flow, WritePoints
<1>5. HandsOff'
  BY <1>0, <1>2 DEF Base, HandsOff
<1> QED
  BY <1>3, <1>4, <1>5 DEF Base

\* The user's editor replaces h's file by one that holds as many of her hooks as she
\* says.
LEMMA EditsBase ==
  ASSUME Base, NEW h \in Harnesses, NEW ok \in BOOLEAN, NEW at \in Files,
         NEW history \in Users,
         history.raced = user.raced,
         \A k \in Harnesses : k /= h => history.hers[k] = user.hers[k],
         Low(at),
         user.hers[h] = Cardinality(ForeignAt(config[h].at))
           => history.hers[h] = Cardinality(ForeignAt(at)),
         Edits(h, [ok |-> ok, at |-> at], history)
  PROVE  Base'
<1>0. /\ left.edits > 0 /\ config' = [config EXCEPT ![h] = [ok |-> ok, at |-> at]]
      /\ user' = [history EXCEPT
                    !.calm = FALSE,
                    !.raced = IF cmd.at = "replace" /\ Head(cmd.todo) = h
                              THEN @ \union {h} ELSE @]
      /\ left' = [left EXCEPT !.edits = @ - 1]
      /\ UNCHANGED <<manifest, cmd>>
  BY DEF Edits
<1>1. left' \in Allowances /\ user' \in Users
  <2>1. left \in Allowances /\ user \in Users
    BY DEF Base, Typed
  <2>2. left' \in Allowances
    BY <1>0, <2>1 DEF Allowances
  <2>3. user' \in Users
    BY <1>0 DEF Users
  <2> QED
    BY <2>2, <2>3
<1>2. /\ user'.hers = history.hers /\ user.raced \subseteq user'.raced
      /\ cmd.at = "replace" /\ Hand = h => h \in user'.raced
  BY <1>0 DEF Users, Hand
<1>3. /\ config' \in [Harnesses -> [ok : BOOLEAN, at : Files]]
      /\ config'[h] = [ok |-> ok, at |-> at]
      /\ \A k \in Harnesses : k /= h => config'[k] = config[k]
  BY <1>0 DEF Base, Typed
<1>4. Typed'
  BY <1>0, <1>1, <1>3 DEF Base, Typed
<1>5. cmd.at = "replace" /\ Hand \notin user'.raced
        => config'[Hand] = [ok |-> TRUE, at |-> cmd.raw]
  <2> HAVE cmd.at = "replace" /\ Hand \notin user'.raced
  <2>1. Hand \in Harnesses
    BY CommandTypes DEF Base, Flow, WritePoints
  <2>2. Hand /= h /\ Hand \notin user.raced
    BY <1>2
  <2> QED
    BY <2>1, <2>2, <1>3 DEF Base, Flow
<1>6. MutateRefuses(cmd.raw)' = MutateRefuses(cmd.raw) /\ Low(cmd.raw)' = Low(cmd.raw)
  BY <1>0 DEF MutateRefuses, PlanRefuses, Reapproves, Low
<1>7. Flow'
  BY <1>0, <1>5, <1>6 DEF Base, Flow, Hand
<1>8. HandsOff'
  <2> SUFFICES ASSUME NEW k \in Harnesses
               PROVE  /\ Low(config'[k].at)
                      /\ k \notin user'.raced =>
                           user'.hers[k] = Cardinality(ForeignAt(config'[k].at))
    BY DEF HandsOff, Low, ForeignAt
  <2>1. CASE k = h
    <3>1. config'[k].at = at /\ (k \notin user'.raced => k \notin user.raced)
      BY <1>2, <1>3, <2>1
    <3> QED
      BY <1>2, <2>1, <3>1 DEF Base, HandsOff
  <2>2. CASE k /= h
    BY <1>2, <1>3, <2>2 DEF Base, HandsOff
  <2> QED
    BY <2>1, <2>2
<1> QED
  BY <1>4, <1>7, <1>8 DEF Base

\* The user's three ways to change a file, each as an edit of EditsBase.
LEMMA AddsHookBase ==
  ASSUME Base, NEW h \in Harnesses, NEW e \in Events, AddsHook(h, e)
  PROVE  Base'
<1>1. PICK groups \in {Append(config[h].at[e], Foreign), <<Foreign>> \o config[h].at[e]} :
        Edits(h, [config[h] EXCEPT !.at[e] = groups], [user EXCEPT !.hers[h] = @ + 1])
  BY DEF AddsHook
<1> DEFINE at == [config[h].at EXCEPT ![e] = groups]
           history == [user EXCEPT !.hers[h] = @ + 1]
<1>2. config[h].at \in Files /\ Low(config[h].at) /\ config[h].ok \in BOOLEAN
  BY CommandTypes DEF Base, HandsOff
<1>3. Len(config[h].at[e]) < MaxGroups
  BY DEF AddsHook
<1>4. at \in Files /\ Low(at)
      /\ Cardinality(ForeignAt(at)) = Cardinality(ForeignAt(config[h].at)) + 1
  BY <1>2, <1>3, AddedForeign
<1>5. [config[h] EXCEPT !.at[e] = groups] = [ok |-> config[h].ok, at |-> at]
  BY DEF Base, Typed
<1>6. /\ history \in Users /\ history.raced = user.raced
      /\ history.hers[h] = user.hers[h] + 1
      /\ \A k \in Harnesses : k /= h => history.hers[k] = user.hers[k]
  <2>1. user \in Users /\ user.hers \in [Harnesses -> Nat]
    BY DEF Base, Typed, Users
  <2> DEFINE hers == [user.hers EXCEPT ![h] = @ + 1]
  <2>2. /\ hers \in [Harnesses -> Nat] /\ hers[h] = user.hers[h] + 1
        /\ \A k \in Harnesses : k /= h => hers[k] = user.hers[k]
    BY <2>1
  <2>3. history = [user EXCEPT !.hers = hers]
    BY <2>1 DEF Users
  <2> HIDE DEF hers, history
  <2>4. history \in Users /\ history.raced = user.raced /\ history.hers = hers
    BY <2>1, <2>2, <2>3 DEF Users
  <2> QED
    BY <2>2, <2>4
<1> HIDE DEF at, history
<1>7. Edits(h, [ok |-> config[h].ok, at |-> at], history)
  BY <1>1, <1>5 DEF history
<1> QED
  BY <1>2, <1>4, <1>6, <1>7, EditsBase

LEMMA TouchesBase ==
  ASSUME Base, NEW h \in Harnesses, NEW e \in Events, Touches(h, e)
  PROVE  Base'
<1>1. PICK i \in Ours(config[h].at[e]) :
        \E groups \in TouchesOf(config[h].at[e], i) :
          Edits(h, [config[h] EXCEPT !.at[e] = groups],
                [user EXCEPT !.touched = @ \union {h}])
  BY DEF Touches, TouchesOf
<1>2. PICK groups \in TouchesOf(config[h].at[e], i) :
        Edits(h, [config[h] EXCEPT !.at[e] = groups],
              [user EXCEPT !.touched = @ \union {h}])
  BY <1>1
<1> DEFINE at == [config[h].at EXCEPT ![e] = groups]
           history == [user EXCEPT !.touched = @ \union {h}]
<1>3. config[h].at \in Files /\ Low(config[h].at) /\ config[h].ok \in BOOLEAN
  BY CommandTypes DEF Base, HandsOff
<1>4. at \in Files /\ Low(at)
      /\ Cardinality(ForeignAt(at)) = Cardinality(ForeignAt(config[h].at))
  BY <1>3, TouchedForeign
<1>5. [config[h] EXCEPT !.at[e] = groups] = [ok |-> config[h].ok, at |-> at]
  BY DEF Base, Typed
<1>6. history \in Users /\ history.raced = user.raced /\ history.hers = user.hers
  BY DEF Base, Typed, Users
<1> HIDE DEF at, history
<1>7. Edits(h, [ok |-> config[h].ok, at |-> at], history)
  BY <1>2, <1>5 DEF history
<1> QED
  BY <1>3, <1>4, <1>6, <1>7, EditsBase

LEMMA BreaksBase ==
  ASSUME Base, NEW h \in Harnesses, Breaks(h)
  PROVE  Base'
<1> DEFINE history == [user EXCEPT !.touched = @ \union {h}]
           ok == ~config[h].ok
<1>1. config[h].at \in Files /\ Low(config[h].at) /\ ok \in BOOLEAN
  BY CommandTypes DEF Base, HandsOff
<1>2. [config[h] EXCEPT !.ok = ~@] = [ok |-> ok, at |-> config[h].at]
  BY DEF Base, Typed
<1>3. history \in Users /\ history.raced = user.raced /\ history.hers = user.hers
  BY DEF Base, Typed, Users
<1>4. Edits(h, [ok |-> ok, at |-> config[h].at], history)
  BY <1>2 DEF Breaks
<1> HIDE DEF history, ok
<1> QED
  BY <1>1, <1>3, <1>4, EditsBase

LEMMA InitBase == InstallerInit => Base
<1> SUFFICES ASSUME InstallerInit PROVE Base
  OBVIOUS
<1>1. PICK past \in Pasts :
        /\ config = [h \in Harnesses |->
             [ok |-> TRUE,
              at |-> [e \in Events |->
                        IF past = "none" \/ e \notin HookEvents[h] THEN << >>
                        ELSE <<Hook(Core)>>]]]
        /\ manifest =
             IF past /= "installed" THEN NoManifest
             ELSE [roots |-> {Core},
                   entries |-> [h \in Harnesses |->
                     [NoEntry EXCEPT
                        !.state = "installed",
                        !.def = [e \in Events |->
                          IF e \in HookEvents[h] THEN Core ELSE NoRoot]]]]
        /\ user = [past |-> past, hers |-> [h \in Harnesses |-> 0],
                   touched |-> {}, raced |-> {}, calm |-> TRUE]
  BY DEF InstallerInit
<1>2. cmd = NoCommand /\ left \in Allowances
  BY InstallerAssumption DEF InstallerInit, Allowances
<1>3. \A h \in Harnesses, e \in Events :
        config[h].at[e] = IF past = "none" \/ e \notin HookEvents[h] THEN << >>
                          ELSE <<Hook(Core)>>
  BY <1>1
<1>4. \A h \in Harnesses, e \in Events :
        /\ config[h].at[e] \in Seq(Group)
        /\ Ours(config[h].at[e]) = DOMAIN config[h].at[e]
  <2> TAKE h \in Harnesses, e \in Events
  <2>1. << >> \in Seq(Group) /\ Ours(<< >>) = DOMAIN << >>
    BY DEF Ours
  <2>2. Hook(Core) \in Group /\ Hook(Core) /= Foreign
    BY InstallerAssumption, Groups
  <2>3. <<Hook(Core)>> \in Seq(Group) /\ Ours(<<Hook(Core)>>) = DOMAIN <<Hook(Core)>>
    BY <2>2 DEF Ours
  <2> QED
    BY <1>3, <2>1, <2>3
<1>5. config \in [Harnesses -> [ok : BOOLEAN, at : Files]]
  <2>1. \A h \in Harnesses : config[h].at \in Files
    BY <1>1, <1>4 DEF Files
  <2> QED
    BY <1>1, <2>1
<1>6. manifest \in Manifests
  <2>1. CASE past /= "installed"
    BY <2>1, <1>1, EntryTypes
  <2>2. CASE past = "installed"
    <3> DEFINE record(h) == [NoEntry EXCEPT
                               !.state = "installed",
                               !.def = [e \in Events |->
                                 IF e \in HookEvents[h] THEN Core ELSE NoRoot]]
    <3>1. \A h \in Harnesses : record(h) \in Entry
      <4> TAKE h \in Harnesses
      <4>1. [e \in Events |-> IF e \in HookEvents[h] THEN Core ELSE NoRoot] \in Definitions
        BY InstallerAssumption DEF Definitions, Paths
      <4> QED
        BY <4>1, EntryTypes
    <3>2. manifest = [roots |-> {Core}, entries |-> [h \in Harnesses |-> record(h)]]
      BY <1>1, <2>2
    <3> HIDE DEF record
    <3> QED
      BY <3>1, <3>2, InstallerAssumption DEF Manifests
  <2> QED
    BY <2>1, <2>2
<1>7. user \in Users
  BY <1>1 DEF Users
<1>8. Typed
  BY <1>2, <1>5, <1>6, <1>7, EntryTypes DEF Typed
<1>9. Flow
  BY <1>2 DEF Flow, NoCommand, WritePoints
<1>10. HandsOff
  <2> SUFFICES ASSUME NEW h \in Harnesses
               PROVE  Low(config[h].at) /\ 0 = Cardinality(ForeignAt(config[h].at))
    BY <1>1 DEF HandsOff
  <2>1. ForeignAt(config[h].at) = {}
    BY <1>4 DEF ForeignAt
  <2>2. Low(config[h].at)
    BY <1>4 DEF Low
  <2> QED
    BY <2>1, <2>2, FS_EmptySet
<1> QED
  BY <1>8, <1>9, <1>10 DEF Base

LEMMA StepLocks == Locks /\ [InstallerNext]_installerVars => Locks'
  BY DEF Locks, InstallerNext, RemovesHome, Overlaps, installerVars

LEMMA StepBase == Base /\ [InstallerNext]_installerVars => Base'
<1> SUFFICES ASSUME Base, [InstallerNext]_installerVars PROVE Base'
  OBVIOUS
<1>1. CASE UNCHANGED installerVars
  BY <1>1 DEF installerVars, Base, Typed, Flow, HandsOff, Hand, Low, ForeignAt,
              MutateRefuses, PlanRefuses, Reapproves
<1>2. CASE RemovesHome \/ Overlaps
  BY <1>2, EndsBase, OverlapsBase
<1>3. CASE InstallerStep
  BY <1>3, StartInstallBase, StartUninstallBase, InstallBeginsBase, UninstallBeginsBase,
     ReadsFileBase, ChecksFileBase, ReplacesFileBase, UpdateFailsBase, SettlesBase,
     EndsBase, CommandDiesBase, AddsHookBase, TouchesBase, BreaksBase DEF InstallerStep
<1> QED
  BY <1>1, <1>2, <1>3 DEF InstallerNext

-----------------------------------------------------------------------------
(* Records that are true of a file                                           *)

LEMMA FitsGrows ==
  ASSUME NEW entry, NEW h, NEW r, NEW roots, NEW more, NEW past, roots \subseteq more,
         Fits(entry, h, r, roots, past)
  PROVE  Fits(entry, h, r, more, past)
  BY DEF Fits

LEMMA SureFits ==
  ASSUME NEW entry, NEW h, NEW r, NEW roots, NEW past, Sure(entry, h, r, roots, past)
  PROVE  Fits(entry, h, r, roots, past)
  BY DEF Fits, Sure

LEMMA FirmIsSure ==
  ASSUME NEW entry, NEW h, NEW r, NEW roots, NEW past,
         Fits(entry, h, r, roots, past), entry.state \in Firm
  PROVE  Sure(entry, h, r, roots, past)
  BY DEF Fits, Sure, Firm, NoEntry

\* _recover_entry: what an interrupted command left, seen against the file, is
\* either the truth or corrected to it; an install leaves nothing half removed.
LEMMA RecoveredIsSure ==
  ASSUME NEW entry \in Entry, NEW h \in Harnesses, NEW installing \in BOOLEAN,
         NEW r \in Paths, NEW roots \in SUBSET Roots, NEW past,
         config[h].at \in Files, config[h].ok = TRUE,
         RunsFrom(config[h].at, h, r), Fits(entry, h, r, roots, past)
  PROVE  LET answer == Recovered(entry, h, installing)
         IN  /\ Sure(answer, h, r, roots, past)
             /\ installing => answer.state \in Firm
             /\ entry.state \in Firm => answer = entry
<1> DEFINE found == {e \in Recorded(entry) :
                       Hits(config[h].at[e], {entry.def[e]}) /= {}}
           whole == found = Recorded(entry)
           kept == [entry EXCEPT !.state = "installed", !.prior = {}]
           p == CHOOSE q \in entry.prior : TRUE
           back == [kept EXCEPT !.def = p.def, !.prev = p.prev]
           answer == Recovered(entry, h, installing)
<1>1. answer = CASE entry.state \in {"none", "installed"} \/ ~config[h].ok -> entry
                 [] entry.state = "pending" /\ whole -> kept
                 [] entry.state = "pending" /\ ~whole ->
                      IF entry.prior = {} THEN NoEntry ELSE back
                 [] entry.state = "removing" /\ installing ->
                      IF whole THEN kept ELSE NoEntry
                 [] entry.state = "removing" /\ ~installing ->
                      IF found = {} THEN NoEntry ELSE entry
  BY DEF Recovered
<1>2. /\ entry.state \in {"none", "installed"} => answer = entry
      /\ entry.state = "pending" =>
           answer = IF whole THEN kept ELSE IF entry.prior = {} THEN NoEntry ELSE back
      /\ entry.state = "removing" =>
           answer = IF installing THEN (IF whole THEN kept ELSE NoEntry)
                    ELSE (IF found = {} THEN NoEntry ELSE entry)
  <2> HIDE DEF answer, whole, found, kept, back
  <2> QED
    BY <1>1
<1>3. /\ kept.def = entry.def /\ kept.state = "installed"
      /\ back.def = p.def /\ back.state = "installed"
  BY EntryTypes
<1>4. ASSUME NEW d \in {Core} \union roots, Says(entry.def, h, d)
      PROVE  /\ r = d => whole /\ found /= {}
             /\ r /= d => ~whole /\ found = {}
  <2>1. d \in Roots /\ d /= NoRoot /\ HookEvents[h] \subseteq Events /\ HookEvents[h] /= {}
    BY InstallerAssumption, EventsAreFinite
  <2>2. Recorded(entry) = HookEvents[h]
    BY <1>4, <2>1 DEF Recorded, Says
  <2>3. r = d => \A e \in HookEvents[h] : Hits(config[h].at[e], {entry.def[e]}) /= {}
    <3> SUFFICES ASSUME r = d
                 PROVE  \A e \in HookEvents[h] : Hits(config[h].at[e], {entry.def[e]}) /= {}
      OBVIOUS
    <3> DEFINE file == config[h].at
    <3>1. file \in Files /\ RunsFrom(file, h, r) /\ r \in Roots /\ Says(entry.def, h, r)
      BY <1>4, <2>1
    <3> HIDE DEF file
    <3>2. \A e \in HookEvents[h] : Hits(file[e], {entry.def[e]}) /= {}
      BY <3>1, LocatedAll
    <3> QED
      BY <3>2 DEF file
  <2>4. r /= d => \A e \in HookEvents[h] : Hits(config[h].at[e], {entry.def[e]}) = {}
    <3> SUFFICES ASSUME r /= d, NEW e \in HookEvents[h]
                 PROVE  Hits(config[h].at[e], {entry.def[e]}) = {}
      OBVIOUS
    <3>1. entry.def[e] = d /\ e \in Events
      BY <1>4, <2>1 DEF Says
    <3> DEFINE S == {d}
               file == config[h].at
    <3>2. S \in SUBSET Roots /\ r \notin S /\ file \in Files /\ RunsFrom(file, h, r)
      BY <2>1
    <3> HIDE DEF S, file
    <3>3. Hits(file[e], S) = {}
      BY <3>1, <3>2, RunsHits
    <3> QED
      BY <3>1, <3>3 DEF S, file
  <2> QED
    BY <2>1, <2>2, <2>3, <2>4
<1> HIDE DEF answer, whole, found, kept, back
<1>5. CASE entry.state \in {"none", "installed"}
  BY <1>2, <1>5, FirmIsSure DEF Firm, answer
<1>6. CASE entry.state \notin {"none", "installed"}
  <2>1. PICK d \in {Core} \union roots :
          /\ Says(entry.def, h, d)
          /\ \/ entry.state = "removing" /\ r \in {d, NoRoot}
             \/ entry.state = "pending" /\ r = d
             \/ entry.state = "pending" /\ entry.prior = {} /\ Unrecorded(r, past)
             \/ /\ entry.state = "pending"
                /\ r \in {Core} \union roots
                /\ \E q \in entry.prior : entry.prior = {q} /\ Says(q.def, h, r)
    BY <1>6 DEF Fits, NoEntry
  <2>2. (r = d => whole /\ found /= {}) /\ (r /= d => ~whole /\ found = {})
    BY <1>4, <2>1
  <2>3. NoEntry.state = "none"
    BY DEF NoEntry
  <2>4. CASE r = d
    <3>1. answer = kept \/ (answer = entry /\ entry.state = "removing" /\ ~installing)
      BY <1>2, <2>1, <2>2, <2>4
    <3> QED
      BY <3>1, <1>3, <1>6, <2>1, <2>4 DEF Sure, Firm, answer
  <2>5. CASE r /= d /\ entry.state = "removing"
    BY <1>2, <1>6, <2>1, <2>2, <2>3, <2>5 DEF Sure, Firm, Unrecorded, answer
  <2>6. CASE r /= d /\ entry.state = "pending" /\ entry.prior = {}
    BY <1>2, <1>6, <2>1, <2>2, <2>3, <2>6 DEF Sure, Firm, answer
  <2>7. CASE r /= d /\ entry.state = "pending" /\ entry.prior /= {}
    <3>1. r \in {Core} \union roots /\ Says(p.def, h, r)
      BY <2>1, <2>7
    <3>2. answer = back
      BY <1>2, <2>2, <2>7
    <3> QED
      BY <3>1, <3>2, <1>3, <1>6 DEF Sure, Firm, answer
  <2> QED
    BY <2>1, <2>4, <2>5, <2>6, <2>7
<1> QED
  BY <1>5, <1>6

\* _plan_install does not refuse a file that only Samurai wrote.
LEMMA PlanAccepts ==
  ASSUME NEW at \in Files, NEW h \in Harnesses, NEW entry \in Entry, NEW r \in Paths,
         NEW root \in Roots, NEW roots \in SUBSET Roots, NEW past, NEW known,
         known = {root, Core} \union roots,
         RunsFrom(at, h, r), Sure(entry, h, r, roots, past)
  PROVE  /\ ~PlanRefuses(at, h, entry, known)
         /\ RunsFrom(Applied(at, h, entry, known, root), h, root)
<1>0. known \in SUBSET Roots /\ Core \in Roots
  BY InstallerAssumption
<1>1. ASSUME NEW e \in HookEvents[h]
      PROVE  /\ e \in Events
             /\ Sought(entry, e, known) \in SUBSET Roots
             /\ r = NoRoot \/ r \in Sought(entry, e, known)
             /\ r = NoRoot => entry.def[e] = NoRoot
  <2>1. e \in Events
    BY EventsAreFinite
  <2>2. Sought(entry, e, known) \in SUBSET Roots
    BY <1>0, <2>1, SoughtRoots
  <2>3. CASE entry = NoEntry /\ Unrecorded(r, past)
    <3>1. entry.def[e] = NoRoot
      BY <2>1, <2>3 DEF NoEntry
    <3> QED
      BY <2>1, <2>2, <2>3, <3>1 DEF Sought, Unrecorded
  <2>4. CASE /\ entry.state \in {"installed", "removing"}
             /\ r \in {Core} \union roots /\ Says(entry.def, h, r)
    <3>1. entry.def[e] = r /\ r /= NoRoot
      BY <2>1, <2>4, <1>0, InstallerAssumption DEF Says
    <3> QED
      BY <2>1, <2>2, <3>1 DEF Sought, Defs
  <2> QED
    BY <2>3, <2>4 DEF Sure
<1>2. ASSUME NEW e \in HookEvents[h]
      PROVE  LET n == Cardinality(Hits(at[e], Sought(entry, e, known)))
             IN  n = 1 \/ (n = 0 /\ entry.def[e] = NoRoot)
  <2>1. NoRoot \notin Sought(entry, e, known)
    BY <1>1, InstallerAssumption
  <2>2. Cardinality(Hits(at[e], Sought(entry, e, known))) =
          IF r \in Sought(entry, e, known) THEN 1 ELSE 0
    <3> DEFINE S == Sought(entry, e, known)
    <3>1. e \in Events /\ S \in SUBSET Roots
      BY <1>1
    <3> HIDE DEF S
    <3>2. Cardinality(Hits(at[e], S)) = IF e \in HookEvents[h] /\ r \in S THEN 1 ELSE 0
      BY <3>1, RunsHits
    <3> QED
      BY <3>2, <1>2 DEF S
  <2> QED
    BY <1>1, <2>1, <2>2
<1>3. ~PlanRefuses(at, h, entry, known)
  BY <1>2 DEF PlanRefuses
<1>4. RunsFrom(Applied(at, h, entry, known, root), h, root)
  BY <1>0, <1>1, AppliedRuns
<1> QED
  BY <1>3, <1>4

-----------------------------------------------------------------------------
(* What the manifest records while configs are written                      *)

\* The next harness of a command, and the others.
LEMMA TodoSplits ==
  ASSUME NEW S, NEW s \in Seq(S), s /= << >>
  PROVE  /\ ToSet(s) = {Head(s)} \union ToSet(Tail(s))
         /\ IsInjective(s) => IsInjective(Tail(s)) /\ Head(s) \notin ToSet(Tail(s))
<1>1. Len(s) \in Nat /\ Len(s) > 0 /\ DOMAIN s = 1 .. Len(s) /\ Head(s) = s[1]
  BY LenProperties, EmptySeq, HeadTailProperties
<1>2. /\ Len(Tail(s)) = Len(s) - 1 /\ DOMAIN Tail(s) = 1 .. Len(s) - 1
      /\ \A i \in 1 .. Len(s) - 1 : Tail(s)[i] = s[i + 1]
  BY <1>1, HeadTailProperties, LenProperties
<1>3. \A i \in 1 .. Len(s) : i = 1 \/ (i - 1 \in 1 .. Len(s) - 1 /\ s[i] = Tail(s)[i - 1])
  BY <1>1, <1>2
<1>4. \A i \in 1 .. Len(s) - 1 : i + 1 \in 1 .. Len(s) /\ i + 1 /= 1
  BY <1>1
<1>a. /\ \A x : x \in ToSet(s) <=> \E i \in 1 .. Len(s) : x = s[i]
      /\ \A x : x \in ToSet(Tail(s)) <=> \E i \in 1 .. Len(s) - 1 : x = Tail(s)[i]
  BY <1>1, <1>2 DEF ToSet
<1>5. \A x : x \in ToSet(s) => x = Head(s) \/ x \in ToSet(Tail(s))
  <2> TAKE x
  <2> HAVE x \in ToSet(s)
  <2>1. PICK i \in 1 .. Len(s) : x = s[i]
    BY <1>a
  <2> QED
    BY <2>1, <1>1, <1>3, <1>a
<1>6. Head(s) \in ToSet(s) /\ \A x : x \in ToSet(Tail(s)) => x \in ToSet(s)
  BY <1>1, <1>2, <1>4, <1>a
<1>7. ASSUME IsInjective(s)
      PROVE  IsInjective(Tail(s)) /\ Head(s) \notin ToSet(Tail(s))
  <2>1. \A i, j \in 1 .. Len(s) : s[i] = s[j] => i = j
    BY <1>1, <1>7 DEF IsInjective
  <2>2. Head(s) \notin ToSet(Tail(s))
    BY <1>1, <1>2, <1>4, <2>1 DEF ToSet
  <2>3. \A i, j \in 1 .. Len(s) - 1 : Tail(s)[i] = Tail(s)[j] => i = j
    <3> TAKE i \in 1 .. Len(s) - 1, j \in 1 .. Len(s) - 1
    <3> HAVE Tail(s)[i] = Tail(s)[j]
    <3>1. i + 1 = j + 1
      BY <1>2, <1>4, <2>1
    <3> QED
      BY <3>1, <1>1
  <2> QED
    BY <1>2, <2>2, <2>3 DEF IsInjective
<1> QED
  BY <1>5, <1>6, <1>7

\* A command that is not over has a kind, and its copy the roots of the manifest.
LEMMA Underway ==
  ASSUME Base, Ledger, cmd.at /= "over", cmd.todo /= << >>
  PROVE  /\ cmd.kind \in {"install", "uninstall"}
         /\ Hand \in Harnesses /\ Hand \in ToSet(cmd.todo)
         /\ cmd.man \in Manifests /\ manifest \in Manifests
         /\ cmd.man.roots = manifest.roots
         /\ cmd.kind = "install" =>
              /\ Hand \notin cmd.done
              /\ \A h \in cmd.done : cmd.man.entries[h] = manifest.entries[h]
<1>1. cmd \in Commands /\ manifest \in Manifests /\ cmd.man \in Manifests
      /\ cmd.todo \in Seq(Harnesses) /\ cmd.kind \in {"install", "uninstall"}
  BY DEF Base, Typed, Commands, Flow
<1>2. Hand \in Harnesses /\ Hand \in ToSet(cmd.todo)
  BY <1>1, TodoSplits, CommandTypes DEF Hand, Base
<1> QED
  BY <1>1, <1>2 DEF Ledger, Course

\* A manifest with one record written.
Rerecords(new, man, h, record) ==
  /\ new \in Manifests /\ new.roots = man.roots /\ new.entries[h] = record
  /\ \A k \in Harnesses : k /= h => new.entries[k] = man.entries[k]
  /\ record = man.entries[h] => new = man

LEMMA Written ==
  ASSUME NEW man \in Manifests, NEW h \in Harnesses, NEW record \in Entry
  PROVE  Rerecords([man EXCEPT !.entries[h] = record], man, h, record)
<1> DEFINE new == [man EXCEPT !.entries[h] = record]
           entries == [man.entries EXCEPT ![h] = record]
<1>1. man.entries \in [Harnesses -> Entry] /\ man.roots \in SUBSET Roots
      /\ man = [roots |-> man.roots, entries |-> man.entries]
  BY DEF Manifests
<1>2. new = [roots |-> man.roots, entries |-> entries]
  BY <1>1
<1>3. /\ entries \in [Harnesses -> Entry] /\ entries[h] = record
      /\ \A k \in Harnesses : k /= h => entries[k] = man.entries[k]
      /\ record = man.entries[h] => entries = man.entries
  BY <1>1
<1> HIDE DEF entries
<1>4. new.roots = man.roots /\ new.entries = entries
  BY <1>2
<1>5. new \in Manifests
  BY <1>1, <1>2, <1>3 DEF Manifests
<1> HIDE DEF new
<1>6. record = man.entries[h] => new = man
  BY <1>1, <1>2, <1>3 DEF new
<1>7. Rerecords(new, man, h, record)
  BY <1>3, <1>4, <1>5, <1>6 DEF Rerecords
<1> QED
  BY <1>7 DEF new

\* A command that is done with a harness, or gives up on it.
LEMMA ProceedsLedger ==
  ASSUME Base, Ledger, cmd.at /= "over", cmd.todo /= << >>,
         NEW c \in Commands, c.kind = cmd.kind, c.root = cmd.root, c.todo = cmd.todo,
         c.done = cmd.done, cmd.failed \subseteq c.failed,
         NEW record \in Entry, NEW saved \in BOOLEAN, NEW ok \in BOOLEAN,
         NEW man, man = [cmd.man EXCEPT !.entries[Hand] = record],
         Proceeds(c, man, saved, Hand, ok),
         \A r \in Paths : Hand \in Clean /\ Book(Hand, r) =>
           /\ Fitting(record, Hand, r)
           /\ ok => Reported(Hand, r, manifest'.entries[Hand]),
         cmd.kind = "install" /\ ok => saved,
         cmd.kind = "install" /\ "refused" \in c.failed => Clean /= Harnesses,
         cmd.kind = "uninstall" /\ c.failed = {} => ok \/ Hand \notin Clean,
         user.calm => record.state \in Firm
                        /\ (saved \/ manifest.entries[Hand].state \in Firm)
  PROVE  Ledger'
<1>0. /\ cmd.kind \in {"install", "uninstall"}
      /\ Hand \in Harnesses /\ Hand \in ToSet(cmd.todo)
      /\ cmd.man \in Manifests /\ manifest \in Manifests
      /\ cmd.man.roots = manifest.roots
      /\ cmd.kind = "install" =>
           /\ Hand \notin cmd.done
           /\ \A h \in cmd.done : cmd.man.entries[h] = manifest.entries[h]
      /\ cmd.todo \in Seq(Harnesses) /\ cmd.done \subseteq Harnesses
  BY Underway, CommandTypes DEF Base, Typed, Commands
<1>1. /\ GoesOn(c, man, Hand, ok)
      /\ manifest' = IF saved THEN man ELSE manifest
      /\ UNCHANGED <<config, user, left>>
  BY DEF Proceeds
<1>3. /\ man \in Manifests /\ man.roots = cmd.man.roots
      /\ man.entries[Hand] = record
      /\ \A k \in Harnesses : k /= Hand => man.entries[k] = cmd.man.entries[k]
  <2>1. Rerecords(man, cmd.man, Hand, record)
    BY <1>0, Written
  <2> QED
    BY <2>1 DEF Rerecords
<1>2. /\ cmd'.at = "next" /\ cmd'.kind = cmd.kind /\ cmd'.root = cmd.root
      /\ cmd'.todo = Tail(cmd.todo) /\ cmd'.man = man /\ cmd'.failed = c.failed
      /\ cmd'.done = IF ok THEN cmd.done \union {Hand} ELSE cmd.done
  <2>1. c.todo /= << >> /\ GoesOn(c, man, Hand, ok) /\ Hand \in Harnesses
        /\ man \in Manifests
    BY <1>0, <1>1, <1>3
  <2>2. /\ cmd'.at = "next" /\ cmd'.kind = c.kind /\ cmd'.root = c.root
        /\ cmd'.todo = Tail(c.todo) /\ cmd'.man = man /\ cmd'.failed = c.failed
        /\ cmd'.done = IF ok THEN c.done \union {Hand} ELSE c.done
    <3>1. CASE ok = TRUE
      <4>1. GoesOn(c, man, Hand, TRUE)
        BY <2>1, <3>1
      <4>2. /\ cmd'.at = "next" /\ cmd'.kind = c.kind /\ cmd'.root = c.root
            /\ cmd'.todo = Tail(c.todo) /\ cmd'.man = man /\ cmd'.failed = c.failed
            /\ cmd'.done = c.done \union {Hand}
        BY <2>1, <4>1, GoesOnTo
      <4> QED
        BY <3>1, <4>2
    <3>2. CASE ok = FALSE
      <4>1. GoesOn(c, man, Hand, FALSE)
        BY <2>1, <3>2
      <4>2. /\ cmd'.at = "next" /\ cmd'.kind = c.kind /\ cmd'.root = c.root
            /\ cmd'.todo = Tail(c.todo) /\ cmd'.man = man /\ cmd'.failed = c.failed
            /\ cmd'.done = c.done
        BY <2>1, <4>1, GoesOnTo
      <4> QED
        BY <3>2, <4>2
    <3> QED
      BY <3>1, <3>2
  <2> QED
    BY <2>2
<1>4. /\ manifest'.roots = manifest.roots /\ man.roots = manifest.roots
      /\ manifest'.entries[Hand] = IF saved THEN record ELSE manifest.entries[Hand]
      /\ \A k \in Harnesses : k /= Hand =>
           manifest'.entries[k] \in {cmd.man.entries[k], manifest.entries[k]}
      /\ cmd.kind = "install" =>
           /\ \A k \in cmd'.done : man.entries[k] = manifest'.entries[k]
           /\ \A k \in cmd.done : manifest'.entries[k] = manifest.entries[k]
  BY <1>0, <1>1, <1>2, <1>3
<1>5. Clean' = Clean /\ Clean \subseteq Harnesses
  BY <1>1 DEF Clean
<1>6. /\ ToSet(cmd.todo) = {Hand} \union ToSet(Tail(cmd.todo))
      /\ IsInjective(cmd.todo) =>
           IsInjective(Tail(cmd.todo)) /\ Hand \notin ToSet(Tail(cmd.todo))
  BY <1>0, TodoSplits DEF Hand
<1>7. Books'
  <2> SUFFICES ASSUME NEW h \in Clean PROVE \E r \in Paths : Book(h, r)'
    BY <1>5 DEF Books
  <2>1. PICK r \in Paths : Book(h, r)
    BY DEF Ledger, Books
  <2>2. Writes(h, r)'
    BY <1>2 DEF Writes, WritePoints
  <2>3. /\ config'[h].ok /\ RunsFrom(config'[h].at, h, r)
        /\ Fitting(manifest.entries[h], h, r) /\ Fitting(cmd.man.entries[h], h, r)
        /\ h \in cmd.done => Reported(h, r, manifest.entries[h])
    BY <2>1, <1>1 DEF Book
  <2>4. CASE h = Hand
    <3>1. Fitting(record, h, r)
          /\ (ok => Reported(h, r, manifest'.entries[h]))
      BY <2>1, <2>4
    <3>2. h \in cmd'.done => Reported(h, r, manifest'.entries[h])
      BY <1>0, <1>2, <2>3, <2>4, <3>1 DEF Reported
    <3>3. Fitting(manifest'.entries[h], h, r)
      BY <1>4, <2>3, <2>4, <3>1
    <3>5. Fitting(cmd'.man.entries[h], h, r)
      BY <1>2, <1>3, <2>4, <3>1
    <3>6. manifest'.roots = manifest.roots /\ user' = user /\ cmd'.kind = cmd.kind
          /\ cmd'.root = cmd.root
      BY <1>1, <1>2, <1>4
    <3>7. /\ Fitting(manifest.entries[h], h, r)' /\ Fitting(cmd.man.entries[h], h, r)'
          /\ (h \in cmd.done => Reported(h, r, manifest.entries[h]))'
      BY <3>2, <3>3, <3>5, <3>6 DEF Fitting, Reported
    <3>4. Book(h, r)'
      BY <2>2, <2>3, <3>7 DEF Book
    <3> QED
      BY <3>4
  <2>5. CASE h /= Hand
    <3>1. h \in cmd'.done => Reported(h, r, manifest'.entries[h])
      BY <1>0, <1>2, <1>4, <1>5, <2>3, <2>5 DEF Reported
    <3>2. /\ man.entries[h] = cmd.man.entries[h]
          /\ manifest'.entries[h] \in {cmd.man.entries[h], manifest.entries[h]}
      BY <1>3, <1>4, <1>5, <2>5
    <3> QED
      BY <1>1, <1>2, <1>4, <2>2, <2>3, <3>1, <3>2 DEF Book, Fitting, Reported
  <2> QED
    BY <2>4, <2>5
<1>8. Course'
  <2>1. cmd.kind = "install" =>
          /\ cmd'.root \in manifest'.roots /\ IsInjective(cmd'.todo)
          /\ cmd'.done \intersect ToSet(cmd'.todo) = {}
          /\ \A h \in Clean \intersect ToSet(cmd'.todo) :
               man.entries[h].state \in Firm
    BY <1>2, <1>3, <1>4, <1>5, <1>6 DEF Ledger, Course
  <2>2. cmd.kind = "uninstall" /\ c.failed = {} =>
          Clean \subseteq cmd'.done \union ToSet(cmd'.todo)
    BY <1>2, <1>6 DEF Ledger, Course
  <2> QED
    BY <1>2, <1>4, <1>5, <2>1, <2>2 DEF Course, WritePoints
<1>9. Calm'
  <2>1. user.calm => \A h \in Harnesses :
          manifest'.entries[h].state \in Firm /\ man.entries[h].state \in Firm
    BY <1>3, <1>4 DEF Ledger, Calm
  <2> QED
    BY <1>1, <1>2, <2>1 DEF Ledger, Calm
<1> QED
  BY <1>7, <1>8, <1>9 DEF Ledger

\* A write raises OSError: the manifest on disk stays a true one.
LEMMA LosesLedger ==
  ASSUME Base, Ledger, cmd.at /= "over", cmd.todo /= << >>,
         NEW man \in Manifests, man.roots = cmd.man.roots,
         \A k \in Harnesses : k /= Hand => man.entries[k] = cmd.man.entries[k],
         Loses(man),
         \A r \in Paths :
           Hand \in Clean /\ Book(Hand, r) => Fitting(man.entries[Hand], Hand, r)
  PROVE  Ledger'
<1> DEFINE c == [cmd EXCEPT !.failed = @ \union {"io"}]
<1>0. /\ cmd.kind \in {"install", "uninstall"} /\ Hand \in Harnesses
      /\ cmd.man.roots = manifest.roots
      /\ cmd.kind = "install" =>
           /\ Hand \notin cmd.done
           /\ \A h \in cmd.done : cmd.man.entries[h] = manifest.entries[h]
      /\ cmd.todo \in Seq(Harnesses) /\ cmd.done \subseteq Harnesses
  BY Underway, CommandTypes DEF Base, Typed, Commands
<1>1. /\ c \in Commands /\ c.kind = cmd.kind /\ c.root = cmd.root
      /\ c.todo = cmd.todo /\ c.done = cmd.done
      /\ c.failed = cmd.failed \union {"io"}
  BY Failed DEF Base, Failures
<1>2. /\ GoesOn(c, man, Hand, FALSE)
      /\ left.faults > 0 /\ left' = [left EXCEPT !.faults = @ - 1]
      /\ user' = [user EXCEPT !.calm = FALSE] /\ UNCHANGED <<config, manifest>>
  BY DEF Loses, Hand
<1> HIDE DEF c
<1>3. /\ cmd'.at = "next" /\ cmd'.kind = cmd.kind /\ cmd'.root = cmd.root
      /\ cmd'.todo = Tail(cmd.todo) /\ cmd'.man = man
      /\ cmd'.failed = cmd.failed \union {"io"} /\ cmd'.done = cmd.done
  BY <1>0, <1>1, <1>2, GoesOnTo
<1>4. /\ user'.touched = user.touched /\ user'.raced = user.raced
      /\ user'.past = user.past /\ user'.calm = FALSE
  BY <1>2, FaultTypes DEF Base
<1>5. Clean' = Clean /\ Clean \subseteq Harnesses
  BY <1>4 DEF Clean
<1>6. /\ ToSet(cmd.todo) = {Hand} \union ToSet(Tail(cmd.todo))
      /\ IsInjective(cmd.todo) =>
           IsInjective(Tail(cmd.todo)) /\ Hand \notin ToSet(Tail(cmd.todo))
  BY <1>0, TodoSplits DEF Hand
<1>7. Books'
  <2> SUFFICES ASSUME NEW h \in Clean PROVE \E r \in Paths : Book(h, r)'
    BY <1>5 DEF Books
  <2>1. PICK r \in Paths : Book(h, r)
    BY DEF Ledger, Books
  <2>2. Writes(h, r)'
    BY <1>3 DEF Writes, WritePoints
  <2>3. /\ config'[h].ok /\ RunsFrom(config'[h].at, h, r)
        /\ Fitting(manifest.entries[h], h, r) /\ Fitting(cmd.man.entries[h], h, r)
        /\ h \in cmd.done => Reported(h, r, manifest.entries[h])
    BY <2>1, <1>2 DEF Book
  <2>4. Fitting(man.entries[h], h, r)
    BY <1>5, <2>1, <2>3
  <2>5. (h \in cmd.done => Reported(h, r, manifest.entries[h]))'
    BY <1>2, <1>3, <1>4, <2>3 DEF Reported
  <2>6. Fitting(manifest.entries[h], h, r)' /\ Fitting(cmd.man.entries[h], h, r)'
    BY <1>2, <1>3, <1>4, <2>3, <2>4 DEF Fitting
  <2>7. Book(h, r)'
    BY <2>2, <2>3, <2>5, <2>6 DEF Book
  <2> QED
    BY <2>7
<1>8. Course'
  <2>1. cmd.kind = "install" =>
          /\ \A h \in cmd'.done : cmd'.man.entries[h] = manifest'.entries[h]
          /\ cmd'.root \in manifest'.roots /\ IsInjective(cmd'.todo)
          /\ cmd'.done \intersect ToSet(cmd'.todo) = {}
          /\ \A h \in Clean \intersect ToSet(cmd'.todo) :
               cmd'.man.entries[h].state \in Firm
    BY <1>0, <1>2, <1>3, <1>5, <1>6 DEF Ledger, Course
  <2>2. cmd.kind = "install" /\ "refused" \in cmd'.failed => Clean /= Harnesses
    BY <1>3 DEF Ledger, Course
  <2> QED
    BY <1>0, <1>2, <1>3, <1>5, <2>1, <2>2 DEF Course, WritePoints
<1>9. Calm'
  BY <1>4 DEF Calm
<1> QED
  BY <1>7, <1>8, <1>9 DEF Ledger

\* The manifest is saved with Hand's record, and Hand is done.
LEMMA SavesLedger ==
  ASSUME Base, Ledger, cmd.at /= "over", cmd.todo /= << >>,
         NEW record \in Entry, record.state \in Firm,
         NEW man, man = [cmd.man EXCEPT !.entries[Hand] = record],
         SavesManifest(man),
         \A r \in Paths : Hand \in Clean /\ Book(Hand, r) =>
           Fitting(record, Hand, r) /\ Reported(Hand, r, record)
  PROVE  Ledger'
<1>1. cmd \in Commands /\ cmd.man \in Manifests /\ Hand \in Harnesses
  BY CommandTypes DEF Base, Typed
<1>2. Rerecords(man, cmd.man, Hand, record)
  BY <1>1, Written
<1>3. SavesManifest(man) /\ man \in Manifests /\ man.roots = cmd.man.roots
      /\ man.entries[Hand] = record
      /\ \A k \in Harnesses : k /= Hand => man.entries[k] = cmd.man.entries[k]
  BY <1>2 DEF Rerecords
<1>4. CASE Loses(man)
  BY <1>3, <1>4, LosesLedger
<1>5. CASE Proceeds(cmd, man, TRUE, Hand, TRUE)
  <2>1. manifest'.entries[Hand] = record
    BY <1>3, <1>5 DEF Proceeds
  <2>2. \A r \in Paths : Hand \in Clean /\ Book(Hand, r) =>
          /\ Fitting(record, Hand, r)
          /\ TRUE => Reported(Hand, r, manifest'.entries[Hand])
    BY <2>1
  <2>3. cmd.kind = "install" /\ "refused" \in cmd.failed => Clean /= Harnesses
    BY DEF Ledger, Course
  <2> QED
    BY <1>1, <1>5, <2>2, <2>3, ProceedsLedger
<1> QED
  BY <1>3, <1>4, <1>5 DEF SavesManifest, Hand

\* The manifest announces a write, of a file that runs Samurai from r.
Promises(entry, record, remove, r) ==
  /\ Fitting(record, Hand, r)
  /\ cmd.kind = "install" =>
       /\ record.state = "pending" /\ Says(record.def, Hand, cmd.root)
       /\ Sure(entry, Hand, r, manifest.roots, user.past) /\ entry.state \in Firm
  /\ cmd.kind = "uninstall" =>
       /\ record.state = "removing" /\ remove = HookEvents[Hand]
       /\ r \in Roots /\ Says(entry.def, Hand, r)

\* The manifest is on disk, and the write of Hand's file begins.
BeginsWrite(entry, remove, announced) ==
  /\ manifest' = announced
  /\ cmd' = [cmd EXCEPT !.at = "write", !.man = announced, !.entry = entry,
                        !.remove = remove]
  /\ UNCHANGED <<config, user, left>>

LEMMA BeginsWriteLedger ==
  ASSUME Base, Ledger, cmd.at = "next", cmd.todo /= << >>,
         NEW man \in Manifests, man.roots = cmd.man.roots,
         \A k \in Harnesses : k /= Hand => man.entries[k] = cmd.man.entries[k],
         NEW entry \in Entry, NEW record \in Entry, NEW remove \in SUBSET Events,
         BeginsWrite(entry, remove, [man EXCEPT !.entries[Hand] = record]),
         \A r \in Paths :
           Hand \in Clean /\ Book(Hand, r) => Promises(entry, record, remove, r)
  PROVE  Ledger'
<1>0. /\ cmd.kind \in {"install", "uninstall"}
      /\ Hand \in Harnesses /\ Hand \in ToSet(cmd.todo)
      /\ cmd.man \in Manifests /\ manifest \in Manifests
      /\ cmd.man.roots = manifest.roots
      /\ cmd.kind = "install" =>
           /\ Hand \notin cmd.done
           /\ \A h \in cmd.done : cmd.man.entries[h] = manifest.entries[h]
      /\ cmd.done \subseteq Harnesses
  BY Underway DEF Base, Typed, Commands
<1> DEFINE announced == [man EXCEPT !.entries[Hand] = record]
<1>1. /\ manifest' = announced
      /\ cmd' = [cmd EXCEPT !.at = "write", !.man = announced,
                            !.entry = entry, !.remove = remove]
      /\ UNCHANGED <<config, user, left>>
  BY DEF BeginsWrite
<1>2. /\ announced.roots = man.roots /\ announced.entries[Hand] = record
      /\ \A k \in Harnesses : k /= Hand => announced.entries[k] = man.entries[k]
  <2>1. Rerecords(announced, man, Hand, record)
    BY <1>0, Written
  <2> QED
    BY <2>1 DEF Rerecords
<1> HIDE DEF announced
<1>3. /\ cmd'.at = "write" /\ cmd'.kind = cmd.kind /\ cmd'.root = cmd.root
      /\ cmd'.todo = cmd.todo /\ cmd'.man = announced /\ cmd'.failed = cmd.failed
      /\ cmd'.done = cmd.done /\ cmd'.entry = entry /\ cmd'.remove = remove
  BY <1>1 DEF Base, Typed, Commands
<1>4. /\ manifest'.roots = manifest.roots /\ manifest'.entries[Hand] = record
      /\ \A k \in Harnesses : k /= Hand => manifest'.entries[k] = cmd.man.entries[k]
      /\ cmd'.man = manifest'
  BY <1>0, <1>1, <1>2, <1>3
<1>5. Clean' = Clean /\ Clean \subseteq Harnesses /\ Hand' = Hand
  BY <1>1, <1>3 DEF Clean, Hand
<1>6. Books'
  <2> SUFFICES ASSUME NEW h \in Clean PROVE \E r \in Paths : Book(h, r)'
    BY <1>5 DEF Books
  <2>1. PICK r \in Paths : Book(h, r)
    BY DEF Ledger, Books
  <2>3. /\ config'[h].ok /\ RunsFrom(config'[h].at, h, r)
        /\ Fitting(cmd.man.entries[h], h, r)
        /\ h \in cmd.done => Reported(h, r, manifest.entries[h])
    BY <2>1, <1>1 DEF Book
  <2>4. CASE h = Hand
    <3>1. Promises(entry, record, remove, r)
      BY <2>1, <2>4
    <3>2. h \in cmd'.done => Reported(h, r, manifest'.entries[h])
      BY <1>0, <1>3, <2>3, <2>4 DEF Reported
    <3>3. Writes(h, r)'
      BY <1>1, <1>3, <1>4, <1>5, <2>4, <3>1 DEF Writes, Promises, WritePoints
    <3>4. Fitting(manifest'.entries[h], h, r)
      BY <1>4, <2>4, <3>1 DEF Promises
    <3> QED
      BY <1>1, <1>3, <1>4, <2>3, <3>2, <3>3, <3>4 DEF Book, Fitting, Reported
  <2>5. CASE h /= Hand
    <3>1. h \in cmd'.done => Reported(h, r, manifest'.entries[h])
      BY <1>0, <1>3, <1>4, <1>5, <2>3, <2>5 DEF Reported
    <3>2. Writes(h, r)'
      BY <1>5, <2>5 DEF Writes
    <3>3. Fitting(manifest'.entries[h], h, r)
      BY <1>4, <1>5, <2>3, <2>5
    <3> QED
      BY <1>1, <1>3, <1>4, <2>3, <3>1, <3>2, <3>3 DEF Book, Fitting, Reported
  <2> QED
    BY <2>4, <2>5
<1>7. Course'
  <2>1. cmd.kind = "install" =>
          \A h \in Clean \intersect ToSet(cmd.todo) :
            cmd'.man.entries[h].state \in Firm \/ Hand = h
    BY <1>0, <1>4, <1>5 DEF Ledger, Course, WritePoints
  <2> QED
    BY <1>3, <1>4, <1>5, <2>1 DEF Ledger, Course, WritePoints
<1>8. Calm'
  <2>1. user.calm => \A h \in Harnesses : h /= Hand =>
          manifest'.entries[h].state \in Firm /\ cmd'.man.entries[h].state \in Firm
    BY <1>4 DEF Ledger, Calm
  <2> QED
    BY <1>1, <1>3, <1>5, <2>1 DEF Ledger, Calm, WritePoints
<1> QED
  BY <1>6, <1>7, <1>8 DEF Ledger

LEMMA AnnouncesLedger ==
  ASSUME Base, Ledger, cmd.at = "next", cmd.todo /= << >>,
         NEW man \in Manifests, man.roots = cmd.man.roots,
         \A k \in Harnesses : k /= Hand => man.entries[k] = cmd.man.entries[k],
         NEW entry \in Entry, NEW record \in Entry, NEW remove \in SUBSET Events,
         Announces(entry, record, remove, man),
         \A r \in Paths :
           Hand \in Clean /\ Book(Hand, r) => Promises(entry, record, remove, r)
  PROVE  Ledger'
<1> DEFINE announced == [man EXCEPT !.entries[Hand] = record]
<1>1. Loses(announced) \/ BeginsWrite(entry, remove, announced)
  BY DEF Announces, BeginsWrite, Hand
<1>2. CASE Loses(announced)
  <2>1. Hand \in Harnesses
    BY CommandTypes DEF Base
  <2>2. Rerecords(announced, man, Hand, record)
    BY <2>1, Written
  <2> HIDE DEF announced
  <2>3. \A r \in Paths : Hand \in Clean /\ Book(Hand, r) => Fitting(record, Hand, r)
    BY DEF Promises
  <2> QED
    BY <1>2, <2>2, <2>3, LosesLedger DEF Rerecords
<1>3. CASE BeginsWrite(entry, remove, announced)
  BY <1>3, BeginsWriteLedger
<1> QED
  BY <1>1, <1>2, <1>3
-----------------------------------------------------------------------------
(* The steps of a write                                                      *)

\* A write that moves on without a change to a file or the manifest.
Advances(at, raw, again) ==
  /\ cmd' = [cmd EXCEPT !.at = at, !.raw = raw, !.again = again]
  /\ UNCHANGED <<config, manifest, user, left>>

LEMMA TickLedger ==
  ASSUME Base, Ledger, cmd.at \in WritePoints \ {"settle"},
         NEW at \in WritePoints, NEW raw, NEW again,
         Advances(at, raw, again),
         \A r \in Paths : Hand \in Clean /\ Book(Hand, r) /\ at = "settle" =>
           r = IF cmd.kind = "install" THEN cmd.root ELSE NoRoot,
         user.calm /\ at \in {"check", "replace"} => config[Hand].at = raw
  PROVE  Ledger'
<1>0. UNCHANGED <<config, manifest, user, left>>
  BY DEF Advances
<1>1. /\ cmd'.at = at /\ cmd'.raw = raw /\ cmd'.kind = cmd.kind /\ cmd'.root = cmd.root
      /\ cmd'.todo = cmd.todo /\ cmd'.man = cmd.man /\ cmd'.entry = cmd.entry
      /\ cmd'.remove = cmd.remove /\ cmd'.done = cmd.done /\ cmd'.failed = cmd.failed
  BY DEF Advances, Base, Typed, Commands
<1>2. Hand' = Hand /\ Clean' = Clean
  BY <1>0, <1>1 DEF Hand, Clean
<1>3. cmd.at /= "over" /\ at /= "over" /\ cmd.at /= "settle" /\ cmd.at \in WritePoints
  BY DEF WritePoints
<1>4. Books'
  <2> SUFFICES ASSUME NEW h \in Clean PROVE \E r \in Paths : Book(h, r)'
    BY <1>2 DEF Books
  <2>1. PICK r \in Paths : Book(h, r)
    BY DEF Ledger, Books
  <2>2. Writes(h, r)'
    <3>1. at = "settle" /\ Hand = h =>
            r = IF cmd.kind = "install" THEN cmd.root ELSE NoRoot
      BY <2>1
    <3>2. Writes(h, r)
      BY <2>1 DEF Book
    <3> QED
      BY <1>0, <1>1, <1>2, <1>3, <3>1, <3>2 DEF Writes
  <2>3. Book(h, r)'
    BY <1>0, <1>1, <1>3, <2>1, <2>2 DEF Book, Fitting, Reported
  <2> QED
    BY <2>3
<1>5. Course'
  BY <1>0, <1>1, <1>2, <1>3 DEF Ledger, Course
<1>6. Calm'
  BY <1>0, <1>1, <1>2, <1>3 DEF Ledger, Calm
<1> QED
  BY <1>4, <1>5, <1>6 DEF Ledger

\* A harness given up on keeps its record.
LEMMA FailsLedger ==
  ASSUME Base, Ledger, cmd.at /= "over", cmd.todo /= << >>,
         NEW reason \in Failures, Fails(reason, cmd.man),
         cmd.kind = "install" /\ reason = "refused" => Hand \notin Clean,
         user.calm /\ cmd.at \in WritePoints => Hand \notin Clean
  PROVE  Ledger'
<1> DEFINE c == [cmd EXCEPT !.failed = @ \union {reason}]
           record == cmd.man.entries[Hand]
           man == [cmd.man EXCEPT !.entries[Hand] = record]
<1>1. /\ c \in Commands /\ c.kind = cmd.kind /\ c.root = cmd.root /\ c.todo = cmd.todo
      /\ c.done = cmd.done /\ c.failed = cmd.failed \union {reason}
  BY Failed DEF Base
<1>2. Hand \in Harnesses /\ record \in Entry /\ cmd.man \in Manifests
  BY CommandTypes DEF Base
<1>3. man = cmd.man
  <2> HIDE DEF record
  <2>1. Rerecords(man, cmd.man, Hand, record)
    BY <1>2, Written
  <2> QED
    BY <2>1 DEF Rerecords, record
<1>4. Proceeds(c, man, FALSE, Hand, FALSE)
  BY <1>3 DEF Fails, Hand
<1> HIDE DEF c
<1>5. \A r \in Paths : Hand \in Clean /\ Book(Hand, r) => Fitting(record, Hand, r)
  BY DEF Book
<1>6. cmd.kind = "install" /\ "refused" \in c.failed => Clean /= Harnesses
  BY <1>1, <1>2 DEF Ledger, Course
<1>7. c.failed /= {} /\ cmd.failed \subseteq c.failed
  BY <1>1
<1>8. user.calm => Clean = Harnesses
  BY DEF Ledger, Calm, Clean
<1>9. user.calm => record.state \in Firm /\ manifest.entries[Hand].state \in Firm
  BY <1>2, <1>8 DEF Ledger, Calm
<1>10. FALSE \in BOOLEAN /\ (FALSE => Reported(Hand, NoRoot, NoEntry))
  OBVIOUS
<1> HIDE DEF record, man
<1>11. man = [cmd.man EXCEPT !.entries[Hand] = record]
  BY DEF man
<1>12. cmd.kind = "install" /\ FALSE => FALSE
  OBVIOUS
<1>13. \A r \in Paths : Hand \in Clean /\ Book(Hand, r) =>
         /\ Fitting(record, Hand, r)
         /\ FALSE => Reported(Hand, r, manifest'.entries[Hand])
  BY <1>5
<1>14. cmd.kind = "uninstall" /\ c.failed = {} => FALSE \/ Hand \notin Clean
  BY <1>7
<1>15. user.calm => record.state \in Firm
                      /\ (FALSE \/ manifest.entries[Hand].state \in Firm)
  BY <1>9
<1> QED
  BY <1>1, <1>2, <1>4, <1>6, <1>7, <1>10, <1>11, <1>12, <1>13, <1>14, <1>15, ProceedsLedger

\* What a write finds in a file that only Samurai wrote.
LEMMA WriteFinds ==
  ASSUME Base, Ledger, cmd.at \in WritePoints \ {"settle"}, Hand \in Clean,
         NEW r \in Paths, Book(Hand, r), NEW at \in Files, RunsFrom(at, Hand, r)
  PROVE  /\ cmd.kind = "install" => ~MutateRefuses(at)
         /\ cmd.kind = "uninstall" => cmd.remove \subseteq Located(at, cmd.entry)
         /\ RunsFrom(Mutated(at), Hand, IF cmd.kind = "install" THEN cmd.root ELSE NoRoot)
<1>0. cmd.at \in WritePoints /\ cmd.at /= "settle" /\ cmd.at /= "over" /\ cmd.todo /= << >>
  BY DEF WritePoints, Base, Flow
<1>1. /\ cmd.kind \in {"install", "uninstall"} /\ Hand \in Harnesses
      /\ cmd.entry \in Entry /\ cmd.root \in Roots /\ manifest.roots \in SUBSET Roots
      /\ Known(cmd.man, cmd.root) = {cmd.root, Core} \union manifest.roots
  BY <1>0, Underway, CommandTypes DEF Base, Known, Manifests
<1>2. Writes(Hand, r)
  BY DEF Book
<1>3. CASE cmd.kind = "install"
  <2>1. Sure(cmd.entry, Hand, r, manifest.roots, user.past)
    BY <1>0, <1>2, <1>3 DEF Writes
  <2> DEFINE known == Known(cmd.man, cmd.root)
  <2>2. known = {cmd.root, Core} \union manifest.roots
    BY <1>1
  <2> HIDE DEF known
  <2>3. /\ ~PlanRefuses(at, Hand, cmd.entry, known)
        /\ RunsFrom(Applied(at, Hand, cmd.entry, known, cmd.root), Hand, cmd.root)
    BY <1>1, <2>1, <2>2, PlanAccepts
  <2> QED
    BY <1>3, <2>3 DEF MutateRefuses, Mutated, known, Hand
<1>4. CASE cmd.kind = "uninstall"
  <2>1. r \in Roots /\ Says(cmd.entry.def, Hand, r) /\ cmd.remove = HookEvents[Hand]
    BY <1>0, <1>2, <1>4 DEF Writes
  <2>2. Located(at, cmd.entry) = HookEvents[Hand]
    BY <1>1, <2>1, LocatedAll
  <2>3. RunsFrom(Without(at, cmd.entry, HookEvents[Hand]), Hand, NoRoot)
    BY <1>1, <2>1, WithoutRuns
  <2> QED
    BY <1>4, <2>1, <2>2, <2>3 DEF Mutated
<1> QED
  BY <1>1, <1>3, <1>4

\* Where nobody but Samurai wrote, a hook is the last of its event: nothing shifts.
LEMMA NothingShifts ==
  ASSUME NEW at \in Files, NEW h \in Harnesses, NEW r \in Roots, NEW entry \in Entry,
         RunsFrom(at, h, r), Says(entry.def, h, r),
         \A e \in Events : Ours(at[e]) = DOMAIN at[e]
  PROVE  ~Reapproves(at, h, entry, HookEvents[h])
<1> SUFFICES ASSUME NEW e \in HookEvents[h]
             PROVE  Len(at[e]) \in Hits(at[e], Defs(entry, e))
  BY DEF Reapproves
<1>1. e \in Events /\ e \in Located(at, entry)
  BY EventsAreFinite, LocatedAll
<1>2. PICK i \in Hits(at[e], Defs(entry, e)) : Hits(at[e], Defs(entry, e)) = {i}
  BY <1>1, LocatedHits
<1>3. r /= NoRoot
  BY InstallerAssumption
<1>4. PICK j \in DOMAIN at[e] : Ours(at[e]) = {j}
  BY <1>1, <1>3 DEF RunsFrom
<1>5. at[e] \in Seq(Group) /\ DOMAIN at[e] = 1 .. Len(at[e]) /\ Len(at[e]) \in Nat
  BY <1>1, LenProperties DEF Files
<1>6. i = j
  <2>1. i \in Ours(at[e])
    BY <1>2, <1>5, HitsAreOurs
  <2> QED
    BY <2>1, <1>4
<1>7. DOMAIN at[e] = {j}
  BY <1>1, <1>4
<1>8. Len(at[e]) = j
  <2>1. Len(at[e]) \in 1 .. Len(at[e])
    BY <1>4, <1>5
  <2> QED
    BY <2>1, <1>5, <1>7
<1> QED
  BY <1>2, <1>6, <1>8
\* What holds of Hand while a command works on it.
LEMMA HandFacts ==
  ASSUME Base, Ledger, cmd.at \in WritePoints
  PROVE  /\ cmd.at /= "over" /\ cmd.todo /= << >> /\ Hand \in Harnesses
         /\ config[Hand] = [ok |-> config[Hand].ok, at |-> config[Hand].at]
         /\ config[Hand].at \in Files /\ config[Hand].ok \in BOOLEAN
         /\ user.calm => Clean = Harnesses
         /\ Hand \in Clean => \E r \in Paths : Book(Hand, r)
  BY CommandTypes DEF Base, Typed, Flow, WritePoints, Ledger, Books, Calm, Clean

LEMMA ReadsFileLedger ==
  ASSUME Base, Ledger, ReadsFile
  PROVE  Ledger'
<1> DEFINE file == config[Hand].at
<1>0. /\ cmd.at = "write" /\ cmd.at \in WritePoints \ {"settle"} /\ cmd.at \in WritePoints
      /\ IF ~config[Hand].ok \/ MutateRefuses(file) THEN Fails("refused", cmd.man)
         ELSE /\ cmd' = [cmd EXCEPT !.raw = file,
                           !.at = IF Mutated(file) = file THEN "settle" ELSE "check"]
              /\ UNCHANGED <<config, manifest, user, left>>
  BY DEF ReadsFile, Hand, WritePoints
<1>1. /\ cmd.at /= "over" /\ cmd.todo /= << >> /\ Hand \in Harnesses
      /\ file \in Files /\ config[Hand].ok \in BOOLEAN
      /\ user.calm => Clean = Harnesses
      /\ Hand \in Clean => \E r \in Paths : Book(Hand, r)
  BY <1>0, HandFacts
<1>2. ASSUME NEW r \in Paths, Hand \in Clean, Book(Hand, r)
      PROVE  /\ config[Hand].ok /\ RunsFrom(file, Hand, r)
             /\ cmd.kind = "install" => ~MutateRefuses(file)
             /\ cmd.kind = "uninstall" => cmd.remove \subseteq Located(file, cmd.entry)
             /\ RunsFrom(Mutated(file), Hand,
                         IF cmd.kind = "install" THEN cmd.root ELSE NoRoot)
  <2>1. config[Hand].ok /\ RunsFrom(file, Hand, r)
    BY <1>2 DEF Book
  <2> HIDE DEF file
  <2> QED
    BY <2>1, <1>0, <1>1, <1>2, WriteFinds
<1>3. ASSUME user.calm PROVE config[Hand].ok /\ ~MutateRefuses(file)
  <2>1. PICK r \in Paths : Book(Hand, r)
    BY <1>1, <1>3
  <2>2. CASE cmd.kind = "install"
    BY <1>1, <1>2, <1>3, <2>1, <2>2
  <2>3. CASE cmd.kind /= "install"
    <3>1. cmd.kind = "uninstall"
      BY <2>3, <1>1, Underway
    <3>2. r \in Roots /\ Says(cmd.entry.def, Hand, r) /\ cmd.remove = HookEvents[Hand]
      BY <1>0, <2>1, <3>1 DEF Book, Writes
    <3>3. \A e \in Events : Ours(file[e]) = DOMAIN file[e]
      BY <1>1, <1>3 DEF Ledger, Calm
    <3>4. cmd.entry \in Entry /\ config[Hand].ok /\ RunsFrom(file, Hand, r)
          /\ cmd.remove \subseteq Located(file, cmd.entry)
      BY <1>1, <1>2, <1>3, <2>1, <3>1, CommandTypes DEF Base
    <3> HIDE DEF file
    <3>5. ~Reapproves(file, Hand, cmd.entry, HookEvents[Hand])
      BY <1>1, <3>2, <3>3, <3>4, NothingShifts
    <3> QED
      BY <2>3, <3>2, <3>4, <3>5 DEF MutateRefuses, Hand
  <2> QED
    BY <2>2, <2>3
<1>4. CASE ~config[Hand].ok \/ MutateRefuses(file)
  <2>1. Fails("refused", cmd.man)
    BY <1>0, <1>4
  <2>2. cmd.kind = "install" => Hand \notin Clean
    BY <1>1, <1>2, <1>4
  <2> QED
    BY <1>1, <1>3, <1>4, <2>1, <2>2, FailsLedger DEF Failures
<1>5. CASE ~(~config[Hand].ok \/ MutateRefuses(file))
  <2> DEFINE at == IF Mutated(file) = file THEN "settle" ELSE "check"
  <2>1. /\ cmd' = [cmd EXCEPT !.raw = file, !.at = at]
        /\ UNCHANGED <<config, manifest, user, left>>
    BY <1>0, <1>5
  <2>2. cmd' = [cmd EXCEPT !.at = at, !.raw = file, !.again = cmd.again]
    BY <2>1 DEF Base, Typed, Commands
  <2>3. at \in WritePoints
    BY DEF WritePoints
  <2>4. \A r \in Paths : Hand \in Clean /\ Book(Hand, r) /\ at = "settle" =>
          r = IF cmd.kind = "install" THEN cmd.root ELSE NoRoot
    <3> TAKE r \in Paths
    <3> HAVE Hand \in Clean /\ Book(Hand, r) /\ at = "settle"
    <3> DEFINE q == IF cmd.kind = "install" THEN cmd.root ELSE NoRoot
    <3>1. RunsFrom(file, Hand, r) /\ RunsFrom(Mutated(file), Hand, q)
      BY <1>2
    <3>2. Mutated(file) = file
      OBVIOUS
    <3>3. q \in Paths
      BY CommandTypes DEF Paths, Base
    <3> HIDE DEF q, file
    <3>4. r = q
      BY <1>1, <3>1, <3>2, <3>3, RunsFromOne
    <3> QED
      BY <3>4 DEF q
  <2>5. user.calm /\ at \in {"check", "replace"} => config[Hand].at = file
    OBVIOUS
  <2> DEFINE again == cmd.again
  <2>6. Advances(at, file, again)
    BY <2>1, <2>2 DEF Advances
  <2> HIDE DEF at, file, again
  <2>7. cmd.at \in WritePoints \ {"settle"}
    BY <1>0
  <2> QED
    BY <2>3, <2>4, <2>5, <2>6, <2>7, TickLedger
<1> QED
  BY <1>4, <1>5

LEMMA ChecksFileLedger ==
  ASSUME Base, Ledger, ChecksFile
  PROVE  Ledger'
<1>0. /\ cmd.at = "check" /\ cmd.at \in WritePoints \ {"settle"} /\ cmd.at \in WritePoints
      /\ IF ~Unchanged /\ cmd.again THEN Fails("busy", cmd.man)
         ELSE /\ cmd' = IF Unchanged THEN [cmd EXCEPT !.at = "replace"]
                        ELSE [cmd EXCEPT !.at = "write", !.again = TRUE]
              /\ UNCHANGED <<config, manifest, user, left>>
  BY DEF ChecksFile, WritePoints
<1>1. /\ cmd.at /= "over" /\ cmd.todo /= << >> /\ Hand \in Harnesses
      /\ config[Hand] = [ok |-> config[Hand].ok, at |-> config[Hand].at]
      /\ config[Hand].ok \in BOOLEAN
      /\ user.calm => Clean = Harnesses
      /\ Hand \in Clean => \E r \in Paths : Book(Hand, r)
  BY <1>0, HandFacts
<1>2. user.calm => Unchanged
  <2> HAVE user.calm
  <2>1. config[Hand].ok
    BY <1>1 DEF Book
  <2>2. config[Hand].at = cmd.raw
    BY <1>0 DEF Ledger, Calm
  <2> QED
    BY <1>1, <2>1, <2>2 DEF Unchanged, Hand
<1>3. CASE ~Unchanged /\ cmd.again
  <2>1. Fails("busy", cmd.man) /\ ~user.calm
    BY <1>0, <1>2, <1>3
  <2> QED
    BY <1>1, <2>1, FailsLedger DEF Failures
<1>4. CASE ~(~Unchanged /\ cmd.again)
  <2> DEFINE at == IF Unchanged THEN "replace" ELSE "write"
             again == IF Unchanged THEN cmd.again ELSE TRUE
  <2>1. Advances(at, cmd.raw, again)
    BY <1>0, <1>4 DEF Advances, Base, Typed, Commands
  <2>2. at \in WritePoints /\ at /= "settle"
    BY DEF WritePoints
  <2>3. user.calm => config[Hand].at = cmd.raw
    BY <1>0 DEF Ledger, Calm
  <2> HIDE DEF at, again
  <2> QED
    BY <1>0, <2>1, <2>2, <2>3, TickLedger
<1> QED
  BY <1>3, <1>4

\* The file is replaced: it now runs Samurai from the path of the install, or not.
LEMMA ReplacesFileLedger ==
  ASSUME Base, Ledger, ReplacesFile
  PROVE  Ledger'
<1> DEFINE file == Mutated(cmd.raw)
           goal == IF cmd.kind = "install" THEN cmd.root ELSE NoRoot
<1>0. /\ cmd.at = "replace" /\ cmd.at \in WritePoints /\ cmd.at \in WritePoints \ {"settle"}
      /\ config' = [config EXCEPT ![Hand] = [ok |-> TRUE, at |-> file]]
      /\ cmd' = [cmd EXCEPT !.at = "settle"]
      /\ UNCHANGED <<manifest, user, left>>
  BY DEF ReplacesFile, Hand, WritePoints
<1>1. /\ cmd.at /= "over" /\ cmd.todo /= << >> /\ Hand \in Harnesses
      /\ user.calm => Clean = Harnesses
      /\ Hand \in Clean => \E r \in Paths : Book(Hand, r)
      /\ cmd.raw \in Files /\ cmd.man = manifest
  BY <1>0, HandFacts DEF Base, Flow, Ledger, Course
<1>2. /\ cmd.kind \in {"install", "uninstall"} /\ goal \in Paths
      /\ cmd.kind = "install" => Hand \notin cmd.done /\ cmd.root \in manifest.roots
  BY <1>1, Underway, CommandTypes DEF Base, Paths, Ledger, Course
<1>3. /\ cmd'.at = "settle" /\ cmd'.kind = cmd.kind /\ cmd'.root = cmd.root
      /\ cmd'.todo = cmd.todo /\ cmd'.man = cmd.man /\ cmd'.entry = cmd.entry
      /\ cmd'.remove = cmd.remove /\ cmd'.done = cmd.done /\ cmd'.failed = cmd.failed
  BY <1>0 DEF Base, Typed, Commands
<1>4. Hand' = Hand /\ Clean' = Clean /\ Clean \subseteq Harnesses
  BY <1>0, <1>3 DEF Hand, Clean
<1>5. ASSUME NEW r \in Paths, Hand \in Clean, Book(Hand, r)
      PROVE  /\ cmd.raw = config[Hand].at /\ RunsFrom(cmd.raw, Hand, r)
             /\ RunsFrom(file, Hand, goal)
  <2>1. cmd.raw = config[Hand].at
    BY <1>0, <1>5 DEF Clean, Base, Flow
  <2>2. RunsFrom(cmd.raw, Hand, r)
    BY <1>5, <2>1 DEF Book
  <2> QED
    BY <1>0, <1>1, <1>5, <2>1, <2>2, WriteFinds
<1> HIDE DEF file, goal
<1>a. "settle" \in WritePoints
  BY DEF WritePoints
<1>6. /\ config'[Hand] = [ok |-> TRUE, at |-> file]
      /\ \A k \in Harnesses : k /= Hand => config'[k] = config[k]
  BY <1>0, <1>1 DEF Base, Typed
<1>7. Books'
  <2> SUFFICES ASSUME NEW h \in Clean PROVE \E r \in Paths : Book(h, r)'
    BY <1>4 DEF Books
  <2>1. PICK r \in Paths : Book(h, r)
    BY DEF Ledger, Books
  <2>0. PICK q \in Paths : q = goal
    BY <1>2
  <2>2. CASE h = Hand
    <3>1. config'[h].ok /\ RunsFrom(config'[h].at, h, q)
      BY <1>5, <1>6, <2>0, <2>1, <2>2
    <3>2. Writes(h, r) /\ Fitting(manifest.entries[h], h, r)
      BY <2>1 DEF Book
    <3>3. Fitting(manifest.entries[h], h, q)
      <4>1. CASE cmd.kind = "install"
        <5>1. manifest.entries[h].state = "pending"
              /\ Says(manifest.entries[h].def, h, cmd.root)
          BY <1>0, <2>2, <3>2, <4>1 DEF Writes
        <5>2. q = cmd.root
          BY <2>0, <4>1 DEF goal
        <5> QED
          BY <1>2, <4>1, <5>1, <5>2 DEF Fitting, Fits
      <4>2. CASE cmd.kind = "uninstall"
        <5>1. manifest.entries[h].state = "removing"
          BY <1>0, <2>2, <3>2, <4>2 DEF Writes
        <5>2. PICK d \in {Core} \union manifest.roots : Says(manifest.entries[h].def, h, d)
          BY <3>2, <5>1 DEF Fitting, Fits, NoEntry
        <5>3. q = NoRoot
          BY <2>0, <4>2 DEF goal
        <5> QED
          BY <4>2, <5>1, <5>2, <5>3 DEF Fitting, Fits
      <4> QED
        BY <1>2, <4>1, <4>2
    <3>4. Writes(h, q)'
      <4>1. cmd.kind = "install" => manifest.entries[h].state = "pending"
                                      /\ Says(manifest.entries[h].def, h, cmd.root)
        BY <1>0, <2>2, <3>2 DEF Writes
      <4>2. cmd.kind = "uninstall" => manifest.entries[h].state = "removing"
                                        /\ cmd.remove = HookEvents[h]
        BY <1>0, <2>2, <3>2 DEF Writes
      <4> QED
        BY <1>0, <1>3, <2>0, <4>1, <4>2 DEF Writes, goal
    <3>5. h \in cmd.done => Reported(h, q, manifest.entries[h])
      BY <1>2, <2>0, <2>2 DEF Reported, goal
    <3>6. Book(h, q)'
      BY <1>0, <1>1, <1>3, <3>1, <3>3, <3>4, <3>5 DEF Book, Fitting, Reported
    <3> QED
      BY <3>6
  <2>3. CASE h /= Hand
    <3>1. Writes(h, r)'
      BY <1>4, <2>3 DEF Writes
    <3>2. config'[h] = config[h]
      BY <1>4, <1>6, <2>3
    <3>3. Book(h, r)'
      BY <1>0, <1>1, <1>3, <2>1, <3>1, <3>2 DEF Book, Fitting, Reported
    <3> QED
      BY <3>3
  <2> QED
    BY <2>2, <2>3
<1>8. Course'
  BY <1>0, <1>1, <1>3, <1>4, <1>a DEF Ledger, Course
<1>9. user.calm => \A h \in Harnesses, e \in Events :
                     Ours(config'[h].at[e]) = DOMAIN config'[h].at[e]
  <2> SUFFICES ASSUME user.calm, NEW h \in Harnesses, NEW e \in Events
               PROVE  Ours(config'[h].at[e]) = DOMAIN config'[h].at[e]
    OBVIOUS
  <2>1. CASE h /= Hand
    BY <1>6, <2>1 DEF Ledger, Calm
  <2>2. CASE h = Hand
    <3>1. PICK r \in Paths : Book(Hand, r)
      BY <1>1
    <3>2. Places(cmd.raw[e]) = {}
      BY <1>1, <1>5, <3>1 DEF Ledger, Calm, Places
    <3>3. Places(file[e]) = {}
      <4>1. CASE cmd.kind = "install"
        <5> DEFINE known == Known(cmd.man, cmd.root)
        <5>1. Hand \in Harnesses /\ cmd.entry \in Entry /\ known \in SUBSET Roots
              /\ cmd.root \in Roots
          BY <1>1, CommandTypes DEF Base
        <5>2. file = Applied(cmd.raw, Hand, cmd.entry, known, cmd.root)
          BY <4>1 DEF file, Mutated, Hand
        <5> HIDE DEF known
        <5>3. Rewritten(file[e], cmd.raw[e], e \in HookEvents[Hand],
                        Hits(cmd.raw[e], Sought(cmd.entry, e, known)), cmd.root)
          BY <1>1, <5>1, <5>2, AppliedEvent
        <5> QED
          BY <3>2, <5>3 DEF Rewritten, Places
      <4>2. CASE cmd.kind /= "install"
        <5>1. cmd.entry \in Entry /\ cmd.remove \in SUBSET Located(cmd.raw, cmd.entry)
          BY <1>0, <1>1, <4>2, CommandTypes DEF Base, Flow, MutateRefuses
        <5>2. file = Without(cmd.raw, cmd.entry, cmd.remove)
          BY <4>2 DEF file, Mutated
        <5>3. \/ file[e] = cmd.raw[e]
              \/ \E i \in Ours(cmd.raw[e]) : file[e] = RemoveAt(cmd.raw[e], i)
          BY <1>1, <5>1, <5>2, WithoutEvent
        <5>4. CASE file[e] = cmd.raw[e]
          BY <3>2, <5>4
        <5>5. CASE \E i \in Ours(cmd.raw[e]) : file[e] = RemoveAt(cmd.raw[e], i)
          <6>1. PICK i \in Ours(cmd.raw[e]) : file[e] = RemoveAt(cmd.raw[e], i)
            BY <5>5
          <6> DEFINE s == cmd.raw[e]
                     m == [j \in Places(s) |-> IF j < i THEN j ELSE j - 1]
          <6>2. s \in Seq(Group)
            BY <1>1 DEF Files
          <6>3. m \in Bijection(Places(s), Places(file[e]))
            BY <6>1, <6>2, RemovedPlaces
          <6> QED
            BY <3>2, <6>3 DEF Bijection, Surjection
        <5> QED
          BY <5>3, <5>4, <5>5
      <4> QED
        BY <4>1, <4>2
    <3>4. config'[h].at = file
      BY <1>6, <2>2
    <3> QED
      BY <3>3, <3>4 DEF Places, Ours
  <2> QED
    BY <2>1, <2>2
<1>10. Calm'
  BY <1>0, <1>3, <1>4, <1>9, <1>a DEF Ledger, Calm
<1> QED
  BY <1>7, <1>8, <1>10 DEF Ledger

LEMMA UpdateFailsLedger ==
  ASSUME Base, Ledger, UpdateFails
  PROVE  Ledger'
<1>1. cmd.at \in WritePoints /\ Loses(cmd.man)
  BY DEF UpdateFails, WritePoints
<1>2. cmd.at /= "over" /\ cmd.todo /= << >> /\ cmd.man \in Manifests
  BY <1>1, HandFacts, CommandTypes DEF Base
<1>3. \A r \in Paths : Hand \in Clean /\ Book(Hand, r) =>
        Fitting(cmd.man.entries[Hand], Hand, r)
  BY <1>2 DEF Book
<1> QED
  BY <1>1, <1>2, <1>3, LosesLedger

LEMMA SettlesLedger ==
  ASSUME Base, Ledger, Settles
  PROVE  Ledger'
<1> DEFINE known == Known(cmd.man, cmd.root)
           new == Records(cmd.raw, Hand, cmd.entry, known, cmd.root, "installed")
           record == IF cmd.kind = "uninstall" THEN NoEntry ELSE new
           man == [cmd.man EXCEPT !.entries[Hand] = record]
<1>0. /\ cmd.at = "settle" /\ cmd.at \in WritePoints
      /\ SavesManifest(man)
  BY DEF Settles, Hand, WritePoints
<1>1. /\ cmd.at /= "over" /\ cmd.todo /= << >> /\ Hand \in Harnesses
      /\ cmd \in Commands /\ cmd.raw \in Files /\ cmd.entry \in Entry
      /\ cmd.root \in Roots /\ known \in SUBSET Roots
      /\ cmd.kind \in {"install", "uninstall"} /\ cmd.man \in Manifests
      /\ cmd.kind = "install" => cmd.root \in manifest.roots
  BY <1>0, HandFacts, Underway, CommandTypes DEF Base, Typed, Flow, Ledger, Course
<1> HIDE DEF known
<1>2. new \in Entry /\ new.state = "installed" /\ Says(new.def, Hand, cmd.root)
  <2>1. "installed" \in {"pending", "installed"}
    OBVIOUS
  <2>2. new \in Entry
    BY <1>1, <2>1, RecordsType
  <2>3. new.state = "installed" /\ Says(new.def, Hand, cmd.root)
    BY DEF Records, Says
  <2> QED
    BY <2>2, <2>3
<1>3. NoEntry \in Entry /\ NoEntry.state = "none"
  BY EntryTypes DEF NoEntry
<1> HIDE DEF new
<1>4. /\ record \in Entry /\ record.state \in Firm
      /\ cmd.kind = "install" =>
           record.state = "installed" /\ Says(record.def, Hand, cmd.root)
      /\ cmd.kind = "uninstall" => record = NoEntry
  BY <1>2, <1>3 DEF Firm
<1> HIDE DEF record
<1>7. ASSUME NEW r \in Paths, Hand \in Clean, Book(Hand, r)
      PROVE  Fitting(record, Hand, r) /\ Reported(Hand, r, record)
  <2>1. /\ cmd.kind = "install" => r = cmd.root
        /\ cmd.kind = "uninstall" => r = NoRoot
    BY <1>0, <1>7 DEF Book, Writes
  <2>2. Fitting(record, Hand, r)
    BY <1>1, <1>4, <2>1 DEF Fitting, Fits, Unrecorded
  <2>3. Reported(Hand, r, record)
    BY <1>1, <1>4, <2>1 DEF Reported
  <2> QED
    BY <2>2, <2>3
<1>8. man = [cmd.man EXCEPT !.entries[Hand] = record]
  OBVIOUS
<1> HIDE DEF man
<1> QED
  BY <1>0, <1>1, <1>4, <1>7, <1>8, SavesLedger
-----------------------------------------------------------------------------
(* What a command makes of the next harness                                  *)

LEMMA InstallBeginsLedger ==
  ASSUME Base, Ledger, InstallBegins
  PROVE  Ledger'
<1> DEFINE entry == cmd.man.entries[Hand]
           at == config[Hand].at
           known == Known(cmd.man, cmd.root)
           root == cmd.root
           pending == Records(at, Hand, entry, known, root, "pending")
           done == Records(at, Hand, entry, known, root, "installed")
           man == [cmd.man EXCEPT !.entries[Hand] = done]
<1>0. /\ cmd.kind = "install" /\ cmd.at = "next" /\ cmd.at /= "over"
      /\ cmd.todo /= << >> /\ cmd.at \notin WritePoints
      /\ \/ Fails("unfit", cmd.man)
         \/ IF ~config[Hand].ok \/ PlanRefuses(at, Hand, entry, known)
            THEN Fails("refused", cmd.man)
            ELSE IF Applied(at, Hand, entry, known, root) = at
            THEN SavesManifest(man)
            ELSE Announces(entry, pending, {}, cmd.man)
  BY DEF InstallBegins, Hand, WritePoints
<1>1. /\ Hand \in Harnesses /\ entry \in Entry /\ at \in Files /\ known \in SUBSET Roots
      /\ root \in Roots /\ cmd.man \in Manifests /\ cmd \in Commands
      /\ cmd.man.roots = manifest.roots /\ manifest.roots \in SUBSET Roots
      /\ known = {root, Core} \union manifest.roots
      /\ root \in manifest.roots /\ Hand \in ToSet(cmd.todo)
  BY <1>0, Underway, CommandTypes DEF Base, Typed, Known, Manifests, Ledger, Course
<1>2. \A r \in Paths : Hand \in Clean /\ Book(Hand, r) =>
        /\ config[Hand].ok /\ RunsFrom(at, Hand, r)
        /\ Sure(entry, Hand, r, manifest.roots, user.past) /\ entry.state \in Firm
  <2> TAKE r \in Paths
  <2> HAVE Hand \in Clean /\ Book(Hand, r)
  <2>1. entry.state \in Firm
    BY <1>0, <1>1 DEF Ledger, Course
  <2>2. Fits(entry, Hand, r, manifest.roots, user.past)
    BY <1>0 DEF Book, Fitting
  <2>3. config[Hand].ok /\ RunsFrom(at, Hand, r)
    BY DEF Book
  <2> HIDE DEF entry, at
  <2> QED
    BY <2>1, <2>2, <2>3, FirmIsSure
<1>3. Hand \in Clean => \E r \in Paths : Book(Hand, r)
  BY DEF Ledger, Books
<1> HIDE DEF at, entry, known, root
<1>4. ASSUME NEW r \in Paths, Hand \in Clean, Book(Hand, r)
      PROVE  /\ config[Hand].ok /\ ~PlanRefuses(at, Hand, entry, known)
             /\ RunsFrom(Applied(at, Hand, entry, known, root), Hand, root)
  BY <1>1, <1>2, <1>4, PlanAccepts
<1>5. /\ pending.state = "pending" /\ Says(pending.def, Hand, root)
      /\ pending.prior = IF entry.state = "none" THEN {}
                         ELSE {[def |-> entry.def, prev |-> entry.prev]}
      /\ done.state = "installed" /\ Says(done.def, Hand, root)
  BY DEF Records, Says
<1>6. pending \in Entry /\ done \in Entry
  BY <1>1, RecordsType
<1> HIDE DEF pending, done
<1>a. CASE Fails("unfit", cmd.man)
  BY <1>0, <1>a, FailsLedger DEF Failures
<1>7. CASE Fails("refused", cmd.man)
           /\ (~config[Hand].ok \/ PlanRefuses(at, Hand, entry, known))
  <2>1. Hand \notin Clean
    BY <1>3, <1>4, <1>7
  <2> QED
    BY <1>0, <1>7, <2>1, FailsLedger DEF Failures
<1>8. CASE /\ ~(~config[Hand].ok \/ PlanRefuses(at, Hand, entry, known))
           /\ Applied(at, Hand, entry, known, root) = at
           /\ SavesManifest(man)
  <2>3. man = [cmd.man EXCEPT !.entries[Hand] = done]
    OBVIOUS
  <2> HIDE DEF man
  <2>5. ASSUME NEW r \in Paths, Hand \in Clean, Book(Hand, r)
        PROVE  Fitting(done, Hand, r) /\ Reported(Hand, r, done)
    <3>1. r = root
      <4>1. RunsFrom(at, Hand, r) /\ RunsFrom(at, Hand, root) /\ root \in Paths
        BY <1>1, <1>2, <1>4, <1>8, <2>5 DEF Paths
      <4> QED
        BY <1>1, <4>1, RunsFromOne
    <3>2. Fitting(done, Hand, r)
      BY <1>1, <1>5, <3>1 DEF Fitting, Fits
    <3>3. Reported(Hand, r, done)
      BY <1>0, <1>5, <3>1 DEF Reported, root
    <3> QED
      BY <3>2, <3>3
  <2>8. done.state \in Firm
    BY <1>5 DEF Firm
  <2> QED
    BY <1>0, <1>6, <1>8, <2>3, <2>5, <2>8, SavesLedger
<1>9. CASE Announces(entry, pending, {}, cmd.man)
  <2>2. ASSUME NEW r \in Paths, Hand \in Clean, Book(Hand, r)
        PROVE  Promises(entry, pending, {}, r)
    <3>1. Sure(entry, Hand, r, manifest.roots, user.past) /\ entry.state \in Firm
      BY <1>2, <2>2
    <3>2. Fitting(pending, Hand, r)
      <4>0. root \in {Core} \union manifest.roots
        BY <1>1
      <4>1. CASE entry.state = "none"
        <5>1. Unrecorded(r, user.past)
          BY <3>1, <4>1 DEF Sure
        <5> QED
          BY <1>5, <4>0, <4>1, <5>1 DEF Fitting, Fits
      <4>2. CASE entry.state /= "none"
        <5>1. r \in {Core} \union manifest.roots /\ Says(entry.def, Hand, r)
          BY <3>1, <4>2 DEF Sure, NoEntry
        <5> DEFINE p == [def |-> entry.def, prev |-> entry.prev]
        <5>2. pending.prior = {p} /\ p.def = entry.def
          BY <1>5, <4>2
        <5> HIDE DEF p
        <5>3. \E q \in pending.prior : pending.prior = {q} /\ Says(q.def, Hand, r)
          BY <5>1, <5>2
        <5> QED
          BY <1>5, <4>0, <5>1, <5>3 DEF Fitting, Fits
      <4> QED
        BY <4>1, <4>2
    <3> QED
      BY <1>0, <1>5, <3>1, <3>2 DEF Promises, root
  <2>3. \A k \in Harnesses : k /= Hand => cmd.man.entries[k] = cmd.man.entries[k]
    OBVIOUS
  <2>4. {} \in SUBSET Events
    OBVIOUS
  <2> QED
    BY <1>0, <1>1, <1>6, <1>9, <2>2, <2>4, AnnouncesLedger
<1> QED
  BY <1>0, <1>a, <1>7, <1>8, <1>9

\* An entry of the manifest, or what is adopted without one, as an uninstall sees it.
LEMMA UninstallSees ==
  ASSUME Base, Ledger, cmd.at = "next", cmd.todo /= << >>, Hand \in Clean,
         NEW r \in Paths, Book(Hand, r),
         NEW known \in SUBSET Roots, Core \in known, NEW old, old = cmd.man.entries[Hand]
  PROVE  LET entry == IF old.state = "none" THEN Adopted(Hand, known)
                      ELSE Recovered(old, Hand, FALSE)
         IN  /\ Sure(entry, Hand, r, manifest.roots, user.past)
             /\ old.state = "none" => config[Hand].ok /\ ~Ambiguous(Hand, known)
             /\ old.state = "none" => entry.state \in Firm
             /\ old.state = "none" /\ entry.state = "none" => r = NoRoot
             /\ old.state /= "none" /\ entry.state = "none" => ~user.calm
             /\ user.calm => entry.state \in Firm
<1> DEFINE at == config[Hand].at
<1>0. cmd.at /= "over" /\ cmd.at \notin WritePoints
  BY DEF WritePoints
<1>1. /\ Hand \in Harnesses /\ old \in Entry /\ at \in Files /\ config[Hand].ok \in BOOLEAN
      /\ manifest.roots \in SUBSET Roots
  BY CommandTypes DEF Base, Typed, Manifests
<1>2. /\ config[Hand].ok /\ RunsFrom(at, Hand, r)
      /\ Fits(old, Hand, r, manifest.roots, user.past)
  BY <1>0 DEF Book, Fitting
<1>3. user.calm => old.state \in Firm
  BY <1>0, <1>1 DEF Ledger, Calm
<1>4. CASE old.state /= "none"
  <2> DEFINE entry == Recovered(old, Hand, FALSE)
  <2>1. /\ Sure(entry, Hand, r, manifest.roots, user.past)
        /\ old.state \in Firm => entry = old
    BY <1>1, <1>2, RecoveredIsSure
  <2> QED
    BY <1>3, <1>4, <2>1
<1>5. CASE old.state = "none"
  <2> DEFINE entry == Adopted(Hand, known)
             def == [e \in Events |->
                       IF e \in Adoptable(Hand, known)
                       THEN at[e][CHOOSE i \in Hits(at[e], known) : TRUE].root
                       ELSE NoRoot]
  <2>1. Unrecorded(r, user.past)
    BY <1>2, <1>5 DEF Fits
  <2>2. /\ entry = IF Adoptable(Hand, known) = {} THEN NoEntry
                   ELSE [NoEntry EXCEPT !.state = "installed", !.def = def]
        /\ [NoEntry EXCEPT !.state = "installed", !.def = def].state = "installed"
        /\ [NoEntry EXCEPT !.state = "installed", !.def = def].def = def
        /\ NoEntry.state = "none"
    BY DEF Adopted, NoEntry
  <2>3. \A e \in HookEvents[Hand] : e \in Events
    BY <1>1, EventsAreFinite
  <2>4. ASSUME NEW e \in HookEvents[Hand]
        PROVE  /\ Cardinality(Hits(at[e], known)) = IF r \in known THEN 1 ELSE 0
               /\ r \notin known => Hits(at[e], known) = {}
               /\ r \in known => \E i \in DOMAIN at[e] :
                    at[e][i] = Hook(r) /\ Hits(at[e], known) = {i}
    <3>1. e \in Events /\ at \in Files /\ RunsFrom(at, Hand, r) /\ Hand \in Harnesses
      BY <1>1, <1>2, <2>3, <2>4
    <3> HIDE DEF at
    <3>2. Cardinality(Hits(at[e], known)) =
            IF e \in HookEvents[Hand] /\ r \in known THEN 1 ELSE 0
      BY <3>1, RunsHits
    <3>3. r \notin known => Hits(at[e], known) = {}
      BY <3>1, RunsHits
    <3>4. e \in HookEvents[Hand] /\ r \in known =>
            \E i \in DOMAIN at[e] : at[e][i] = Hook(r) /\ Hits(at[e], known) = {i}
      <4> HAVE e \in HookEvents[Hand] /\ r \in known
      <4> QED
        BY <3>1, RunsHits
    <3> QED
      BY <2>4, <3>2, <3>3, <3>4
  <2>5. ~Ambiguous(Hand, known)
    BY <2>4 DEF Ambiguous
  <2>6. r \in known <=> r = Core
    BY <2>1, InstallerAssumption DEF Unrecorded
  <2>7. CASE r = Core
    <3>1. Adoptable(Hand, known) = HookEvents[Hand] /\ HookEvents[Hand] /= {}
      <4>1. \A e \in HookEvents[Hand] : Hits(at[e], known) /= {}
        BY <2>4, <2>6, <2>7
      <4> QED
        BY <1>1, <4>1, EventsAreFinite DEF Adoptable
    <3>2. ASSUME NEW e \in Events
          PROVE  def[e] = IF e \in HookEvents[Hand] THEN r ELSE NoRoot
      <4>1. CASE e \in HookEvents[Hand]
        <5>1. PICK i \in DOMAIN at[e] : at[e][i] = Hook(r) /\ Hits(at[e], known) = {i}
          BY <2>4, <2>6, <2>7, <4>1
        <5>2. (CHOOSE j \in Hits(at[e], known) : TRUE) = i
          BY <5>1
        <5> HIDE DEF at
        <5>3. def[e] = at[e][i].root
          BY <3>1, <4>1, <5>2
        <5> QED
          BY <4>1, <5>1, <5>3 DEF Hook
      <4>2. CASE e \notin HookEvents[Hand]
        BY <3>1, <4>2
      <4> QED
        BY <4>1, <4>2
    <3>3. Says(def, Hand, r)
      BY <3>2 DEF Says
    <3> HIDE DEF def, entry
    <3>4. entry.state = "installed" /\ Says(entry.def, Hand, r)
      BY <2>2, <3>1, <3>3
    <3>5. Sure(entry, Hand, r, manifest.roots, user.past) /\ entry.state \in Firm
      BY <2>7, <3>4 DEF Sure, Firm
    <3> QED
      BY <1>2, <1>5, <2>5, <3>4, <3>5 DEF entry
  <2>8. CASE r = NoRoot
    <3>1. Adoptable(Hand, known) = {}
      BY <2>4, <2>8, InstallerAssumption DEF Adoptable
    <3> HIDE DEF def, entry
    <3>2. entry = NoEntry
      BY <2>2, <3>1
    <3>3. Sure(entry, Hand, r, manifest.roots, user.past) /\ entry.state \in Firm
      BY <2>1, <2>2, <3>2 DEF Sure, Firm
    <3> QED
      BY <1>2, <1>5, <2>5, <2>8, <3>3 DEF entry
  <2> QED
    BY <2>1, <2>7, <2>8 DEF Unrecorded
<1> QED
  BY <1>4, <1>5

LEMMA UninstallBeginsLedger ==
  ASSUME Base, Ledger, UninstallBegins
  PROVE  Ledger'
<1> DEFINE known == Known(cmd.man, cmd.root)
           old == cmd.man.entries[Hand]
           entry == IF old.state = "none" THEN Adopted(Hand, known)
                    ELSE Recovered(old, Hand, FALSE)
           unseen == old.state = "none" /\ (~config[Hand].ok \/ Ambiguous(Hand, known))
           man == [cmd.man EXCEPT !.entries[Hand] = entry]
           gone == [cmd.man EXCEPT !.entries[Hand] = NoEntry]
           remove == Located(config[Hand].at, entry)
           record == [entry EXCEPT !.state = "removing"]
           bare == entry.state = "none" /\ old.state = "none"
<1>0. /\ cmd.kind = "uninstall" /\ cmd.at = "next" /\ cmd.at /= "over"
      /\ cmd.todo /= << >> /\ cmd.at \notin WritePoints
      /\ \/ unseen /\ Fails("refused", cmd.man)
         \/ unseen /\ Proceeds(cmd, cmd.man, FALSE, Hand, FALSE)
         \/ bare /\ Proceeds(cmd, gone, FALSE, Hand, TRUE)
         \/ Fails("refused", man)
         \/ (entry.state = "none" \/ remove = {}) /\ SavesManifest(gone)
         \/ entry.state /= "none" /\ Announces(entry, record, remove, man)
  BY DEF UninstallBegins, Hand, WritePoints
<1>1. /\ Hand \in Harnesses /\ old \in Entry /\ known \in SUBSET Roots /\ Core \in known
      /\ cmd.man \in Manifests /\ cmd \in Commands /\ config[Hand].at \in Files
      /\ cmd.man.roots = manifest.roots /\ manifest.roots \in SUBSET Roots
  BY <1>0, Underway, CommandTypes DEF Base, Typed, Known, Manifests
<1>2. /\ Hand \in Clean => \E r \in Paths : Book(Hand, r)
      /\ user.calm => Hand \in Clean
      /\ user.calm => manifest.entries[Hand].state \in Firm /\ old.state \in Firm
  BY <1>0, <1>1 DEF Ledger, Books, Calm, Clean
<1>3. entry \in Entry
  BY <1>1, RecoveredType, AdoptedType DEF Base
<1>4. remove \in SUBSET Events
  BY DEF Located, Recorded
<1> HIDE DEF known
<1>5. ASSUME NEW r \in Paths, Hand \in Clean, Book(Hand, r)
      PROVE  /\ Sure(entry, Hand, r, manifest.roots, user.past)
             /\ old.state = "none" => config[Hand].ok /\ ~Ambiguous(Hand, known)
             /\ old.state = "none" /\ entry.state = "none" => r = NoRoot
             /\ old.state /= "none" /\ entry.state = "none" => ~user.calm
             /\ user.calm => entry.state \in Firm
             /\ Fitting(old, Hand, r)
  <2>1. Fitting(old, Hand, r)
    BY <1>0, <1>5 DEF Book
  <2> DEFINE p == old
  <2>2. p = cmd.man.entries[Hand]
    OBVIOUS
  <2> HIDE DEF p
  <2>3. LET e == IF p.state = "none" THEN Adopted(Hand, known)
                 ELSE Recovered(p, Hand, FALSE)
        IN  /\ Sure(e, Hand, r, manifest.roots, user.past)
            /\ p.state = "none" => config[Hand].ok /\ ~Ambiguous(Hand, known)
            /\ p.state = "none" => e.state \in Firm
            /\ p.state = "none" /\ e.state = "none" => r = NoRoot
            /\ p.state /= "none" /\ e.state = "none" => ~user.calm
            /\ user.calm => e.state \in Firm
    BY <1>0, <1>1, <1>5, <2>2, UninstallSees
  <2> QED
    BY <2>1, <2>3 DEF p
<1>6. unseen => Hand \notin Clean
  BY <1>2, <1>5
<1>7. ASSUME NEW r \in Paths, Hand \in Clean, Book(Hand, r), entry.state /= "none"
      PROVE  r \in Roots /\ r \in {Core} \union manifest.roots
             /\ Says(entry.def, Hand, r) /\ remove = HookEvents[Hand] /\ remove /= {}
  <2>1. r \in {Core} \union manifest.roots /\ Says(entry.def, Hand, r)
    <3>1. Sure(entry, Hand, r, manifest.roots, user.past) /\ entry.state /= "none"
      BY <1>5, <1>7
    <3> HIDE DEF entry
    <3> QED
      BY <3>1 DEF Sure, NoEntry
  <2>2. r \in Roots
    BY <2>1, <1>1, InstallerAssumption
  <2> DEFINE at == config[Hand].at
  <2>3. at \in Files /\ RunsFrom(at, Hand, r)
    BY <1>1, <1>7 DEF Book
  <2> HIDE DEF at, entry
  <2>4. Located(at, entry) = HookEvents[Hand]
    BY <1>1, <1>3, <2>1, <2>2, <2>3, LocatedAll
  <2>5. HookEvents[Hand] /= {}
    BY <1>1, EventsAreFinite
  <2> QED
    BY <2>1, <2>2, <2>4, <2>5 DEF at
<1> HIDE DEF old, entry, remove
<1>8. /\ record \in Entry /\ record.state = "removing" /\ record.def = entry.def
      /\ NoEntry \in Entry /\ NoEntry.state = "none"
  BY <1>3, EntryTypes DEF NoEntry
<1>9. /\ Rerecords(man, cmd.man, Hand, entry)
      /\ man = [cmd.man EXCEPT !.entries[Hand] = entry]
      /\ gone = [cmd.man EXCEPT !.entries[Hand] = NoEntry]
  BY <1>1, <1>3, Written
<1> HIDE DEF man, gone, record
<1>10. cmd.kind /= "install" /\ TRUE \in BOOLEAN /\ FALSE \in BOOLEAN
  BY <1>0
<1>a. ASSUME NEW r \in Paths, Hand \in Clean, Book(Hand, r), entry.state = "none"
      PROVE  \A e : Fitting(NoEntry, Hand, r) /\ Reported(Hand, r, e)
  <2>1. Unrecorded(r, user.past)
    BY <1>5, <1>a DEF Sure
  <2>2. r = NoRoot \/ ~user.calm
    BY <1>5, <1>a
  <2> QED
    BY <1>0, <2>1, <2>2 DEF Fitting, Fits, Reported, Unrecorded
<1>11. CASE unseen /\ Fails("refused", cmd.man)
  BY <1>0, <1>6, <1>11, FailsLedger DEF Failures
<1>12. CASE unseen /\ Proceeds(cmd, cmd.man, FALSE, Hand, FALSE)
  <2>1. Hand \notin Clean
    BY <1>6, <1>12
  <2>2. cmd.man = [cmd.man EXCEPT !.entries[Hand] = old]
    <3>1. Rerecords([cmd.man EXCEPT !.entries[Hand] = old], cmd.man, Hand, old)
      BY <1>1, Written
    <3> QED
      BY <3>1 DEF Rerecords, old
  <2>3. ~user.calm
    BY <1>2, <2>1
  <2> QED
    BY <1>0, <1>1, <1>10, <1>12, <2>1, <2>2, <2>3, ProceedsLedger
<1>13. CASE bare /\ Proceeds(cmd, gone, FALSE, Hand, TRUE)
  <2>1. \A r \in Paths : Hand \in Clean /\ Book(Hand, r) =>
          /\ Fitting(NoEntry, Hand, r)
          /\ TRUE => Reported(Hand, r, manifest'.entries[Hand])
    BY <1>a, <1>13
  <2>2. user.calm => NoEntry.state \in Firm
                       /\ (FALSE \/ manifest.entries[Hand].state \in Firm)
    BY <1>2, <1>8 DEF Firm
  <2> QED
    BY <1>0, <1>1, <1>8, <1>9, <1>10, <1>13, <2>1, <2>2, ProceedsLedger
<1>14. CASE Fails("refused", man)
  <2> DEFINE c == [cmd EXCEPT !.failed = @ \union {"refused"}]
  <2>1. /\ c \in Commands /\ c.kind = cmd.kind /\ c.root = cmd.root /\ c.todo = cmd.todo
        /\ c.done = cmd.done /\ c.failed = cmd.failed \union {"refused"}
    BY Failed DEF Base, Failures
  <2>2. Proceeds(c, man, FALSE, Hand, FALSE)
    BY <1>14 DEF Fails, Hand
  <2> HIDE DEF c
  <2>3. \A r \in Paths : Hand \in Clean /\ Book(Hand, r) =>
          /\ Fitting(entry, Hand, r)
          /\ FALSE => Reported(Hand, r, manifest'.entries[Hand])
    BY <1>5, SureFits DEF Fitting
  <2>4. user.calm => entry.state \in Firm
                       /\ (FALSE \/ manifest.entries[Hand].state \in Firm)
    BY <1>2, <1>5
  <2>5. c.failed /= {} /\ cmd.failed \subseteq c.failed
    BY <2>1
  <2> QED
    BY <1>0, <1>3, <1>9, <1>10, <2>1, <2>2, <2>3, <2>4, <2>5, ProceedsLedger
<1>15. CASE (entry.state = "none" \/ remove = {}) /\ SavesManifest(gone)
  <2>1. \A r \in Paths : Hand \in Clean /\ Book(Hand, r) =>
          Fitting(NoEntry, Hand, r) /\ Reported(Hand, r, NoEntry)
    BY <1>7, <1>15, <1>a
  <2>2. NoEntry.state \in Firm
    BY <1>8 DEF Firm
  <2> QED
    BY <1>0, <1>8, <1>9, <1>15, <2>1, <2>2, SavesLedger
<1>16. CASE entry.state /= "none" /\ Announces(entry, record, remove, man)
  <2>1. \A r \in Paths : Hand \in Clean /\ Book(Hand, r) =>
          Promises(entry, record, remove, r)
    <3> TAKE r \in Paths
    <3> HAVE Hand \in Clean /\ Book(Hand, r)
    <3>1. r \in Roots /\ r \in {Core} \union manifest.roots
          /\ Says(entry.def, Hand, r) /\ remove = HookEvents[Hand]
      BY <1>7, <1>16
    <3>2. Fitting(record, Hand, r)
      BY <1>8, <3>1 DEF Fitting, Fits
    <3> QED
      BY <1>0, <1>8, <3>1, <3>2 DEF Promises
  <2>2. /\ man \in Manifests /\ man.roots = cmd.man.roots
        /\ \A k \in Harnesses : k /= Hand => man.entries[k] = cmd.man.entries[k]
    BY <1>9 DEF Rerecords
  <2> QED
    BY <1>0, <1>3, <1>4, <1>8, <1>16, <2>1, <2>2, AnnouncesLedger
<1> QED
  BY <1>0, <1>11, <1>12, <1>13, <1>14, <1>15, <1>16
-----------------------------------------------------------------------------
(* The beginning and the end of a command                                    *)

LEMMA EndsLedger ==
  ASSUME Base, Ledger, Ends \/ RemovesHome
  PROVE  Ledger'
<1>0. /\ cmd.at = "next" /\ cmd.todo = << >> /\ cmd.at /= "over"
      /\ cmd' = [cmd EXCEPT !.at = "over", !.man = NoManifest]
      /\ manifest' = manifest
           \/ (cmd.kind = "uninstall" /\ cmd.failed = {} /\ manifest' = NoManifest)
      /\ UNCHANGED <<config, user, left>>
  BY DEF Ends, RemovesHome
<1>1. /\ cmd'.at = "over" /\ cmd'.kind = cmd.kind /\ cmd'.root = cmd.root
      /\ cmd'.done = cmd.done /\ cmd'.failed = cmd.failed
  BY <1>0 DEF Base, Typed, Commands
<1>2. Clean' = Clean /\ Clean \subseteq Harnesses /\ "over" \notin WritePoints
  BY <1>0 DEF Clean, WritePoints
<1>3. ToSet(cmd.todo) = {}
  BY <1>0 DEF ToSet
<1>4. Books'
  <2> SUFFICES ASSUME NEW h \in Clean PROVE \E r \in Paths : Book(h, r)'
    BY <1>2 DEF Books
  <2>1. PICK r \in Paths : Book(h, r)
    BY DEF Ledger, Books
  <2>2. Writes(h, r)'
    BY <1>1, <1>2 DEF Writes
  <2>3. CASE manifest' = manifest
    <3>1. Book(h, r)'
      BY <1>0, <1>1, <2>1, <2>2, <2>3 DEF Book, Fitting, Reported
    <3> QED
      BY <3>1
  <2>4. CASE cmd.kind = "uninstall" /\ cmd.failed = {} /\ manifest' = NoManifest
    <3>1. h \in cmd.done
      BY <1>0, <1>3, <2>4 DEF Ledger, Course
    <3>2. Unrecorded(r, user.past)
      BY <2>1, <2>4, <3>1 DEF Book, Reported, Unrecorded
    <3>3. manifest'.entries[h] = NoEntry
      BY <1>2, <2>4 DEF NoManifest
    <3>4. Fitting(manifest.entries[h], h, r)'
      BY <1>0, <3>2, <3>3 DEF Fitting, Fits
    <3>5. (h \in cmd.done => Reported(h, r, manifest.entries[h]))'
      BY <1>0, <1>1, <2>1, <2>4 DEF Book, Reported
    <3>6. Book(h, r)'
      BY <1>0, <1>1, <2>1, <2>2, <3>4, <3>5 DEF Book
    <3> QED
      BY <3>6
  <2> QED
    BY <1>0, <2>3, <2>4
<1>5. Course'
  BY <1>1, <1>2 DEF Ledger, Course
<1>6. Calm'
  <2>1. user.calm => \A h \in Harnesses : manifest'.entries[h].state \in Firm
    <3>1. CASE manifest' = manifest
      BY <1>0, <3>1 DEF Ledger, Calm, WritePoints
    <3>2. CASE manifest' = NoManifest
      BY <3>2 DEF NoManifest, NoEntry, Firm
    <3> QED
      BY <1>0, <3>1, <3>2
  <2> QED
    BY <1>0, <1>1, <1>2, <2>1 DEF Ledger, Calm
<1> QED
  BY <1>4, <1>5, <1>6 DEF Ledger

LEMMA CommandDiesLedger ==
  ASSUME Base, Ledger, CommandDies
  PROVE  Ledger'
<1>0. /\ cmd' = NoCommand /\ user' = [user EXCEPT !.calm = FALSE]
      /\ UNCHANGED <<config, manifest>>
  BY DEF CommandDies
<1>1. /\ cmd'.at = "over" /\ cmd'.kind = "none" /\ cmd'.done = {} /\ cmd'.failed = {}
  BY <1>0 DEF NoCommand
<1>2. /\ user'.touched = user.touched /\ user'.raced = user.raced
      /\ user'.past = user.past /\ user'.calm = FALSE
  BY <1>0 DEF Base, Typed, Users
<1>3. Clean' = Clean /\ "over" \notin WritePoints
  BY <1>2 DEF Clean, WritePoints
<1>4. Books'
  <2> SUFFICES ASSUME NEW h \in Clean PROVE \E r \in Paths : Book(h, r)'
    BY <1>3 DEF Books
  <2>1. PICK r \in Paths : Book(h, r)
    BY DEF Ledger, Books
  <2>2. Writes(h, r)'
    BY <1>1, <1>3 DEF Writes
  <2>3. Book(h, r)'
    BY <1>0, <1>1, <1>2, <2>1, <2>2 DEF Book, Fitting
  <2> QED
    BY <2>3
<1>5. Course'
  BY <1>1, <1>3 DEF Course
<1>6. Calm'
  BY <1>2 DEF Calm
<1> QED
  BY <1>4, <1>5, <1>6 DEF Ledger

\* A command starts over a manifest that is true of every clean file.
LEMMA StartsLedger ==
  ASSUME Base, Ledger, UNCHANGED <<config, user>>, cmd.at = "over",
         cmd'.at = "next", cmd'.man = manifest', cmd'.done = {}, cmd'.failed = {},
         \A h \in Clean, r \in Paths : Book(h, r) => Fitting(manifest.entries[h], h, r)',
         user.calm => \A h \in Harnesses : manifest'.entries[h].state \in Firm,
         Course'
  PROVE  Ledger'
<1>1. Clean' = Clean /\ "next" \notin WritePoints
  BY DEF Clean, WritePoints
<1>2. Books'
  <2> SUFFICES ASSUME NEW h \in Clean PROVE \E r \in Paths : Book(h, r)'
    BY <1>1 DEF Books
  <2>1. PICK r \in Paths : Book(h, r)
    BY DEF Ledger, Books
  <2>2. Writes(h, r)'
    BY <1>1 DEF Writes
  <2>3. Fitting(manifest.entries[h], h, r)'
    BY <2>1
  <2>4. Book(h, r)'
    BY <2>1, <2>2, <2>3 DEF Book, Fitting
  <2> QED
    BY <2>4
<1>3. Calm'
  BY <1>1 DEF Ledger, Calm
<1> QED
  BY <1>2, <1>3 DEF Ledger

LEMMA SelectionsAreOnce == \A s \in Selections : IsInjective(s)
<1> TAKE s \in Selections
<1>1. DOMAIN s \subseteq Nat
  BY SelectionsAreSeqs, LenProperties
<1>2. \A i, j \in DOMAIN s : i < j => s[i] /= s[j]
  <2> SUFFICES ASSUME NEW i \in DOMAIN s, NEW j \in DOMAIN s, i < j, s[i] = s[j]
               PROVE  FALSE
    OBVIOUS
  <2>1. PICK k \in DOMAIN HarnessOrder, l \in DOMAIN HarnessOrder :
          k < l /\ s[i] = HarnessOrder[k] /\ s[j] = HarnessOrder[l]
    BY DEF Selections
  <2>2. k = l
    BY <2>1, InstallerAssumption DEF IsInjective
  <2>3. k \in Nat /\ l \in Nat
    BY InstallerAssumption, LenProperties
  <2> QED
    BY <2>1, <2>2, <2>3
<1>3. \A i, j \in DOMAIN s : s[i] = s[j] => i = j
  <2> TAKE i \in DOMAIN s, j \in DOMAIN s
  <2>1. i \in Nat /\ j \in Nat
    BY <1>1
  <2>2. i < j \/ j < i \/ i = j
    BY <2>1
  <2> QED
    BY <1>2, <2>2
<1> QED
  BY <1>3 DEF IsInjective

LEMMA StartInstallLedger ==
  ASSUME Base, Ledger, NEW root \in Roots, NEW targets \in Selections,
         StartInstall(root, targets)
  PROVE  Ledger'
<1> DEFINE entries == [h \in Harnesses |-> Recovered(manifest.entries[h], h, TRUE)]
           man == [roots |-> manifest.roots \union {root}, entries |-> entries]
<1>0. /\ cmd.at = "over" /\ manifest' = man
      /\ cmd' = [NoCommand EXCEPT !.kind = "install", !.root = root, !.man = man,
                                  !.at = "next", !.todo = targets]
      /\ UNCHANGED <<config, user>>
  BY DEF StartInstall
<1>1. /\ manifest'.roots = manifest.roots \union {root}
      /\ \A h \in Harnesses : manifest'.entries[h] = Recovered(manifest.entries[h], h, TRUE)
  BY <1>0
<1> HIDE DEF man
<1>2. /\ cmd'.at = "next" /\ cmd'.man = manifest' /\ cmd'.done = {} /\ cmd'.failed = {}
      /\ cmd'.kind = "install" /\ cmd'.root = root /\ cmd'.todo = targets
  BY <1>0 DEF NoCommand
<1>3. Clean' = Clean /\ Clean \subseteq Harnesses /\ manifest.roots \in SUBSET Roots
  BY <1>0 DEF Clean, Base, Typed, Manifests
<1>4. ASSUME NEW h \in Clean, NEW r \in Paths, Book(h, r)
      PROVE  /\ Fitting(manifest.entries[h], h, r)'
             /\ manifest'.entries[h].state \in Firm
             /\ manifest.entries[h].state \in Firm =>
                  manifest'.entries[h] = manifest.entries[h]
  <2> DEFINE entry == manifest.entries[h]
             answer == Recovered(entry, h, TRUE)
             roots == manifest.roots
             more == manifest'.roots
             past == user.past
  <2>1. /\ h \in Harnesses /\ config[h].at \in Files /\ config[h].ok = TRUE
        /\ entry \in Entry
        /\ RunsFrom(config[h].at, h, r) /\ Fits(entry, h, r, roots, past)
        /\ roots \in SUBSET Roots /\ roots \subseteq more /\ TRUE \in BOOLEAN
    BY <1>1, <1>3, <1>4, CommandTypes DEF Base, Book, Fitting
  <2>2. manifest'.entries[h] = answer
    BY <1>1, <2>1
  <2> HIDE DEF entry, roots, past, more
  <2>3. /\ Sure(answer, h, r, roots, past) /\ answer.state \in Firm
        /\ entry.state \in Firm => answer = entry
    BY <2>1, RecoveredIsSure
  <2> HIDE DEF answer
  <2>4. Fits(answer, h, r, roots, past)
    BY <2>3, SureFits
  <2>5. Fits(answer, h, r, more, past)
    BY <2>1, <2>4, FitsGrows
  <2> QED
    BY <1>0, <2>2, <2>3, <2>5 DEF Fitting, entry, more, past
<1>5. user.calm => \A h \in Harnesses : manifest'.entries[h].state \in Firm
  BY <1>4 DEF Ledger, Books, Calm, Clean
<1>6. Course'
  <2>1. IsInjective(targets)
    BY SelectionsAreOnce
  <2>2. \A h \in Clean : manifest'.entries[h].state \in Firm
    BY <1>4 DEF Ledger, Books
  <2>3. "next" \notin WritePoints
    BY DEF WritePoints
  <2> QED
    BY <1>1, <1>2, <1>3, <2>1, <2>2, <2>3 DEF Course
<1> QED
  BY <1>0, <1>2, <1>4, <1>5, <1>6, StartsLedger

LEMMA StartUninstallLedger ==
  ASSUME Base, Ledger, NEW root \in Roots, NEW force \in BOOLEAN,
         StartUninstall(root, force)
  PROVE  Ledger'
<1>0. /\ cmd.at = "over"
      /\ cmd' = [NoCommand EXCEPT !.kind = "uninstall", !.root = root, !.force = force,
                                  !.man = manifest, !.at = "next", !.todo = HarnessOrder]
      /\ UNCHANGED <<config, manifest, user>>
  BY DEF StartUninstall
<1>1. /\ cmd'.at = "next" /\ cmd'.man = manifest' /\ cmd'.done = {} /\ cmd'.failed = {}
      /\ cmd'.kind = "uninstall" /\ cmd'.todo = HarnessOrder
  BY <1>0 DEF NoCommand
<1>2. Clean' = Clean /\ Clean \subseteq Harnesses /\ "next" \notin WritePoints
      /\ "over" \notin WritePoints
  BY <1>0 DEF Clean, WritePoints
<1>3. \A h \in Clean, r \in Paths : Book(h, r) => Fitting(manifest.entries[h], h, r)'
  BY <1>0 DEF Book, Fitting
<1>4. user.calm => \A h \in Harnesses : manifest'.entries[h].state \in Firm
  BY <1>0, <1>2 DEF Ledger, Calm
<1>5. Course'
  BY <1>1, <1>2 DEF Course, Harnesses
<1> QED
  BY <1>0, <1>1, <1>3, <1>4, <1>5, StartsLedger

-----------------------------------------------------------------------------
(* The user's editor                                                         *)

\* An edit of the user leaves every other file alone; this one is hers alone from
\* then on, or runs Samurai from where it did.
LEMMA EditsLedger ==
  ASSUME Base, Ledger, NEW h \in Harnesses, NEW file, NEW history \in Users,
         Edits(h, file, history),
         history.past = user.past, history.raced = user.raced,
         user.touched \subseteq history.touched,
         \/ h \in history.touched
         \/ /\ file.ok
            /\ \A r \in Paths : RunsFrom(config[h].at, h, r) => RunsFrom(file.at, h, r)
  PROVE  Ledger'
<1>0. /\ config' = [config EXCEPT ![h] = file]
      /\ user' = [history EXCEPT
                    !.calm = FALSE,
                    !.raced = IF cmd.at = "replace" /\ Head(cmd.todo) = h
                              THEN @ \union {h} ELSE @]
      /\ UNCHANGED <<manifest, cmd>>
  BY DEF Edits
<1>1. /\ user'.calm = FALSE /\ user'.past = user.past /\ user'.touched = history.touched
      /\ user.raced \subseteq user'.raced
  BY <1>0 DEF Users
<1>2. Clean' \subseteq Clean /\ Clean \subseteq Harnesses /\ Hand' = Hand
      /\ (h \in history.touched => h \notin Clean')
  BY <1>0, <1>1 DEF Clean, Hand
<1>3. /\ config'[h] = file
      /\ \A k \in Harnesses : k /= h => config'[k] = config[k]
  BY <1>0 DEF Base, Typed
<1>4. Books'
  <2> SUFFICES ASSUME NEW k \in Clean, k \in Clean' PROVE \E r \in Paths : Book(k, r)'
    BY <1>2 DEF Books
  <2>1. PICK r \in Paths : Book(k, r)
    BY DEF Ledger, Books
  <2>2. config'[k].ok /\ RunsFrom(config'[k].at, k, r)
    BY <1>2, <1>3, <2>1 DEF Book
  <2>3. Writes(k, r)'
    BY <1>0, <1>1, <1>2, <2>1 DEF Book, Writes
  <2>4. (k \in cmd.done => Reported(k, r, manifest.entries[k]))'
    BY <1>0, <1>1, <2>1 DEF Book, Reported
  <2>5. Book(k, r)'
    BY <1>0, <1>1, <2>1, <2>2, <2>3, <2>4 DEF Book, Fitting
  <2> QED
    BY <2>5
<1>5. Course'
  BY <1>0, <1>2 DEF Ledger, Course
<1>6. Calm'
  BY <1>1 DEF Calm
<1> QED
  BY <1>4, <1>5, <1>6 DEF Ledger

\* A hook of the user's, added at either end.
LEMMA AddedRuns ==
  ASSUME NEW at \in Files, NEW h \in Harnesses, NEW r \in Paths, NEW e \in Events,
         NEW groups \in {Append(at[e], Foreign), <<Foreign>> \o at[e]},
         RunsFrom(at, h, r)
  PROVE  RunsFrom([at EXCEPT ![e] = groups], h, r)
<1> DEFINE new == [at EXCEPT ![e] = groups]
           shift == IF groups = Append(at[e], Foreign) THEN 0 ELSE 1
<1>1. new[e] = groups /\ \A f \in Events : f /= e => new[f] = at[f]
  BY DEF Files
<1>2. at[e] \in Seq(Group) /\ DOMAIN at[e] = 1 .. Len(at[e]) /\ Len(at[e]) \in Nat
      /\ Foreign \in Group
  BY LenProperties, Groups DEF Files
<1>3. /\ shift \in {0, 1}
      /\ DOMAIN groups = 1 .. Len(at[e]) + 1
      /\ \A i \in 1 .. Len(at[e]) : groups[i + shift] = at[e][i]
      /\ \A i \in 1 .. Len(at[e]) + 1 :
           i - shift \notin 1 .. Len(at[e]) => groups[i] = Foreign
  <2>1. CASE groups = Append(at[e], Foreign)
    <3>1. /\ groups \in Seq(Group) /\ Len(groups) = Len(at[e]) + 1
          /\ \A i \in 1 .. Len(at[e]) : groups[i] = at[e][i]
          /\ groups[Len(at[e]) + 1] = Foreign
      BY <1>2, <2>1, AppendProperties
    <3>2. DOMAIN groups = 1 .. Len(at[e]) + 1 /\ shift = 0
      BY <2>1, <3>1, LenProperties
    <3> HIDE DEF shift
    <3> QED
      BY <1>2, <3>1, <3>2
  <2>2. CASE groups /= Append(at[e], Foreign)
    <3>0. groups = <<Foreign>> \o at[e] /\ shift = 1
      BY <2>2
    <3>1. <<Foreign>> \in Seq(Group) /\ Len(<<Foreign>>) = 1
      BY <1>2
    <3>2. /\ groups \in Seq(Group) /\ Len(groups) = 1 + Len(at[e])
          /\ \A j \in 1 .. 1 + Len(at[e]) :
               groups[j] = IF j <= 1 THEN <<Foreign>>[j] ELSE at[e][j - 1]
      BY <3>0, <3>1, <1>2, ConcatProperties
    <3>3. DOMAIN groups = 1 .. Len(at[e]) + 1 /\ groups[1] = Foreign
      BY <3>2, <1>2, LenProperties
    <3>4. \A i \in 1 .. Len(at[e]) : groups[i + 1] = at[e][i]
      <4> TAKE i \in 1 .. Len(at[e])
      <4>1. i + 1 \in 1 .. 1 + Len(at[e]) /\ ~(i + 1 <= 1) /\ (i + 1) - 1 = i
        BY <1>2
      <4> QED
        BY <3>2, <4>1
    <3> HIDE DEF shift
    <3> QED
      BY <1>2, <3>0, <3>3, <3>4
  <2> QED
    BY <2>1, <2>2
<1> HIDE DEF new, shift
<1>4. Ours(groups) = {i + shift : i \in Ours(at[e])}
  <2>1. \A i \in 1 .. Len(at[e]) : i + shift \in 1 .. Len(at[e]) + 1 /\ i + shift \in Nat
    BY <1>2, <1>3
  <2>2. \A i \in Ours(at[e]) : i + shift \in Ours(groups)
    BY <1>2, <1>3, <2>1 DEF Ours
  <2>3. \A i \in Ours(groups) : i - shift \in Ours(at[e]) /\ (i - shift) + shift = i
    <3> TAKE i \in Ours(groups)
    <3>1. i \in 1 .. Len(at[e]) + 1 /\ groups[i] /= Foreign
      BY <1>3 DEF Ours
    <3>2. i - shift \in 1 .. Len(at[e])
      BY <1>3, <3>1
    <3>3. (i - shift) + shift = i
      BY <1>3, <3>1
    <3>4. at[e][i - shift] = groups[i]
      BY <1>3, <3>2, <3>3
    <3> QED
      BY <1>2, <3>1, <3>2, <3>3, <3>4 DEF Ours
  <2> QED
    BY <2>2, <2>3
<1>5. ASSUME NEW f \in Events
      PROVE  IF f \in HookEvents[h] /\ r /= NoRoot
             THEN \E i \in DOMAIN new[f] : new[f][i] = Hook(r) /\ Ours(new[f]) = {i}
             ELSE Ours(new[f]) = {}
  <2>1. CASE f /= e
    BY <1>1, <2>1 DEF RunsFrom
  <2>2. CASE f = e /\ f \in HookEvents[h] /\ r /= NoRoot
    <3>1. PICK i \in DOMAIN at[e] : at[e][i] = Hook(r) /\ Ours(at[e]) = {i}
      BY <2>2 DEF RunsFrom
    <3>2. i + shift \in DOMAIN groups /\ groups[i + shift] = Hook(r)
      BY <1>2, <1>3, <3>1
    <3>3. Ours(groups) = {i + shift}
      BY <1>4, <3>1
    <3> QED
      BY <1>1, <2>2, <3>2, <3>3
  <2>3. CASE f = e /\ ~(f \in HookEvents[h] /\ r /= NoRoot)
    <3>1. Ours(at[e]) = {}
      BY <2>3 DEF RunsFrom
    <3> QED
      BY <1>1, <1>4, <2>3, <3>1
  <2> QED
    BY <2>1, <2>2, <2>3
<1>6. RunsFrom(new, h, r)
  BY <1>5 DEF RunsFrom
<1> QED
  BY <1>6 DEF new

LEMMA AddsHookLedger ==
  ASSUME Base, Ledger, NEW h \in Harnesses, NEW e \in Events, AddsHook(h, e)
  PROVE  Ledger'
<1>1. PICK groups \in {Append(config[h].at[e], Foreign), <<Foreign>> \o config[h].at[e]} :
        Edits(h, [config[h] EXCEPT !.at[e] = groups], [user EXCEPT !.hers[h] = @ + 1])
  BY DEF AddsHook
<1> DEFINE at == config[h].at
           new == [at EXCEPT ![e] = groups]
           file == [config[h] EXCEPT !.at[e] = groups]
           history == [user EXCEPT !.hers[h] = @ + 1]
<1>2. at \in Files /\ config[h].ok
  BY CommandTypes DEF Base, AddsHook
<1>3. file.ok /\ file.at = new
  BY <1>2 DEF Base, Typed
<1>4. /\ history \in Users /\ history.raced = user.raced /\ history.past = user.past
      /\ history.touched = user.touched
  <2>1. user \in Users /\ user.hers \in [Harnesses -> Nat]
    BY DEF Base, Typed, Users
  <2> DEFINE hers == [user.hers EXCEPT ![h] = @ + 1]
  <2>2. hers \in [Harnesses -> Nat]
    BY <2>1
  <2>3. history = [user EXCEPT !.hers = hers]
    BY <2>1 DEF Users
  <2> HIDE DEF hers, history
  <2> QED
    BY <2>1, <2>2, <2>3 DEF Users
<1>5. Edits(h, file, history)
  BY <1>1
<1>6. groups \in {Append(at[e], Foreign), <<Foreign>> \o at[e]}
  OBVIOUS
<1> HIDE DEF at, file, history
<1>7. \A r \in Paths : RunsFrom(at, h, r) => RunsFrom(new, h, r)
  BY <1>2, <1>6, AddedRuns
<1>8. \A r \in Paths : RunsFrom(config[h].at, h, r) => RunsFrom(file.at, h, r)
  BY <1>3, <1>7 DEF at
<1>9. user.touched \subseteq history.touched
  BY <1>4
<1> QED
  BY <1>3, <1>4, <1>5, <1>8, <1>9, EditsLedger

LEMMA TouchesLedger ==
  ASSUME Base, Ledger, NEW h \in Harnesses, NEW file,
         Edits(h, file, [user EXCEPT !.touched = @ \union {h}])
  PROVE  Ledger'
<1> DEFINE history == [user EXCEPT !.touched = @ \union {h}]
<1>1. /\ history \in Users /\ history.raced = user.raced /\ history.past = user.past
      /\ user.touched \subseteq history.touched /\ h \in history.touched
  BY DEF Base, Typed, Users
<1>2. Edits(h, file, history)
  OBVIOUS
<1> HIDE DEF history
<1> QED
  BY <1>1, <1>2, EditsLedger
-----------------------------------------------------------------------------
(* The inductive invariant                                                   *)

\* What a ledger says of the world it says whatever is left of the bounds.
LEMMA IdleLedger ==
  ASSUME Ledger, UNCHANGED <<config, manifest, cmd, user>>
  PROVE  Ledger'
  BY DEF Ledger, Books, Course, Calm, Clean, Book, Fitting, Writes, Reported, Hand

LEMMA StepLedger == Base /\ Ledger /\ [InstallerNext]_installerVars => Ledger'
<1> SUFFICES ASSUME Base, Ledger, [InstallerNext]_installerVars PROVE Ledger'
  OBVIOUS
<1>1. CASE UNCHANGED installerVars \/ Overlaps
  BY <1>1, IdleLedger DEF installerVars, Overlaps
<1>2. CASE RemovesHome
  BY <1>2, EndsLedger
<1>3. CASE InstallerStep
  <2>1. ASSUME NEW h \in Harnesses, NEW e \in Events, Touches(h, e)
        PROVE  Ledger'
    <3>1. \E file : Edits(h, file, [user EXCEPT !.touched = @ \union {h}])
      BY <2>1 DEF Touches
    <3> QED
      BY <3>1, TouchesLedger
  <2>2. ASSUME NEW h \in Harnesses, Breaks(h)
        PROVE  Ledger'
    BY <2>2, TouchesLedger DEF Breaks
  <2> QED
    BY <1>3, <2>1, <2>2, StartInstallLedger, StartUninstallLedger, InstallBeginsLedger,
       UninstallBeginsLedger, ReadsFileLedger, ChecksFileLedger, ReplacesFileLedger,
       UpdateFailsLedger, SettlesLedger, EndsLedger, CommandDiesLedger, AddsHookLedger
       DEF InstallerStep
<1> QED
  BY <1>1, <1>2, <1>3 DEF InstallerNext

LEMMA InitLedger == InstallerInit => Ledger
<1> SUFFICES ASSUME InstallerInit PROVE Ledger
  OBVIOUS
<1>1. PICK past \in Pasts :
        /\ config = [h \in Harnesses |->
             [ok |-> TRUE,
              at |-> [e \in Events |->
                        IF past = "none" \/ e \notin HookEvents[h] THEN << >>
                        ELSE <<Hook(Core)>>]]]
        /\ manifest =
             IF past /= "installed" THEN NoManifest
             ELSE [roots |-> {Core},
                   entries |-> [h \in Harnesses |->
                     [NoEntry EXCEPT
                        !.state = "installed",
                        !.def = [e \in Events |->
                          IF e \in HookEvents[h] THEN Core ELSE NoRoot]]]]
        /\ user = [past |-> past, hers |-> [h \in Harnesses |-> 0],
                   touched |-> {}, raced |-> {}, calm |-> TRUE]
  BY DEF InstallerInit
<1>2. /\ cmd.at = "over" /\ cmd.kind = "none" /\ cmd.done = {} /\ cmd.failed = {}
      /\ "over" \notin WritePoints
  BY DEF InstallerInit, NoCommand, WritePoints
<1> DEFINE r == IF past = "none" THEN NoRoot ELSE Core
<1>3. r \in Paths /\ Core /= NoRoot /\ Hook(Core) /= Foreign
  BY InstallerAssumption, Groups DEF Paths
<1>4. user.past = past /\ user.touched = {} /\ user.raced = {}
  BY <1>1
<1>5. ASSUME NEW h \in Harnesses
      PROVE  /\ config[h].ok
             /\ \A e \in Events : config[h].at[e] =
                  IF past = "none" \/ e \notin HookEvents[h] THEN << >> ELSE <<Hook(Core)>>
  BY <1>1
<1>6. ASSUME NEW h \in Harnesses, NEW e \in Events
      PROVE  LET at == config[h].at
             IN  /\ Ours(at[e]) = DOMAIN at[e]
                 /\ IF e \in HookEvents[h] /\ r /= NoRoot
                    THEN \E i \in DOMAIN at[e] : at[e][i] = Hook(r) /\ Ours(at[e]) = {i}
                    ELSE Ours(at[e]) = {}
  <2> DEFINE groups == config[h].at[e]
  <2>1. groups = IF past = "none" \/ e \notin HookEvents[h] THEN << >> ELSE <<Hook(Core)>>
    BY <1>5
  <2> HIDE DEF groups
  <2>2. CASE past = "none" \/ e \notin HookEvents[h]
    <3>1. DOMAIN groups = {} /\ Ours(groups) = {}
      BY <2>1, <2>2 DEF Ours
    <3> QED
      BY <2>2, <3>1 DEF groups
  <2>3. CASE ~(past = "none" \/ e \notin HookEvents[h])
    <3>1. DOMAIN groups = {1} /\ groups[1] = Hook(Core)
      BY <2>1, <2>3
    <3>2. Ours(groups) = {1} /\ r = Core
      BY <1>3, <2>3, <3>1 DEF Ours
    <3> HIDE DEF r
    <3> QED
      BY <1>3, <2>3, <3>1, <3>2 DEF groups
  <2> QED
    BY <2>2, <2>3
<1>7. ASSUME NEW h \in Harnesses
      PROVE  manifest.entries[h].state \in Firm /\ Fitting(manifest.entries[h], h, r)
  <2>1. CASE past /= "installed"
    <3>1. manifest.entries[h] = NoEntry /\ NoEntry.state = "none"
      BY <1>1, <2>1 DEF NoManifest, NoEntry
    <3>2. Unrecorded(r, past)
      BY <2>1 DEF Unrecorded, Pasts
    <3> HIDE DEF r
    <3> QED
      BY <1>4, <3>1, <3>2 DEF Fitting, Fits, Firm
  <2>2. CASE past = "installed"
    <3> DEFINE def == [e \in Events |-> IF e \in HookEvents[h] THEN Core ELSE NoRoot]
    <3>1. manifest.entries[h] = [NoEntry EXCEPT !.state = "installed", !.def = def]
      BY <1>1, <2>2
    <3>2. Says(def, h, Core) /\ r = Core
      BY <2>2 DEF Says
    <3> HIDE DEF def, r
    <3>3. manifest.entries[h].state = "installed" /\ manifest.entries[h].def = def
      BY <3>1 DEF NoEntry
    <3> QED
      BY <3>2, <3>3 DEF Fitting, Fits, Firm
  <2> QED
    BY <2>1, <2>2
<1>8. Books
  <2> SUFFICES ASSUME NEW h \in Harnesses PROVE Book(h, r)
    BY <1>3 DEF Books, Clean
  <2>1. RunsFrom(config[h].at, h, r)
    BY <1>6 DEF RunsFrom
  <2> QED
    BY <1>2, <1>5, <1>7, <2>1 DEF Book, Writes
<1>9. Course
  BY <1>2 DEF Course
<1>10. Calm
  BY <1>2, <1>4, <1>6, <1>7 DEF Calm
<1> QED
  BY <1>8, <1>9, <1>10 DEF Ledger

LEMMA InstallerInduction == InstallerSpec => [](Base /\ Ledger /\ Locks)
<1>1. InstallerInit => Base /\ Ledger /\ Locks
  BY InitBase, InitLedger DEF InstallerInit, Locks
<1>2. Base /\ Ledger /\ Locks /\ [InstallerNext]_installerVars
        => (Base /\ Ledger /\ Locks)'
  BY StepBase, StepLedger, StepLocks
<1> QED
  BY <1>1, <1>2, PTL DEF InstallerSpec

-----------------------------------------------------------------------------
(* What follows                                                              *)

LEMMA Cleanly ==
  ASSUME Base, Ledger, NEW h \in Clean
  PROVE  \E r \in Paths :
           /\ config[h].ok /\ config[h].at \in Files /\ RunsFrom(config[h].at, h, r)
           /\ Fitting(manifest.entries[h], h, r) /\ h \in Harnesses
           /\ h \in cmd.done => Reported(h, r, manifest.entries[h])
<1>1. h \in Harnesses
  BY DEF Clean
<1>2. PICK r \in Paths : Book(h, r)
  BY DEF Ledger, Books
<1> QED
  BY <1>1, <1>2, CommandTypes DEF Base, Book

LEMMA OneHookEach ==
  ASSUME NEW at \in Files, NEW h \in Harnesses, NEW r \in Paths, RunsFrom(at, h, r),
         NEW e \in Events
  PROVE  /\ Cardinality(Ours(at[e])) <= 1
         /\ \A i \in Ours(at[e]) : at[e][i].root = r /\ r /= NoRoot
         /\ r = NoRoot => Ours(at[e]) = {}
<1>1. CASE e \in HookEvents[h] /\ r /= NoRoot
  <2>1. PICK i \in DOMAIN at[e] : at[e][i] = Hook(r) /\ Ours(at[e]) = {i}
    BY <1>1 DEF RunsFrom
  <2>2. Cardinality({i}) = 1
    BY FS_Singleton
  <2>3. at[e][i].root = r
    BY <2>1 DEF Hook
  <2> QED
    BY <1>1, <2>1, <2>2, <2>3
<1>2. CASE ~(e \in HookEvents[h] /\ r /= NoRoot)
  <2>1. Ours(at[e]) = {}
    BY <1>2 DEF RunsFrom
  <2>2. Cardinality({}) = 0
    BY FS_EmptySet
  <2> QED
    BY <2>1, <2>2
<1> QED
  BY <1>1, <1>2

\* The paths on disk: where a file runs Samurai from, by its record.
LEMMA FitsFinds ==
  ASSUME NEW entry, NEW h, NEW r, NEW roots, NEW past, Fits(entry, h, r, roots, past),
         r /= NoRoot
  PROVE  r \in {Core} \union roots
  BY DEF Fits, Unrecorded

LEMMA InstallerFollows == Base /\ Ledger /\ Locks => InstallerInv
<1> SUFFICES ASSUME Base, Ledger, Locks PROVE InstallerInv
  OBVIOUS
<1>0. cmd.done \subseteq Harnesses
  BY DEF Base, Typed, Commands
<1>1. InstallerTypeOK
  BY DEF InstallerTypeOK, Locks, Base, Typed, Files, Manifests, Commands, Users, WritePoints
<1>2. UserHooksStay
  BY DEF Base, HandsOff, ForeignAt, UserHooksStay
<1>3. NoHookRunsTwice
  <2> SUFFICES ASSUME NEW h \in Clean, NEW e \in Events
               PROVE  Cardinality(Ours(config[h].at[e])) <= 1
    BY DEF NoHookRunsTwice, Clean
  <2> DEFINE at == config[h].at
  <2>1. PICK r \in Paths : at \in Files /\ RunsFrom(at, h, r) /\ h \in Harnesses
    BY Cleanly
  <2> HIDE DEF at
  <2>2. Cardinality(Ours(at[e])) <= 1
    BY <2>1, OneHookEach
  <2> QED
    BY <2>2 DEF at
<1>4. HooksAreFindable
  <2> SUFFICES ASSUME NEW h \in Clean, NEW e \in Events, NEW i \in Ours(config[h].at[e])
               PROVE  config[h].at[e][i].root \in {Core} \union manifest.roots
    BY DEF HooksAreFindable, Clean
  <2> DEFINE at == config[h].at
  <2>1. PICK r \in Paths :
          /\ at \in Files /\ RunsFrom(at, h, r) /\ h \in Harnesses
          /\ Fitting(manifest.entries[h], h, r)
    BY Cleanly
  <2>2. i \in Ours(at[e])
    OBVIOUS
  <2> HIDE DEF at
  <2>3. at[e][i].root = r /\ r /= NoRoot
    BY <2>1, <2>2, OneHookEach
  <2>4. r \in {Core} \union manifest.roots
    BY <2>1, <2>3, FitsFinds DEF Fitting
  <2> QED
    BY <2>3, <2>4 DEF at
<1>5. InstallTakesUp
  BY DEF Ledger, Course, Clean, InstallTakesUp
<1>6. InstalledIsHealthy
  <2> SUFFICES ASSUME cmd.kind = "install", NEW h \in Clean, h \in cmd.done
               PROVE  ~RegistrationProblem(h, cmd.root)
    BY <1>0 DEF InstalledIsHealthy, Clean
  <2> DEFINE at == config[h].at
             root == cmd.root
             entry == manifest.entries[h]
  <2>1. PICK r \in Paths :
          /\ config[h].ok /\ at \in Files /\ RunsFrom(at, h, r) /\ h \in Harnesses
          /\ Reported(h, r, entry)
    BY Cleanly
  <2>2. r = root /\ entry.state = "installed" /\ Says(entry.def, h, root)
    BY <2>1 DEF Reported
  <2>3. root \in Roots /\ root /= NoRoot /\ HookEvents[h] \subseteq Events
    BY <2>1, CommandTypes, EventsAreFinite, InstallerAssumption DEF Base
  <2>4. Recorded(entry) = HookEvents[h] /\ \A e \in HookEvents[h] : entry.def[e] = root
    BY <2>2, <2>3 DEF Recorded, Says
  <2> DEFINE S == {root}
  <2>5. S \in SUBSET Roots /\ r \in S
    BY <2>2, <2>3
  <2> HIDE DEF at, entry, root, S
  <2>6. \A e \in HookEvents[h] : Cardinality(Hits(at[e], S)) = 1
    <3> TAKE e \in HookEvents[h]
    <3>1. e \in Events
      BY <2>3
    <3> QED
      BY <2>1, <2>5, <3>1, RunsHits
  <2>7. \A e \in Recorded(entry) :
          entry.def[e] = root /\ Cardinality(Hits(at[e], {entry.def[e]})) = 1
    BY <2>4, <2>6 DEF S
  <2> QED
    BY <2>1, <2>2, <2>7 DEF RegistrationProblem, at, entry, root
<1>7. UninstallLeavesNothing
  <2> SUFFICES ASSUME ~(user.past = "legacy" /\ ~user.calm), cmd.kind = "uninstall",
                      NEW h \in Clean, h \in cmd.done, NEW e \in Events
               PROVE  Ours(config[h].at[e]) = {}
    BY <1>0 DEF UninstallLeavesNothing, NoScriptOutlivesUninstall, Clean
  <2> DEFINE at == config[h].at
  <2>1. PICK r \in Paths :
          /\ at \in Files /\ RunsFrom(at, h, r) /\ h \in Harnesses
          /\ Reported(h, r, manifest.entries[h])
    BY Cleanly
  <2>2. r = NoRoot
    BY <2>1 DEF Reported
  <2> HIDE DEF at
  <2>3. Ours(at[e]) = {}
    BY <2>1, <2>2, OneHookEach
  <2> QED
    BY <2>3 DEF at
<1> QED
  BY <1>1, <1>2, <1>3, <1>4, <1>5, <1>6, <1>7 DEF InstallerInv

\* `samurai install` and `uninstall`, for any harnesses, paths, users, kills and
\* writes that fail, until two commands run at once: no hook of the user is lost,
\* no hook runs twice, every hook can be found again, an install takes up whatever
\* an interrupted command left and leaves what doctor finds in order, and an
\* uninstall leaves nothing.
THEOREM InstallerIsSound == InstallerSpec => []InstallerInv
  BY InstallerInduction, InstallerFollows, PTL
=============================================================================
