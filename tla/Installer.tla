------------------------------ MODULE Installer ------------------------------
(***************************************************************************)
(* `samurai install` and `samurai uninstall` (bin/samurai): hooks written  *)
(* into the configuration files of other programs, a manifest of what was  *)
(* written, and the recovery of what an interrupted command left.          *)
(*                                                                         *)
(* $SAMURAI_HOME/.lock lets one command run at a time, and the kernel      *)
(* frees it when the command dies; the user's editors take no lock.  An    *)
(* uninstall removes the lock file with the directory: the model follows   *)
(* the commands until, over that, two of them run at once.                 *)
(*                                                                         *)
(* Abstractions.                                                           *)
(*  - A hook group is the user's or runs the scripts of one install path,  *)
(*    and is then exactly what Samurai writes for that path or not.        *)
(*  - Which harnesses an install works on (detected, selected, remembered, *)
(*    not covered by a dispatcher) is any set of them.                     *)
(*  - Backups, file modes and Samurai's own settings.json, which nobody    *)
(*    else writes, are left out.  Reads next to each other are one step.   *)
(*  - A config that cannot be read for a while is one that cannot be       *)
(*    parsed for a while (Breaks).  A command that gives up on its own     *)
(*    files as it starts is one that dies there.                           *)
(***************************************************************************)
EXTENDS Naturals, FiniteSets, SequencesExt

CONSTANTS
  HarnessOrder,  \* HARNESSES
  HookEvents,    \* HookEvents[h]: the events Samurai writes a group for
  Approving,     \* harnesses that approve a hook by its position: codex
  Inspected,     \* an unrecorded config that cannot be read fails the
                 \* uninstall: claude
  Roots, Core,   \* install paths; Core is $SAMURAI_HOME/core
  Unfit,         \* harnesses and install paths that an install refuses: gemini
                 \* and a path with "$" in it
  NoRoot,
  MaxGroups,     \* bound: the groups of an event
  Budgets        \* bounds: the edits, commands and faults of a behaviour;
                 \* a fault is a kill or a write that fails

Harnesses == ToSet(HarnessOrder)
Pasts == {"none", "legacy", "installed"}

ASSUME InstallerAssumption ==
  /\ HarnessOrder \in Seq(Harnesses) /\ IsInjective(HarnessOrder)
  /\ \A h \in Harnesses : IsFiniteSet(HookEvents[h]) /\ HookEvents[h] /= {}
  /\ Core \in Roots /\ NoRoot \notin Roots
  /\ MaxGroups \in Nat /\ Unfit \subseteq Harnesses \X Roots
  /\ Budgets \subseteq [edits : Nat, commands : Nat, faults : Nat]

VARIABLES
  config,    \* config[h]: can the file be parsed, and its groups by event
  manifest,  \* install.json
  cmd,       \* the command that runs
  user,      \* what the user did, and from what: [past, hers, touched, raced,
             \* calm]; calm until the first edit or fault
  left,      \* what is left of edits, commands and faults
  lock       \* which file is locked: the one at .lock, one that was unlinked
             \* ("orphan"), or both, by two commands ("shared")

installerVars == <<config, manifest, cmd, user, left, lock>>

Events == UNION {HookEvents[h] : h \in Harnesses}
Foreign == [root |-> NoRoot, exact |-> FALSE]
Hook(r) == [root |-> r, exact |-> TRUE]
Group == [root : Roots, exact : BOOLEAN] \union {Foreign}
Ours(groups) == {i \in DOMAIN groups : groups[i] /= Foreign}

\* A record of the manifest: for each event the path whose group was written
\* and those of the groups it may still find there.
Entry == [state : {"none", "pending", "installed", "removing"},
          def : [Events -> Roots \union {NoRoot}],
          prev : [Events -> SUBSET Roots],
          prior : SUBSET [def : [Events -> Roots \union {NoRoot}],
                          prev : [Events -> SUBSET Roots]]]
NoEntry == [state |-> "none", def |-> [e \in Events |-> NoRoot],
            prev |-> [e \in Events |-> {}], prior |-> {}]
NoManifest == [roots |-> {}, entries |-> [h \in Harnesses |-> NoEntry]]

Recorded(entry) == {e \in Events : entry.def[e] /= NoRoot}
Defs(entry, e) == {entry.def[e]} \union entry.prev[e]
Scripts(entry) == UNION {Defs(entry, e) : e \in Recorded(entry)}

Hits(groups, roots) ==
  {i \in DOMAIN groups : groups[i].exact /\ groups[i].root \in roots}

NoCommand ==
  [kind |-> "none", root |-> Core, force |-> FALSE, at |-> "over",
   todo |-> << >>, man |-> NoManifest, entry |-> NoEntry, remove |-> {},
   raw |-> << >>, again |-> FALSE, failed |-> {}, done |-> {}]

\* Samurai was never here, or was installed from Core, by this version or by one
\* that kept no manifest.
InstallerInit ==
  /\ \E past \in Pasts :
       /\ config = [h \in Harnesses |->
            [ok |-> TRUE,
             at |-> [e \in Events |->
                       IF past = "none" \/ e \notin HookEvents[h] THEN << >>
                       ELSE <<Hook(Core)>>]]]
       /\ manifest =
            IF past /= "installed" THEN NoManifest
            ELSE [roots |-> {Core},
                  entries |-> [h \in Harnesses |->
                    [NoEntry EXCEPT
                       !.state = "installed",
                       !.def = [e \in Events |->
                         IF e \in HookEvents[h] THEN Core ELSE NoRoot]]]]
       /\ user = [past |-> past, hers |-> [h \in Harnesses |-> 0],
                  touched |-> {}, raced |-> {}, calm |-> TRUE]
  /\ cmd = NoCommand
  /\ left \in Budgets /\ lock = "file"

-----------------------------------------------------------------------------
\* _recover_entry: what to make of an entry an interrupted command left.
Recovered(entry, h, installing) ==
  LET found == {e \in Recorded(entry) :
                  Hits(config[h].at[e], {entry.def[e]}) /= {}}
      whole == found = Recorded(entry)
      kept == [entry EXCEPT !.state = "installed", !.prior = {}]
  IN  CASE entry.state \in {"none", "installed"} \/ ~config[h].ok -> entry
        [] entry.state = "pending" /\ whole -> kept
        [] entry.state = "pending" /\ ~whole ->
             IF entry.prior = {} THEN NoEntry
             ELSE LET p == CHOOSE p \in entry.prior : TRUE
                  IN  [kept EXCEPT !.def = p.def, !.prev = p.prev]
        [] entry.state = "removing" /\ installing ->
             IF whole THEN kept ELSE NoEntry
        [] entry.state = "removing" /\ ~installing ->
             IF found = {} THEN NoEntry ELSE entry

\* _plan_install: where the group of an event is, by its record, or else as
\* an exact group an earlier Samurai wrote.
Known(man, root) == {root, Core} \union man.roots
Sought(entry, e, known) ==
  IF entry.def[e] = NoRoot THEN known ELSE Defs(entry, e)

PlanRefuses(at, h, entry, known) ==
  \E e \in HookEvents[h] :
    LET n == Cardinality(Hits(at[e], Sought(entry, e, known)))
    IN  n > 1 \/ (n = 0 /\ entry.def[e] /= NoRoot)

\* _apply_plan: the groups after it, and the records it leaves.
Applied(at, h, entry, known, root) ==
  [e \in Events |->
     LET hits == Hits(at[e], Sought(entry, e, known))
     IN  IF e \notin HookEvents[h] THEN at[e]
         ELSE IF hits = {} THEN Append(at[e], Hook(root))
         ELSE [i \in DOMAIN at[e] |-> IF i \in hits THEN Hook(root) ELSE at[e][i]]]

Records(at, h, entry, known, root, state) ==
  [state |-> state,
   def |-> [e \in Events |-> IF e \in HookEvents[h] THEN root ELSE NoRoot],
   prev |-> [e \in Events |->
     IF e \notin HookEvents[h] THEN {}
     ELSE entry.prev[e]
          \union ({at[e][i].root : i \in Hits(at[e], Sought(entry, e, known))}
                    \ {root})],
   prior |-> IF state = "pending" /\ entry.state /= "none"
             THEN {[def |-> entry.def, prev |-> entry.prev]} ELSE {}]

-----------------------------------------------------------------------------
\* What a command does to its copy of the manifest, and whether it saves it.
GoesOn(c, man, h, ok) ==
  cmd' = [c EXCEPT !.at = "next", !.todo = Tail(@), !.man = man,
                   !.done = IF ok THEN @ \union {h} ELSE @,
                   !.entry = NoEntry, !.remove = {}, !.raw = << >>,
                   !.again = FALSE]

Proceeds(c, man, saved, h, ok) ==
  /\ GoesOn(c, man, h, ok)
  /\ manifest' = IF saved THEN man ELSE manifest
  /\ UNCHANGED <<config, user, left>>

Fails(reason, man) ==
  Proceeds([cmd EXCEPT !.failed = @ \union {reason}], man, FALSE, Head(cmd.todo),
        FALSE)

\* A write raises OSError: the file on disk is as it was, the harness has failed,
\* and the copy of the manifest goes on to whatever is saved next.
Loses(man) ==
  /\ left.faults > 0
  /\ GoesOn([cmd EXCEPT !.failed = @ \union {"io"}], man, Head(cmd.todo), FALSE)
  /\ user' = [user EXCEPT !.calm = FALSE]
  /\ left' = [left EXCEPT !.faults = @ - 1]
  /\ UNCHANGED <<config, manifest>>

\* _save_manifest, and the harness is done.
SavesManifest(man) ==
  Proceeds(cmd, man, TRUE, Head(cmd.todo), TRUE) \/ Loses(man)

\* The write of Head(todo)'s file begins, after the manifest announced it.
Announces(entry, record, remove, man) ==
  LET announced == [man EXCEPT !.entries[Head(cmd.todo)] = record]
  IN  \/ Loses(announced)
      \/ /\ manifest' = announced
         /\ cmd' = [cmd EXCEPT !.at = "write", !.man = announced,
                               !.entry = entry, !.remove = remove]
         /\ UNCHANGED <<config, user, left>>

\* Any harnesses, in the order of HARNESSES.
Selections ==
  {s \in UNION {[1 .. n -> Harnesses] : n \in 0 .. Len(HarnessOrder)} :
     \A i, j \in DOMAIN s : i < j =>
       \E k, l \in DOMAIN HarnessOrder :
         k < l /\ s[i] = HarnessOrder[k] /\ s[j] = HarnessOrder[l]}

StartInstall(root, targets) ==
  /\ cmd.at = "over" /\ left.commands > 0
  /\ LET man == [roots |-> manifest.roots \union {root},
                 entries |-> [h \in Harnesses |->
                                Recovered(manifest.entries[h], h, TRUE)]]
     IN  /\ manifest' = man
         /\ cmd' = [NoCommand EXCEPT
                      !.kind = "install", !.root = root, !.man = man, !.at = "next",
                      !.todo = targets]
  /\ left' = [left EXCEPT !.commands = @ - 1]
  /\ UNCHANGED <<config, user>>

\* _install_harness up to the announcement.
InstallBegins ==
  /\ cmd.kind = "install" /\ cmd.at = "next" /\ cmd.todo /= << >>
  /\ LET h == Head(cmd.todo)
         entry == cmd.man.entries[h]
         at == config[h].at
         known == Known(cmd.man, cmd.root)
         record(state) == Records(at, h, entry, known, cmd.root, state)
     IN  IF <<h, cmd.root>> \in Unfit THEN Fails("unfit", cmd.man)
         ELSE IF ~config[h].ok \/ PlanRefuses(at, h, entry, known)
         THEN Fails("refused", cmd.man)
         ELSE IF Applied(at, h, entry, known, cmd.root) = at
         THEN SavesManifest([cmd.man EXCEPT !.entries[h] = record("installed")])
         ELSE Announces(entry, record("pending"), {}, cmd.man)

StartUninstall(root, force) ==
  /\ cmd.at = "over" /\ left.commands > 0
  /\ cmd' = [NoCommand EXCEPT
               !.kind = "uninstall", !.root = root, !.force = force,
               !.man = manifest, !.at = "next", !.todo = HarnessOrder]
  /\ left' = [left EXCEPT !.commands = @ - 1]
  /\ UNCHANGED <<config, manifest, user>>

\* _adopt_unrecorded: exact groups with no record.
Adoptable(h, known) ==
  {e \in HookEvents[h] : Hits(config[h].at[e], known) /= {}}
Ambiguous(h, known) ==
  \E e \in HookEvents[h] : Cardinality(Hits(config[h].at[e], known)) > 1
Adopted(h, known) ==
  IF Adoptable(h, known) = {} THEN NoEntry
  ELSE [NoEntry EXCEPT
          !.state = "installed",
          !.def = [e \in Events |->
                     IF e \in Adoptable(h, known)
                     THEN config[h].at[e][CHOOSE i \in Hits(config[h].at[e], known) :
                                            TRUE].root
                     ELSE NoRoot]]

\* _uninstall_harness: the events whose group can be removed, those it is
\* missing from, and what is left of the file without them.
Located(at, entry) ==
  {e \in Recorded(entry) : Cardinality(Hits(at[e], Defs(entry, e))) = 1}
Missing(at, entry) ==
  {e \in Recorded(entry) : Hits(at[e], Defs(entry, e)) = {}}
Without(at, entry, remove) ==
  [e \in Events |->
     IF e \notin remove THEN at[e]
     ELSE RemoveAt(at[e], CHOOSE i \in Hits(at[e], Defs(entry, e)) : TRUE)]
Reapproves(at, h, entry, remove) ==
  /\ h \in Approving /\ ~cmd.force
  /\ \E e \in remove : Len(at[e]) \notin Hits(at[e], Defs(entry, e))
StillRuns(at, entry) ==
  \E e \in Events : \E i \in DOMAIN at[e] : at[e][i].root \in Scripts(entry)

UninstallRefuses(h, entry) ==
  LET at == config[h].at
      remove == Located(at, entry)
  IN  \/ ~config[h].ok
      \/ Recorded(entry) /= remove \union Missing(at, entry)
      \/ Missing(at, entry) /= {} /\ ~cmd.force /\ entry.state /= "removing"
      \/ Reapproves(at, h, entry, remove)
      \/ StillRuns(Without(at, entry, remove), entry)

UninstallBegins ==
  /\ cmd.kind = "uninstall" /\ cmd.at = "next" /\ cmd.todo /= << >>
  /\ LET h == Head(cmd.todo)
         known == Known(cmd.man, cmd.root)
         old == cmd.man.entries[h]
         unseen == old.state = "none" /\ (~config[h].ok \/ Ambiguous(h, known))
         entry == IF old.state = "none" THEN Adopted(h, known)
                  ELSE Recovered(old, h, FALSE)
         man == [cmd.man EXCEPT !.entries[h] = entry]
         gone == [cmd.man EXCEPT !.entries[h] = NoEntry]
     IN  IF unseen
         THEN IF h \in Inspected THEN Fails("refused", cmd.man)
              ELSE Proceeds(cmd, cmd.man, FALSE, h, FALSE)
         ELSE IF entry.state = "none"
         THEN IF old.state = "none" THEN Proceeds(cmd, gone, FALSE, h, TRUE)
              ELSE SavesManifest(gone)
         ELSE IF UninstallRefuses(h, entry) THEN Fails("refused", man)
         ELSE IF Located(config[h].at, entry) = {} THEN SavesManifest(gone)
         ELSE Announces(entry, [entry EXCEPT !.state = "removing"],
                        Located(config[h].at, entry), man)

-----------------------------------------------------------------------------
\* _update_json_file.  What the file becomes depends on what was read.
MutateRefuses(at) ==
  LET h == Head(cmd.todo)
  IN  IF cmd.kind = "install"
      THEN PlanRefuses(at, h, cmd.entry, Known(cmd.man, cmd.root))
      ELSE \/ ~(cmd.remove \subseteq Located(at, cmd.entry))
           \/ Reapproves(at, h, cmd.entry, cmd.remove)
Mutated(at) ==
  IF cmd.kind = "install"
  THEN Applied(at, Head(cmd.todo), cmd.entry, Known(cmd.man, cmd.root), cmd.root)
  ELSE Without(at, cmd.entry, cmd.remove)

ReadsFile ==
  /\ cmd.at = "write"
  /\ LET file == config[Head(cmd.todo)]
     IN  IF ~file.ok \/ MutateRefuses(file.at) THEN Fails("refused", cmd.man)
         ELSE /\ cmd' = [cmd EXCEPT !.raw = file.at,
                           !.at = IF Mutated(file.at) = file.at THEN "settle"
                                  ELSE "check"]
              /\ UNCHANGED <<config, manifest, user, left>>

\* Mutant: the file is not read again.
UnchangedAsRead == TRUE

\* The file is read again just before it is replaced: a change in between is
\* taken up once.
Unchanged == config[Head(cmd.todo)] = [ok |-> TRUE, at |-> cmd.raw]

ChecksFile ==
  /\ cmd.at = "check"
  /\ IF ~Unchanged /\ cmd.again THEN Fails("busy", cmd.man)
     ELSE /\ cmd' = IF Unchanged THEN [cmd EXCEPT !.at = "replace"]
                    ELSE [cmd EXCEPT !.at = "write", !.again = TRUE]
          /\ UNCHANGED <<config, manifest, user, left>>

ReplacesFile ==
  /\ cmd.at = "replace"
  /\ config' = [config EXCEPT ![Head(cmd.todo)] =
                  [ok |-> TRUE, at |-> Mutated(cmd.raw)]]
  /\ cmd' = [cmd EXCEPT !.at = "settle"]
  /\ UNCHANGED <<manifest, user, left>>

\* _update_json_file raises OSError before the file is replaced: at a read, the
\* backup, the temporary file or the rename.
UpdateFails ==
  /\ cmd.at \in {"write", "check", "replace"}
  /\ Loses(cmd.man)

\* The manifest says the file is written, or forgets the harness.
Settles ==
  /\ cmd.at = "settle"
  /\ LET h == Head(cmd.todo)
         record == IF cmd.kind = "uninstall" THEN NoEntry
                   ELSE Records(cmd.raw, h, cmd.entry, Known(cmd.man, cmd.root),
                                cmd.root, "installed")
     IN  SavesManifest([cmd.man EXCEPT !.entries[h] = record])

Ends ==
  /\ cmd.at = "next" /\ cmd.todo = << >>
  /\ cmd' = [cmd EXCEPT !.at = "over", !.man = NoManifest]
  /\ UNCHANGED <<config, manifest, user, left>>

\* _remove_state: an uninstall that met no failure removes $SAMURAI_HOME, unless
\* told to keep it or the license in it cannot be saved.  rmtree takes .lock,
\* which is locked, and may fail before or after install.json.
RemovesHome ==
  /\ cmd.kind = "uninstall" /\ cmd.at = "next" /\ cmd.todo = << >>
  /\ cmd.failed = {}
  /\ cmd' = [cmd EXCEPT !.at = "over", !.man = NoManifest]
  /\ manifest' \in {manifest, NoManifest}
  /\ lock' = "orphan"
  /\ UNCHANGED <<config, user, left>>

\* A command starts and makes a .lock of its own, while rmtree still empties the
\* directory or a command that waited for the unlinked file holds that one.
Overlaps ==
  /\ lock = "orphan" /\ left.commands > 0
  /\ lock' = "shared"
  /\ left' = [left EXCEPT !.commands = @ - 1]
  /\ UNCHANGED <<config, manifest, cmd, user>>

CommandDies ==
  /\ cmd.at /= "over" /\ left.faults > 0
  /\ cmd' = NoCommand
  /\ left' = [left EXCEPT !.faults = @ - 1]
  /\ user' = [user EXCEPT !.calm = FALSE]
  /\ UNCHANGED <<config, manifest>>

-----------------------------------------------------------------------------
\* The user's editor.
Edits(h, file, history) ==
  /\ left.edits > 0
  /\ config' = [config EXCEPT ![h] = file]
  /\ user' = [history EXCEPT
                !.calm = FALSE,
                !.raced = IF cmd.at = "replace" /\ Head(cmd.todo) = h
                          THEN @ \union {h} ELSE @]
  /\ left' = [left EXCEPT !.edits = @ - 1]
  /\ UNCHANGED <<manifest, cmd>>

AddsHook(h, e) ==
  /\ config[h].ok /\ Len(config[h].at[e]) < MaxGroups
  /\ \E groups \in {Append(config[h].at[e], Foreign), <<Foreign>> \o config[h].at[e]} :
       Edits(h, [config[h] EXCEPT !.at[e] = groups],
             [user EXCEPT !.hers[h] = @ + 1])

\* The user deletes, edits or copies one of Samurai's groups.
Touches(h, e) ==
  \E i \in Ours(config[h].at[e]) :
    \E groups \in {RemoveAt(config[h].at[e], i),
                   [config[h].at[e] EXCEPT ![i].exact = FALSE],
                   Append(config[h].at[e], config[h].at[e][i])} :
      /\ Len(groups) <= MaxGroups
      /\ Edits(h, [config[h] EXCEPT !.at[e] = groups],
               [user EXCEPT !.touched = @ \union {h}])

\* The file stops being one Samurai can read and parse, or becomes one again.
Breaks(h) == Edits(h, [config[h] EXCEPT !.ok = ~@],
                   [user EXCEPT !.touched = @ \union {h}])

InstallerStep ==
  \/ \E r \in Roots, s \in Selections : StartInstall(r, s)
  \/ \E r \in Roots, force \in BOOLEAN : StartUninstall(r, force)
  \/ InstallBegins \/ UninstallBegins
  \/ ReadsFile \/ ChecksFile \/ ReplacesFile \/ UpdateFails \/ Settles
  \/ Ends \/ CommandDies
  \/ \E h \in Harnesses, e \in Events : AddsHook(h, e) \/ Touches(h, e)
  \/ \E h \in Harnesses : Breaks(h)

\* What two commands do at once is not followed.
InstallerNext ==
  /\ lock /= "shared"
  /\ RemovesHome \/ Overlaps \/ (InstallerStep /\ UNCHANGED lock)

InstallerSpec == InstallerInit /\ [][InstallerNext]_installerVars

-----------------------------------------------------------------------------
InstallerTypeOK ==
  /\ config \in [Harnesses -> [ok : BOOLEAN, at : [Events -> Seq(Group)]]]
  /\ manifest.roots \subseteq Roots
  /\ manifest.entries \in [Harnesses -> Entry]
  /\ cmd.kind \in {"none", "install", "uninstall"}
  /\ cmd.at \in {"next", "write", "check", "replace", "settle", "over"}
  /\ user.past \in Pasts
  /\ user.touched \subseteq Harnesses /\ user.raced \subseteq Harnesses
  /\ lock \in {"file", "orphan", "shared"}

\* No hook of the user is lost, whatever dies or fails when, except to a write that
\* races the rename itself (_update_json_file names that gap).
UserHooksStay ==
  \A h \in Harnesses \ user.raced :
    user.hers[h] = Cardinality({x \in Events \X (1 .. MaxGroups + 1) :
                      x[2] \in DOMAIN config[h].at[x[1]] \ Ours(config[h].at[x[1]])})

\* Samurai never registers a hook twice in a file whose Samurai groups only
\* Samurai wrote: not after a crash, a failed write, an upgrade, a move or a lost
\* record.
NoHookRunsTwice ==
  \A h \in Harnesses \ (user.touched \union user.raced), e \in Events :
    Cardinality(Ours(config[h].at[e])) <= 1

\* Every Samurai group can be found again by an uninstall from any path: the
\* paths are on disk before a config is written, until the last hook is gone.
HooksAreFindable ==
  \A h \in Harnesses \ (user.touched \union user.raced), e \in Events :
    \A i \in Ours(config[h].at[e]) :
      config[h].at[e][i].root \in {Core} \union manifest.roots

\* Nothing but the user makes an install refuse a config: whatever an interrupted
\* command left behind, the next one takes up.
InstallTakesUp ==
  cmd.kind = "install" /\ "refused" \in cmd.failed
    => user.touched \union user.raced /= {}

\* _registration_problem: what samurai doctor finds wrong with a harness.
RegistrationProblem(h, root) ==
  LET entry == manifest.entries[h]
  IN  \/ entry.state /= "installed"
      \/ ~config[h].ok
      \/ \E e \in Recorded(entry) :
           \/ entry.def[e] /= root
           \/ Cardinality(Hits(config[h].at[e], {entry.def[e]})) /= 1

\* What an install reported as done, doctor finds in order.
InstalledIsHealthy ==
  cmd.kind = "install" /\ cmd.at = "over" =>
    \A h \in cmd.done \ (user.touched \union user.raced) :
      ~RegistrationProblem(h, cmd.root)

\* When an uninstall has removed $SAMURAI_HOME, no config that only Samurai wrote
\* runs a script of Samurai any more.
NoScriptOutlivesUninstall ==
  cmd.kind = "uninstall" /\ cmd.at = "over" /\ manifest = NoManifest =>
    \A h \in cmd.done \ (user.touched \union user.raced), e \in Events :
      Ours(config[h].at[e]) = {}

\* That holds of every history but one: over hooks without a record, an install
\* is killed, fails to write or is outrun by an editor between the manifest and
\* the config.
UninstallLeavesNothing ==
  \/ user.past = "legacy" /\ ~user.calm
  \/ NoScriptOutlivesUninstall

\* The installer's safety properties together.  "Serialize Samurai's own writers on
\* $SAMURAI_HOME/.lock" (:595) is not among them: lock = "shared" is reachable, and
\* from there on nothing is claimed.
InstallerInv ==
  /\ InstallerTypeOK /\ UserHooksStay /\ NoHookRunsTwice /\ HooksAreFindable
  /\ InstallTakesUp /\ InstalledIsHealthy /\ UninstallLeavesNothing
=============================================================================
