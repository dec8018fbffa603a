------------------------------- MODULE Installer -------------------------------
(***************************************************************************)
(* `citable install`, `update` and `uninstall` of one target               *)
(* (src/installer/index.js): the skill directory and the directory of      *)
(* agent profiles, each with a manifest that lists its files and their     *)
(* hashes.  A directory is replaced by building a stage beside it, renaming*)
(* the old one to a backup and the stage into place.  Any call may fail,   *)
(* the process may be killed between two, and the user edits the files.    *)
(*                                                                         *)
(* One command runs at a time.  Stages are beside the directories and are  *)
(* read by no command: only what is renamed into place is modelled.        *)
(***************************************************************************)
EXTENDS Naturals, FiniteSets

CONSTANTS
  Versions,   \* releases of the package
  Files,      \* relative paths inside a directory
  Entry,      \* SKILL.md
  Payload,    \* the files of each release, per directory
  MaxRuns,    \* BOUND: commands
  MaxEdits    \* BOUND: edits of the user

Slots  == {"skill", "profiles"}
Marks  == {"missing", "none", "torn"}
Traces == {"absent", "user"}

ASSUME PayloadAssumption ==
  /\ Entry \in Files
  /\ Payload \in [Slots -> [Versions -> SUBSET Files]]
  /\ \A v \in Versions : Entry \in Payload["skill"][v]
  /\ Versions \cap (Marks \cup Traces) = {}
  /\ Versions # {}
  /\ MaxRuns \in Nat /\ MaxEdits \in Nat

\* A directory: its manifest (missing: there is no directory; none: no
\* manifest.json; torn: it does not parse; or that of a release), and each
\* file's content: that of a release, or the user's.
Directory == [man : Versions \cup Marks, files : [Files -> Versions \cup Traces]]

NoFiles == [f \in Files |-> "absent"]
NoDir   == [man |-> "missing", files |-> NoFiles]

Whole(s, v) == [man |-> v,
                files |-> [f \in Files |-> IF f \in Payload[s][v] THEN v ELSE "absent"]]

Marked(d, m)   == [man |-> m, files |-> d.files]
Put(d, f, what) == [man |-> d.man, files |-> [d.files EXCEPT ![f] = what]]

\* Mutant: the stage is made over a copy of what is installed.
Replacement_OverOld(s, v, d) ==
  [man |-> v, files |-> [f \in Files |-> IF f \in Payload[s][v] THEN v ELSE d.files[f]]]

\* What is staged to replace directory d: the release alone.
Replacement(s, v, d) == Whole(s, v)

Commands == {"install", "update", "uninstall"}
Actions  == {"none", "install", "update", "replace", "repair", "refuse",
             "already current", "not installed"}
Results  == {"none", "installed", "updated", "already current", "skipped",
             "failed", "removed", "killed"}
Pcs      == {"idle", "stage", "backup", "swap", "check", "wipe", "restore",
             "unlink", "unmark", "rmdir"}

VARIABLES
  dir,      \* the two directories
  backup,   \* the backup each has from the last command
  kept,     \* backups of earlier commands: none is ever removed
  release,  \* the release of the package that runs
  pc, at,   \* the step of the running command, and the directory it is at
  command, plan, swapped,
  result,   \* what the last command reported
  start,    \* each directory when the last command began, the user's edits included
  faulty,   \* a step of the rollback failed
  mine,     \* files the user wrote and no uninstall removed
  runs, edits

vars == <<dir, backup, kept, release, pc, at, command, plan, swapped, result,
          start, faulty, mine, runs, edits>>

TypeOK ==
  /\ dir \in [Slots -> Directory] /\ backup \in [Slots -> Directory]
  /\ kept \in [Slots -> SUBSET Directory] /\ start \in [Slots -> Directory]
  /\ release \in Versions
  /\ pc \in Pcs /\ at \in Slots
  /\ command \in Commands /\ plan \in [Slots -> Actions]
  /\ swapped \in BOOLEAN /\ faulty \in BOOLEAN
  /\ result \in Results
  /\ mine \in [Slots -> SUBSET Files]
  /\ runs \in 0..MaxRuns /\ edits \in 0..MaxEdits

\* Nothing is installed, or what an earlier install of some release left.
Init ==
  /\ \/ dir = [s \in Slots |-> NoDir]
     \/ \E v \in Versions : dir = [s \in Slots |-> Whole(s, v)]
  /\ backup = [s \in Slots |-> NoDir]
  /\ kept = [s \in Slots |-> {}] /\ start = dir
  /\ release \in Versions
  /\ pc = "idle" /\ at = "skill"
  /\ command = "install" /\ plan = [s \in Slots |-> "none"]
  /\ swapped = FALSE /\ faulty = FALSE
  /\ result = "none"
  /\ mine = [s \in Slots |-> {}]
  /\ runs = 0 /\ edits = 0

-----------------------------------------------------------------------------
Exists(d)  == d.man # "missing"
Managed(d) == d.man \in Versions
Present(d) == {f \in Files : d.files[f] # "absent"}

\* inspectInstallation
State(s, d) ==
  IF ~Exists(d) THEN "not installed"
  ELSE IF d.man = "none" THEN IF d.files[Entry] # "absent" THEN "unmanaged" ELSE "partial"
  ELSE IF d.man = "torn" THEN "corrupt"
  ELSE IF ~(Payload[s][d.man] \subseteq Present(d)) THEN "partial"
  ELSE IF d.files # Whole(s, d.man).files THEN "locally modified"
  ELSE IF d.man = release THEN "current" ELSE "update available"

\* plannedAction
Planned(cmd, state, force) ==
  IF state = "current" THEN "already current"
  ELSE IF state = "update available" THEN "update"
  ELSE IF state = "not installed" THEN IF cmd = "install" THEN "install" ELSE "not installed"
  ELSE IF ~force THEN "refuse"
  ELSE IF cmd = "install" /\ state \in {"partial", "corrupt"} THEN "repair"
  ELSE "replace"

\* A command begins; the backups of the one before stay where they are.
Open(cmd) ==
  /\ pc = "idle" /\ runs < MaxRuns
  /\ runs' = runs + 1
  /\ command' = cmd
  /\ kept' = [s \in Slots |-> kept[s] \cup ({backup[s]} \ {NoDir})]
  /\ backup' = [s \in Slots |-> NoDir]
  /\ start' = dir
  /\ swapped' = FALSE /\ faulty' = FALSE

Stay(r) == pc' = "idle" /\ result' = r /\ UNCHANGED at

\* installOrUpdateTarget up to the staging.
Begin(cmd, force) ==
  LET p == [s \in Slots |-> Planned(cmd, State(s, dir[s]), force)] IN
  /\ Open(cmd)
  /\ plan' = p
  /\ IF \A s \in Slots : p[s] = "already current" THEN Stay("already current")
     ELSE IF p["skill"] = "not installed" THEN Stay("skipped")
     ELSE IF p["skill"] = "refuse" \/ p["profiles"] = "refuse" THEN Stay("failed")
     ELSE /\ pc' = "stage"
          /\ at' = IF p["skill"] = "already current" THEN "profiles" ELSE "skill"
          /\ UNCHANGED result
  /\ UNCHANGED <<dir, release, mine, edits>>

Step(from, to) == pc = from /\ pc' = to
Same == UNCHANGED <<kept, release, command, plan, start, mine, runs, edits>>

Stage ==
  /\ Step("stage", "backup")
  /\ UNCHANGED <<dir, backup, at, swapped, result, faulty>> /\ Same

\* Mutant: the old directory is removed, not renamed.
Backup_Removes ==
  /\ Step("backup", "swap")
  /\ dir' = [dir EXCEPT ![at] = NoDir]
  /\ UNCHANGED <<backup, at, swapped, result, faulty>> /\ Same

Backup ==
  /\ Step("backup", "swap")
  /\ IF Exists(dir[at])
       THEN backup' = [backup EXCEPT ![at] = dir[at]] /\ dir' = [dir EXCEPT ![at] = NoDir]
       ELSE UNCHANGED <<dir, backup>>
  /\ UNCHANGED <<at, swapped, result, faulty>> /\ Same

\* Mutant: a rollback does not know that the skill was swapped in.
Swap_Unmarked ==
  /\ Step("swap", "check")
  /\ dir' = [dir EXCEPT ![at] = Replacement(at, release, start[at])]
  /\ UNCHANGED <<backup, at, swapped, result, faulty>> /\ Same

Swap ==
  /\ Step("swap", "check")
  /\ dir' = [dir EXCEPT ![at] = Replacement(at, release, start[at])]
  /\ swapped' = (swapped \/ at = "skill")
  /\ UNCHANGED <<backup, at, result, faulty>> /\ Same

\* The replaced directory is inspected again; after the skill come the profiles.
Check ==
  /\ pc = "check"
  /\ State(at, dir[at]) = "current"
  /\ IF at = "skill" /\ plan["profiles"] # "already current"
       THEN pc' = "stage" /\ at' = "profiles" /\ UNCHANGED result
       ELSE Stay(IF plan["skill"] \in {"update", "already current"} THEN "updated"
                 ELSE "installed")
  /\ UNCHANGED <<dir, backup, swapped, faulty>> /\ Same

(***************************************************************************)
(* A call throws.  The catch of installAgentProfiles removes its directory *)
(* whether or not it was replaced; that of the skill only if it was.       *)
(***************************************************************************)
UndoSkill == at' = "skill" /\ pc' = IF swapped THEN "wipe" ELSE "restore"

Fail ==
  /\ pc \in {"stage", "backup", "swap", "check"}
  /\ IF at = "profiles" THEN pc' = "wipe" /\ UNCHANGED at ELSE UndoSkill
  /\ UNCHANGED <<dir, backup, swapped, result, faulty>> /\ Same

\* What a removal that does not finish may leave of a directory.
Remains(d) ==
  {r \in [man : {d.man, "none"}, files : [Files -> Versions \cup Traces]] :
     \A f \in Files : r.files[f] \in {d.files[f], "absent"}}

\* safeRm: a failure is swallowed.
Wipe ==
  /\ Step("wipe", "restore")
  /\ IF Exists(dir[at])
       THEN \/ dir' = [dir EXCEPT ![at] = NoDir] /\ UNCHANGED faulty
            \/ /\ \E d \in Remains(dir[at]) : dir' = [dir EXCEPT ![at] = d]
               /\ faulty' = TRUE
       ELSE UNCHANGED <<dir, faulty>>
  /\ UNCHANGED <<backup, at, swapped, result>> /\ Same

\* A directory can be renamed to a name that is free, or held by an empty
\* directory; for the skill the code asks that it be free.
Vacant(s) == ~Exists(dir[s]) \/ (s = "profiles" /\ dir[s] = Marked(NoDir, "none"))

\* The backup is renamed back; where a directory is in its way, or when the
\* rename fails, it stays a backup.
Restore ==
  /\ pc = "restore"
  /\ \/ /\ Exists(backup[at]) /\ Vacant(at)
        /\ dir' = [dir EXCEPT ![at] = backup[at]]
        /\ backup' = [backup EXCEPT ![at] = NoDir]
        /\ UNCHANGED faulty
     \/ Exists(backup[at]) /\ faulty' = TRUE /\ UNCHANGED <<dir, backup>>
     \/ ~Exists(backup[at]) /\ UNCHANGED <<dir, backup, faulty>>
  /\ IF at = "profiles" THEN UndoSkill /\ UNCHANGED result ELSE Stay("failed")
  /\ UNCHANGED swapped /\ Same

-----------------------------------------------------------------------------
(***************************************************************************)
(* uninstallTarget: the profiles first, if they are managed, then the      *)
(* skill: the listed files, the manifest, the directory if it is empty.    *)
(***************************************************************************)
BeginUninstall ==
  /\ Open("uninstall")
  /\ IF ~Exists(dir["skill"]) THEN Stay("skipped")
     ELSE IF ~Managed(dir["skill"]) THEN Stay("failed")
     ELSE /\ pc' = "unlink"
          /\ at' = IF Managed(dir["profiles"]) THEN "profiles" ELSE "skill"
          /\ UNCHANGED result
  /\ UNCHANGED <<dir, release, plan, mine, edits>>

Listed(s) == Payload[s][dir[s].man]

Quiet == UNCHANGED <<backup, kept, release, command, plan, swapped, start, faulty, runs, edits>>

Unlink ==
  /\ pc = "unlink"
  /\ \E f \in Listed(at) \cap Present(dir[at]) :
       /\ dir' = [dir EXCEPT ![at] = Put(@, f, "absent")]
       /\ mine' = [mine EXCEPT ![at] = @ \ {f}]
  /\ UNCHANGED <<pc, at, result>> /\ Quiet

Unmark ==
  /\ Step("unlink", "rmdir")
  /\ Listed(at) \cap Present(dir[at]) = {}
  /\ dir' = [dir EXCEPT ![at] = Marked(@, "none")]
  /\ UNCHANGED <<at, result, mine>> /\ Quiet

\* Files the manifest did not list keep the directory.
RemoveEmpty ==
  /\ pc = "rmdir"
  /\ dir' = IF Present(dir[at]) = {} THEN [dir EXCEPT ![at] = NoDir] ELSE dir
  /\ IF at = "profiles" THEN pc' = "unlink" /\ at' = "skill" /\ UNCHANGED result
     ELSE Stay("removed")
  /\ UNCHANGED mine /\ Quiet

FailUninstall ==
  /\ pc \in {"unlink", "rmdir"}
  /\ pc = "rmdir" => at = "profiles"
  /\ Stay("failed")
  /\ UNCHANGED <<dir, mine>> /\ Quiet

-----------------------------------------------------------------------------
\* The process is killed; a removal may be half done.
Crash ==
  /\ pc # "idle"
  /\ Stay("killed")
  /\ IF pc = "wipe" /\ Exists(dir[at])
       THEN \E d \in Remains(dir[at]) : dir' = [dir EXCEPT ![at] = d]
       ELSE UNCHANGED dir
  /\ UNCHANGED mine /\ Quiet

\* The user adds or changes a file, also between the inspection of a directory
\* and its replacement.
Edit(s, f) ==
  /\ edits < MaxEdits /\ edits' = edits + 1
  /\ pc = "idle" \/ (pc \in {"stage", "backup"} /\ at = s)
  /\ dir' = [dir EXCEPT ![s] =
       Put(Marked(@, IF Exists(@) THEN @.man ELSE "none"), f, "user")]
  /\ start' = [start EXCEPT ![s] = dir'[s]]
  /\ mine' = [mine EXCEPT ![s] = @ \cup {f}]
  /\ UNCHANGED <<backup, kept, release, pc, at, command, plan, swapped, result,
                 faulty, runs>>

\* ... or breaks a manifest.
Tear(s) ==
  /\ edits < MaxEdits /\ edits' = edits + 1
  /\ pc = "idle" /\ Managed(dir[s])
  /\ dir' = [dir EXCEPT ![s] = Marked(@, "torn")]
  /\ start' = [start EXCEPT ![s] = dir'[s]]
  /\ UNCHANGED <<backup, kept, release, pc, at, command, plan, swapped, result,
                 faulty, mine, runs>>

\* The package is upgraded or downgraded between two commands.
Upgrade(v) ==
  /\ pc = "idle"
  /\ release' = v
  /\ UNCHANGED <<dir, backup, kept, pc, at, command, plan, swapped, result, start,
                 faulty, mine, runs, edits>>

Next ==
  \/ \E cmd \in {"install", "update"}, force \in BOOLEAN : Begin(cmd, force)
  \/ Stage \/ Backup \/ Swap \/ Check \/ Fail \/ Wipe \/ Restore
  \/ BeginUninstall \/ Unlink \/ Unmark \/ RemoveEmpty \/ FailUninstall
  \/ Crash
  \/ \E s \in Slots, f \in Files : Edit(s, f)
  \/ \E s \in Slots : Tear(s)
  \/ \E v \in Versions : Upgrade(v)

Spec == Init /\ [][Next]_vars

-----------------------------------------------------------------------------
(***************************************************************************)
(* A directory never mixes two releases, and its manifest is that of the   *)
(* release its files are from: "their manifests must remain an atomic      *)
(* managed unit" (README.md:148), whatever fails on the way.               *)
(***************************************************************************)
OneRelease(d) ==
  \E v \in Versions :
    /\ \A f \in Files : d.files[f] \in {v} \cup Traces
    /\ d.man \in Versions => d.man = v

NeverMixed == \A s \in Slots : OneRelease(dir[s])

(***************************************************************************)
(* What the user wrote into the skill directory, before a command or while *)
(* it prepares the replacement, is there or in a backup, with --force and  *)
(* through any failure or crash, until an uninstall removes that file.     *)
(***************************************************************************)
UserWorkKept ==
  \A f \in mine["skill"] :
    \E d \in {dir["skill"], backup["skill"]} \cup kept["skill"] : d.files[f] = "user"

(***************************************************************************)
(* An install or update that reports a failure, no step of its rollback    *)
(* having failed, left the skill directory as it was.                      *)
(***************************************************************************)
Undone(s) ==
  pc = "idle" /\ result = "failed" /\ command # "uninstall" /\ ~faulty => dir[s] = start[s]

SkillRestored == Undone("skill")

(***************************************************************************)
(* The same of the profiles: "atomic target replacement" (CHANGELOG.md:    *)
(* 1084) with the "same managed-copy boundaries" (README.md:153).          *)
(***************************************************************************)
ProfilesRestored == Undone("profiles")

===============================================================================
