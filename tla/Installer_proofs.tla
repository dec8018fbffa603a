--------------------------- MODULE Installer_proofs ---------------------------
(***************************************************************************)
(* Proofs about Installer: types, and that no directory ever mixes two     *)
(* releases.  The invariant also speaks of the backups, which a rollback   *)
(* makes directories again.                                                *)
(***************************************************************************)
EXTENDS Installer, TLAPS

Sound(d) == d \in Directory /\ OneRelease(d)

DirsSound == /\ dir \in [Slots -> Directory] /\ backup \in [Slots -> Directory]
             /\ \A s \in Slots : OneRelease(dir[s]) /\ OneRelease(backup[s])

\* A release, as the bundle has it, is sound.
LEMMA WholeSound ==
  ASSUME NEW s \in Slots, NEW v \in Versions
  PROVE  Sound(Whole(s, v))
<1>1. Whole(s, v) \in Directory
  BY DEF Whole, Directory, Traces
<1>2. OneRelease(Whole(s, v))
  BY PayloadAssumption DEF OneRelease, Whole, Traces
<1> QED BY <1>1, <1>2 DEF Sound

\* So is a directory that is not there.
LEMMA NoDirSound == Sound(NoDir)
<1>1. NoDir \in Directory
  BY DEF NoDir, NoFiles, Directory, Marks, Traces
<1>2. OneRelease(NoDir)
  BY PayloadAssumption DEF OneRelease, NoDir, NoFiles, Marks, Traces
<1> QED BY <1>1, <1>2 DEF Sound

\* A directory stays sound when its manifest goes or no longer parses,
LEMMA MarkedSound ==
  ASSUME NEW d, Sound(d), NEW m \in Marks
  PROVE  Sound(Marked(d, m))
<1>1. Marked(d, m) \in Directory
  BY DEF Sound, Marked, Directory
<1>2. OneRelease(Marked(d, m))
  BY PayloadAssumption DEF Sound, OneRelease, Marked
<1> QED BY <1>1, <1>2 DEF Sound

\* when a file is removed or becomes the user's,
LEMMA PutSound ==
  ASSUME NEW d, Sound(d), NEW f \in Files, NEW what \in Traces
  PROVE  Sound(Put(d, f, what))
<1>1. Put(d, f, what) \in Directory
  BY DEF Sound, Put, Directory
<1>2. OneRelease(Put(d, f, what))
  BY DEF Sound, OneRelease, Put, Directory
<1> QED BY <1>1, <1>2 DEF Sound

\* and when its removal stops half way.
LEMMA RemainsSound ==
  ASSUME NEW d, Sound(d), NEW r \in Remains(d)
  PROVE  Sound(r)
<1>1. r \in Directory
  BY DEF Sound, Remains, Directory, Marks
<1>2. OneRelease(r)
  <2>1. PICK v \in Versions : /\ \A f \in Files : d.files[f] \in {v} \cup Traces
                              /\ d.man \in Versions => d.man = v
    BY DEF Sound, OneRelease
  <2>2. \A f \in Files : r.files[f] \in {v} \cup Traces
    BY <2>1 DEF Remains, Traces
  <2>3. r.man \in Versions => r.man = v
    BY <2>1, PayloadAssumption DEF Remains, Marks
  <2> QED BY <2>2, <2>3 DEF OneRelease
<1> QED BY <1>1, <1>2 DEF Sound

\* Replacing one directory by a sound one keeps all of them sound.
LEMMA SetSound ==
  ASSUME NEW x, x \in [Slots -> Directory], \A s \in Slots : OneRelease(x[s]),
         NEW t \in Slots, NEW d, Sound(d)
  PROVE  /\ [x EXCEPT ![t] = d] \in [Slots -> Directory]
         /\ \A s \in Slots : OneRelease([x EXCEPT ![t] = d][s])
BY DEF Sound

LEMMA AllGone ==
  /\ [s \in Slots |-> NoDir] \in [Slots -> Directory]
  /\ \A t \in Slots : OneRelease([s \in Slots |-> NoDir][t])
BY NoDirSound DEF Sound

-----------------------------------------------------------------------------
\* The rest of the type invariant.
Rest ==
  /\ kept \in [Slots -> SUBSET Directory] /\ start \in [Slots -> Directory]
  /\ release \in Versions
  /\ pc \in Pcs /\ at \in Slots
  /\ command \in Commands /\ plan \in [Slots -> Actions]
  /\ swapped \in BOOLEAN /\ faulty \in BOOLEAN
  /\ result \in Results
  /\ mine \in [Slots -> SUBSET Files]
  /\ runs \in 0..MaxRuns /\ edits \in 0..MaxEdits

IInv == DirsSound /\ Rest

LEMMA InitInv == Init => IInv
<1> SUFFICES ASSUME Init PROVE IInv
  OBVIOUS
<1>1. \A s \in Slots : Sound(dir[s])
  BY NoDirSound, WholeSound DEF Init
<1>2. dir \in [Slots -> Directory] /\ \A s \in Slots : OneRelease(dir[s])
  BY <1>1 DEF Init, Sound
<1>3. DirsSound
  BY <1>2, AllGone DEF Init, DirsSound
<1>4. Rest
  <2>1. kept \in [Slots -> SUBSET Directory] /\ start \in [Slots -> Directory]
    BY <1>2 DEF Init
  <2>2. plan \in [Slots -> Actions] /\ mine \in [Slots -> SUBSET Files]
    BY DEF Init, Actions
  <2>3. runs \in 0..MaxRuns /\ edits \in 0..MaxEdits
    BY PayloadAssumption DEF Init
  <2> QED BY <2>1, <2>2, <2>3 DEF Init, Rest, Pcs, Slots, Commands, Results
<1> QED BY <1>3, <1>4 DEF IInv

\* What a command does first leaves the directories, and makes backups of none.
LEMMA OpenRest ==
  ASSUME IInv, NEW cmd \in Commands, Open(cmd), dir' = dir
  PROVE  /\ DirsSound'
         /\ runs' \in 0..MaxRuns /\ command' \in Commands
         /\ kept' \in [Slots -> SUBSET Directory] /\ start' \in [Slots -> Directory]
         /\ swapped' \in BOOLEAN /\ faulty' \in BOOLEAN
<1>1. DirsSound'
  BY AllGone DEF IInv, DirsSound, Open
<1>2. runs' \in 0..MaxRuns
  BY PayloadAssumption DEF IInv, Rest, Open
<1>3. kept' \in [Slots -> SUBSET Directory]
  BY DEF IInv, Rest, DirsSound, Open
<1> QED BY <1>1, <1>2, <1>3 DEF IInv, DirsSound, Open

\* The decision about a directory is one of the listed ones.
LEMMA PlannedType ==
  ASSUME NEW cmd, NEW state, NEW force
  PROVE  Planned(cmd, state, force) \in Actions
BY DEF Planned, Actions

\* Renaming a sound directory into place, or setting one aside, keeps all sound.
LEMMA Keeps ==
  ASSUME DirsSound, NEW t \in Slots, NEW d, Sound(d),
         dir' = [dir EXCEPT ![t] = d], backup' = backup
  PROVE  DirsSound'
BY SetSound DEF DirsSound

LEMMA DirSound ==
  ASSUME DirsSound, NEW s \in Slots
  PROVE  Sound(dir[s]) /\ Sound(backup[s])
BY DEF DirsSound, Sound

LEMMA NextInv == IInv /\ [Next]_vars => IInv'
<1> SUFFICES ASSUME IInv, [Next]_vars PROVE IInv'
  OBVIOUS
<1> USE DEF IInv
<1>k. "skill" \in Slots /\ "profiles" \in Slots
  BY DEF Slots
<1>1. ASSUME NEW cmd \in {"install", "update"}, NEW force \in BOOLEAN, Begin(cmd, force)
      PROVE  IInv'
  <2>1. cmd \in Commands /\ Open(cmd) /\ dir' = dir
    BY <1>1 DEF Begin, Commands
  <2>2. plan' \in [Slots -> Actions]
    BY <1>1, PlannedType DEF Begin
  <2>3. pc' \in Pcs /\ at' \in Slots /\ result' \in Results
    BY <1>1, <1>k DEF Begin, Stay, Rest, Pcs, Results
  <2>4. release' \in Versions /\ mine' \in [Slots -> SUBSET Files] /\ edits' \in 0..MaxEdits
    BY <1>1 DEF Begin, Rest
  <2> QED BY <2>1, <2>2, <2>3, <2>4, OpenRest DEF Rest
<1>2. CASE Stage
  <2>1. DirsSound'
    BY <1>2 DEF Stage, DirsSound
  <2> QED BY <1>2, <2>1 DEF Stage, Same, Step, Rest, Pcs
<1>3. CASE Backup
  <2>1. at \in Slots /\ Sound(dir[at])
    BY DirSound DEF Rest
  <2>2. ASSUME Exists(dir[at]) PROVE DirsSound'
    <3>1. backup' = [backup EXCEPT ![at] = dir[at]] /\ dir' = [dir EXCEPT ![at] = NoDir]
      BY <1>3, <2>2 DEF Backup
    <3> QED BY <2>1, <3>1, SetSound, NoDirSound DEF DirsSound
  <2>3. DirsSound'
    BY <1>3, <2>2 DEF Backup, DirsSound
  <2> QED BY <1>3, <2>3 DEF Backup, Same, Step, Rest, Pcs
<1>4. CASE Swap
  <2>1. at \in Slots /\ release \in Versions
    BY DEF Rest
  <2>2. DirsSound'
    BY <1>4, <2>1, WholeSound, Keeps DEF Swap, Replacement
  <2>3. swapped' \in BOOLEAN
    BY <1>4 DEF Swap, Rest
  <2> QED BY <1>4, <2>2, <2>3 DEF Swap, Same, Step, Rest, Pcs
<1>5. CASE Check
  <2>1. DirsSound'
    BY <1>5 DEF Check, DirsSound
  <2>2. pc' \in Pcs /\ at' \in Slots /\ result' \in Results
    BY <1>5, <1>k DEF Check, Stay, Rest, Pcs, Results
  <2> QED BY <1>5, <2>1, <2>2 DEF Check, Same, Rest
<1>6. CASE Fail
  <2>1. DirsSound'
    BY <1>6 DEF Fail, DirsSound
  <2>2. pc' \in Pcs /\ at' \in Slots
    BY <1>6, <1>k DEF Fail, UndoSkill, Rest, Pcs
  <2> QED BY <1>6, <2>1, <2>2 DEF Fail, Same, Rest
<1>7. CASE Wipe
  <2>1. at \in Slots /\ Sound(dir[at])
    BY DirSound DEF Rest
  <2>2. DirsSound'
    <3>1. CASE dir' = [dir EXCEPT ![at] = NoDir]
      BY <1>7, <2>1, <3>1, NoDirSound, Keeps DEF Wipe
    <3>2. ASSUME NEW d \in Remains(dir[at]), dir' = [dir EXCEPT ![at] = d] PROVE DirsSound'
      BY <1>7, <2>1, <3>2, RemainsSound, Keeps DEF Wipe
    <3>3. CASE dir' = dir
      BY <1>7, <3>3 DEF Wipe, DirsSound
    <3> QED BY <1>7, <3>1, <3>2, <3>3 DEF Wipe
  <2>3. faulty' \in BOOLEAN
    BY <1>7 DEF Wipe, Rest
  <2> QED BY <1>7, <2>2, <2>3 DEF Wipe, Same, Step, Rest, Pcs
<1>8. CASE Restore
  <2>1. at \in Slots /\ Sound(backup[at])
    BY DirSound DEF Rest
  <2>2. DirsSound'
    <3>1. CASE dir' = [dir EXCEPT ![at] = backup[at]] /\ backup' = [backup EXCEPT ![at] = NoDir]
      BY <2>1, <3>1, SetSound, NoDirSound DEF DirsSound
    <3>2. CASE dir' = dir /\ backup' = backup
      BY <3>2 DEF DirsSound
    <3> QED BY <1>8, <3>1, <3>2 DEF Restore
  <2>3. faulty' \in BOOLEAN
    BY <1>8 DEF Restore, Rest
  <2>4. pc' \in Pcs /\ at' \in Slots /\ result' \in Results
    BY <1>8, <1>k DEF Restore, UndoSkill, Stay, Rest, Pcs, Results
  <2> QED BY <1>8, <2>2, <2>3, <2>4 DEF Restore, Same, Rest
<1>9. CASE BeginUninstall
  <2>1. "uninstall" \in Commands /\ Open("uninstall") /\ dir' = dir
    BY <1>9 DEF BeginUninstall, Commands
  <2>2. pc' \in Pcs /\ at' \in Slots /\ result' \in Results
    BY <1>9, <1>k DEF BeginUninstall, Stay, Rest, Pcs, Results
  <2>3. /\ release' \in Versions /\ plan' \in [Slots -> Actions]
        /\ mine' \in [Slots -> SUBSET Files] /\ edits' \in 0..MaxEdits
    BY <1>9 DEF BeginUninstall, Rest
  <2> QED BY <2>1, <2>2, <2>3, OpenRest DEF Rest
<1>10. CASE Unlink
  <2>1. at \in Slots /\ Sound(dir[at])
    BY DirSound DEF Rest
  <2>2. PICK f \in Files : /\ dir' = [dir EXCEPT ![at] = Put(@, f, "absent")]
                           /\ mine' = [mine EXCEPT ![at] = @ \ {f}]
    BY <1>10 DEF Unlink, Present
  <2>3. Sound(Put(dir[at], f, "absent"))
    BY <2>1, PutSound DEF Traces
  <2>4. DirsSound'
    BY <1>10, <2>1, <2>2, <2>3, Keeps DEF Unlink, Quiet
  <2>5. mine' \in [Slots -> SUBSET Files]
    BY <2>2 DEF Rest
  <2> QED BY <1>10, <2>4, <2>5 DEF Unlink, Quiet, Rest
<1>11. CASE Unmark
  <2>1. at \in Slots /\ Sound(Marked(dir[at], "none"))
    BY DirSound, MarkedSound DEF Rest, Marks
  <2>2. DirsSound'
    BY <1>11, <2>1, Keeps DEF Unmark, Quiet
  <2> QED BY <1>11, <2>2 DEF Unmark, Quiet, Step, Rest, Pcs
<1>12. CASE RemoveEmpty
  <2>1. at \in Slots
    BY DEF Rest
  <2>2. DirsSound'
    <3>1. CASE dir' = [dir EXCEPT ![at] = NoDir]
      BY <1>12, <2>1, <3>1, NoDirSound, Keeps DEF RemoveEmpty, Quiet
    <3>2. CASE dir' = dir
      BY <1>12, <3>2 DEF RemoveEmpty, Quiet, DirsSound
    <3> QED BY <1>12, <3>1, <3>2 DEF RemoveEmpty
  <2>3. pc' \in Pcs /\ at' \in Slots /\ result' \in Results
    BY <1>12, <1>k DEF RemoveEmpty, Stay, Rest, Pcs, Results
  <2> QED BY <1>12, <2>2, <2>3 DEF RemoveEmpty, Quiet, Rest
<1>13. CASE FailUninstall
  <2>1. DirsSound'
    BY <1>13 DEF FailUninstall, Quiet, DirsSound
  <2> QED BY <1>13, <2>1 DEF FailUninstall, Stay, Quiet, Rest, Pcs, Results
<1>14. CASE Crash
  <2>1. at \in Slots /\ Sound(dir[at])
    BY DirSound DEF Rest
  <2>2. DirsSound'
    <3>1. ASSUME NEW d \in Remains(dir[at]), dir' = [dir EXCEPT ![at] = d] PROVE DirsSound'
      BY <1>14, <2>1, <3>1, RemainsSound, Keeps DEF Crash, Quiet
    <3>2. CASE dir' = dir
      BY <1>14, <3>2 DEF Crash, Quiet, DirsSound
    <3> QED BY <1>14, <3>1, <3>2 DEF Crash
  <2> QED BY <1>14, <2>2 DEF Crash, Stay, Quiet, Rest, Pcs, Results
<1>15. ASSUME NEW s \in Slots, NEW f \in Files, Edit(s, f) PROVE IInv'
  <2> DEFINE d == Put(Marked(dir[s], IF Exists(dir[s]) THEN dir[s].man ELSE "none"), f, "user")
  <2>1. Sound(Marked(dir[s], IF Exists(dir[s]) THEN dir[s].man ELSE "none"))
    <3>1. CASE Exists(dir[s])
      BY <3>1, DirSound DEF Marked, Sound, OneRelease, Directory
    <3>2. CASE ~Exists(dir[s])
      BY <3>2, DirSound, MarkedSound DEF Marks
    <3> QED BY <3>1, <3>2
  <2>2. Sound(d)
    BY <2>1, PutSound DEF Traces
  <2>3. dir' = [dir EXCEPT ![s] = d] /\ backup' = backup
    BY <1>15 DEF Edit
  <2>4. DirsSound'
    BY <2>2, <2>3, Keeps
  <2>5. start' \in [Slots -> Directory]
    BY <1>15, <2>4 DEF Edit, Rest, DirsSound
  <2>6. edits' \in 0..MaxEdits /\ mine' \in [Slots -> SUBSET Files]
    BY <1>15, PayloadAssumption DEF Edit, Rest
  <2> QED BY <1>15, <2>4, <2>5, <2>6 DEF Edit, Rest
<1>16. ASSUME NEW s \in Slots, Tear(s) PROVE IInv'
  <2>1. Sound(Marked(dir[s], "torn"))
    BY DirSound, MarkedSound DEF Marks
  <2>2. DirsSound'
    BY <1>16, <2>1, Keeps DEF Tear
  <2>3. start' \in [Slots -> Directory]
    BY <1>16, <2>2 DEF Tear, Rest, DirsSound
  <2>4. edits' \in 0..MaxEdits
    BY <1>16, PayloadAssumption DEF Tear, Rest
  <2> QED BY <1>16, <2>2, <2>3, <2>4 DEF Tear, Rest
<1>17. ASSUME NEW v \in Versions, Upgrade(v) PROVE IInv'
  <2>1. DirsSound'
    BY <1>17 DEF Upgrade, DirsSound
  <2> QED BY <1>17, <2>1 DEF Upgrade, Rest
<1>18. CASE UNCHANGED vars
  BY <1>18 DEF vars, DirsSound, Rest
<1> QED BY <1>1, <1>2, <1>3, <1>4, <1>5, <1>6, <1>7, <1>8, <1>9, <1>10, <1>11,
           <1>12, <1>13, <1>14, <1>15, <1>16, <1>17, <1>18 DEF Next

\* The inductive invariant holds of every reachable state.
THEOREM Inductive == Spec => []IInv
<1> QED BY InitInv, NextInv, PTL DEF Spec

\* Types: every directory, backup and earlier backup is a directory of known
\* files, whatever installs, removals, edits and crashes made it.
THEOREM TypeCorrect == Spec => []TypeOK
<1>1. IInv => TypeOK
  BY DEF IInv, DirsSound, Rest, TypeOK
<1> QED BY Inductive, <1>1, PTL

\* No directory ever mixes two releases: files and manifest come from one,
\* through every failed, killed or rolled back replacement (installer/index.js).
THEOREM Unmixed == Spec => []NeverMixed
<1>1. IInv => NeverMixed
  BY DEF IInv, DirsSound, NeverMixed
<1> QED BY Inductive, <1>1, PTL
-----------------------------------------------------------------------------
(* The skill directory and its backup through a command and its rollback.  *)

Untouched == ~swapped /\ dir["skill"] = start["skill"] /\ backup["skill"] = NoDir
SetAside  == dir["skill"] = NoDir /\ backup["skill"] = start["skill"]
Clean(d)  == \A f \in Files : d.files[f] # "user"
Replaced  == swapped /\ backup["skill"] = start["skill"] /\ Clean(dir["skill"])

Replacing == {"stage", "backup", "swap", "check", "wipe", "restore"}

\* What was there when the command began is in place or in the backup, until
\* a step of the rollback fails, and nobody edits what was swapped in.
RollInv ==
  /\ \A s \in Slots : ~Exists(dir[s]) => dir[s] = NoDir
  /\ ~Exists(start["skill"]) => start["skill"] = NoDir
  /\ at = "skill" =>
       /\ pc \in {"stage", "backup"} => Untouched
       /\ pc = "swap" => ~swapped /\ SetAside
       /\ pc \in {"check", "wipe"} => Replaced
       /\ pc = "restore" => faulty \/ Untouched \/ SetAside
  /\ at = "profiles" /\ pc \in Replacing => Untouched \/ Replaced
  /\ pc \in {"unlink", "rmdir"} => command = "uninstall"
  /\ SkillRestored

\* A directory that is not there has no files.
LEMMA ShapeKept ==
  ASSUME \A s \in Slots : ~Exists(dir[s]) => dir[s] = NoDir, dir \in [Slots -> Directory],
         NEW t \in Slots, NEW d, Exists(d) \/ d = NoDir, dir' = [dir EXCEPT ![t] = d]
  PROVE  \A s \in Slots : ~Exists(dir'[s]) => dir'[s] = NoDir
OBVIOUS

LEMMA RemainsShape ==
  ASSUME NEW d, NEW r \in Remains(d), Exists(d)
  PROVE  Exists(r) /\ (Clean(d) => Clean(r))
BY DEF Remains, Exists, Clean

LEMMA WholeShape ==
  ASSUME NEW s \in Slots, NEW v \in Versions
  PROVE  Exists(Whole(s, v)) /\ Clean(Whole(s, v))
BY PayloadAssumption DEF Whole, Exists, Clean, Marks, Traces

LEMMA InitRoll == Init => RollInv
<1> SUFFICES ASSUME Init PROVE RollInv
  OBVIOUS
<1>1. \A s \in Slots, v \in Versions : Exists(Whole(s, v))
  BY WholeShape
<1>2. \A s \in Slots : ~Exists(dir[s]) => dir[s] = NoDir
  BY <1>1 DEF Init
<1> QED
  BY <1>2 DEF Init, RollInv, SkillRestored, Undone, Replacing, Slots

LEMMA StepRoll == IInv /\ RollInv /\ [Next]_vars => RollInv'
<1> SUFFICES ASSUME IInv, RollInv, [Next]_vars PROVE RollInv'
  OBVIOUS
<1>0. /\ dir \in [Slots -> Directory] /\ backup \in [Slots -> Directory]
      /\ start \in [Slots -> Directory] /\ at \in Slots
      /\ "skill" \in Slots /\ "profiles" \in Slots
      /\ \A s \in Slots : s = "skill" \/ s = "profiles"
      /\ \A s \in Slots : ~Exists(dir[s]) => dir[s] = NoDir
  BY DEF IInv, DirsSound, Rest, Slots, RollInv
<1>s. ~Exists(start'["skill"]) => start'["skill"] = NoDir
  <2>1. CASE start' = start
    BY <2>1 DEF RollInv
  <2>2. CASE start' = dir
    BY <1>0, <2>2
  <2>3. ASSUME NEW s \in Slots, start' = [start EXCEPT ![s] = dir'[s]], Exists(dir'[s])
        PROVE  ~Exists(start'["skill"]) => start'["skill"] = NoDir
    BY <1>0, <2>3 DEF RollInv
  <2>4. ASSUME NEW s \in Slots, NEW f \in Files, Edit(s, f)
        PROVE  start' = [start EXCEPT ![s] = dir'[s]] /\ Exists(dir'[s])
    BY <1>0, <2>4 DEF Edit, Put, Marked, Exists
  <2>5. ASSUME NEW s \in Slots, Tear(s)
        PROVE  start' = [start EXCEPT ![s] = dir'[s]] /\ Exists(dir'[s])
    BY <1>0, <2>5 DEF Tear, Marked, Exists
  <2>6. ASSUME NEW cmd, NEW force, Begin(cmd, force) PROVE start' = dir
    BY <2>6 DEF Begin, Open
  <2>7. BeginUninstall => start' = dir
    BY DEF BeginUninstall, Open
  <2>8. Stage \/ Backup \/ Swap \/ Check \/ Fail \/ Wipe \/ Restore => start' = start
    BY DEF Stage, Backup, Swap, Check, Fail, Wipe, Restore, Same
  <2>9. Unlink \/ Unmark \/ RemoveEmpty \/ FailUninstall \/ Crash => start' = start
    BY DEF Unlink, Unmark, RemoveEmpty, FailUninstall, Crash, Quiet
  <2>10. UNCHANGED vars \/ (\E v \in Versions : Upgrade(v)) => start' = start
    BY DEF vars, Upgrade
  <2> QED
    BY <2>1, <2>2, <2>3, <2>4, <2>5, <2>6, <2>7, <2>8, <2>9, <2>10 DEF Next
<1>1. ASSUME NEW cmd \in {"install", "update"}, NEW force \in BOOLEAN, Begin(cmd, force)
      PROVE  RollInv'
  <2>1. /\ dir' = dir /\ start' = dir /\ backup' = [s \in Slots |-> NoDir] /\ ~swapped'
        /\ pc' \in {"idle", "stage"}
    BY <1>1 DEF Begin, Open, Stay
  <2>2. Untouched' /\ SkillRestored'
    BY <1>0, <2>1 DEF Untouched, SkillRestored, Undone
  <2> QED
    BY <1>0, <1>s, <2>1, <2>2 DEF RollInv, Replacing
<1>2. CASE Stage
  BY <1>2 DEF Stage, Step, Same, RollInv, Untouched, Replaced, SkillRestored, Undone, Replacing
<1>3. CASE Backup
  <2>1. \A s \in Slots : ~Exists(dir'[s]) => dir'[s] = NoDir
    BY <1>0, <1>3, ShapeKept DEF Backup
  <2>2. ASSUME at = "skill" PROVE ~swapped' /\ SetAside'
    BY <1>0, <1>3, <2>2 DEF Backup, Step, Same, RollInv, Untouched, SetAside
  <2>3. ASSUME at = "profiles" PROVE (Untouched \/ Replaced)'
    BY <1>0, <1>3, <2>3 DEF Backup, Step, Same, RollInv, Untouched, Replaced, Replacing, Clean
  <2>4. at' = at /\ pc' = "swap"
    BY <1>3 DEF Backup, Step
  <2> QED
    BY <1>s, <1>0, <2>1, <2>2, <2>3, <2>4 DEF RollInv, SkillRestored, Undone
<1>4. CASE Swap
  <2>1. dir' = [dir EXCEPT ![at] = Whole(at, release)] /\ release \in Versions
    BY <1>4 DEF Swap, Replacement, IInv, Rest
  <2>2. Exists(Whole(at, release)) /\ Clean(Whole(at, release))
    BY <1>0, <2>1, WholeShape
  <2>3. \A s \in Slots : ~Exists(dir'[s]) => dir'[s] = NoDir
    BY <1>0, <2>1, <2>2, ShapeKept
  <2>4. ASSUME at = "skill" PROVE Replaced'
    <3>1. /\ swapped' /\ backup'["skill"] = start'["skill"]
          /\ dir'["skill"] = Whole(at, release)
      BY <1>0, <1>4, <2>1, <2>4 DEF Swap, Step, Same, RollInv, SetAside
    <3> QED
      BY <2>2, <3>1 DEF Replaced, Clean
  <2>5. ASSUME at = "profiles" PROVE (Untouched \/ Replaced)'
    BY <1>0, <1>4, <2>1, <2>5 DEF Swap, Step, Same, RollInv, Untouched, Replaced, Replacing, Clean
  <2>6. at' = at /\ pc' = "check"
    BY <1>4 DEF Swap, Step
  <2> QED
    BY <1>s, <1>0, <2>3, <2>4, <2>5, <2>6 DEF RollInv, SkillRestored, Undone
<1>5. CASE Check
  <2>1. UNCHANGED <<dir, backup, start, swapped>> /\ pc = "check" /\ pc' \in {"idle", "stage"}
        /\ (pc' = "idle" => result' # "failed") /\ (pc' = "stage" => at = "skill" /\ at' = "profiles")
    BY <1>5 DEF Check, Stay, Same
  <2>2. pc' = "stage" => Replaced'
    BY <2>1 DEF RollInv, Replaced, Clean
  <2> QED
    BY <1>s, <1>0, <2>1, <2>2 DEF RollInv, SkillRestored, Undone, Replacing
<1>6. CASE Fail
  <2>1. /\ UNCHANGED <<dir, backup, start, swapped>> /\ pc' \in {"wipe", "restore"}
        /\ pc \in {"stage", "backup", "swap", "check"}
        /\ at' = at /\ (at = "profiles" => pc' = "wipe") /\ (at = "skill" /\ pc' = "wipe" <=> at = "skill" /\ swapped)
    BY <1>0, <1>6 DEF Fail, UndoSkill, Same
  <2>2. /\ Untouched' = Untouched /\ SetAside' = SetAside /\ Replaced' = Replaced
    BY <2>1 DEF Untouched, SetAside, Replaced, Clean
  <2>3. at = "profiles" => (Untouched \/ Replaced)
    BY <2>1 DEF RollInv, Replacing
  <2>4. at = "skill" /\ pc' = "wipe" => Replaced
    BY <2>1 DEF RollInv, Untouched
  <2>5. at = "skill" /\ pc' = "restore" => Untouched \/ SetAside
    BY <2>1 DEF RollInv, Replaced
  <2> QED
    BY <1>s, <1>0, <2>1, <2>2, <2>3, <2>4, <2>5 DEF RollInv, SkillRestored, Undone
<1>7. CASE Wipe
  <2>1. \A s \in Slots : ~Exists(dir'[s]) => dir'[s] = NoDir
    BY <1>0, <1>7, ShapeKept, RemainsShape DEF Wipe
  <2>2. /\ UNCHANGED <<backup, start, swapped, at>> /\ pc = "wipe" /\ pc' = "restore"
    BY <1>7 DEF Wipe, Step, Same
  <2>3. ASSUME at = "skill", ~faulty' PROVE SetAside'
    <3>1. dir'["skill"] = NoDir
      BY <1>0, <1>7, <2>3 DEF Wipe
    <3> QED
      BY <2>2, <2>3, <3>1 DEF RollInv, Replaced, SetAside
  <2>4. ASSUME at = "profiles" PROVE (Untouched \/ Replaced)'
    <3>1. dir'["skill"] = dir["skill"]
      BY <1>0, <1>7, <2>4 DEF Wipe
    <3> QED
      BY <2>2, <2>4, <3>1 DEF RollInv, Replacing, Untouched, Replaced, Clean
  <2> QED
    BY <1>s, <1>0, <2>1, <2>2, <2>3, <2>4 DEF RollInv, SkillRestored, Undone
<1>8. CASE Restore
  <2>1. \A s \in Slots : ~Exists(dir'[s]) => dir'[s] = NoDir
    BY <1>0, <1>8, ShapeKept DEF Restore
  <2>2. pc = "restore" /\ UNCHANGED <<start, swapped, command>>
    BY <1>8 DEF Restore, Same
  <2>3. CASE at = "profiles"
    <3>1. /\ at' = "skill" /\ pc' = IF swapped THEN "wipe" ELSE "restore"
          /\ dir'["skill"] = dir["skill"] /\ backup'["skill"] = backup["skill"]
      BY <1>0, <1>8, <2>3 DEF Restore, UndoSkill
    <3>2. (Untouched \/ Replaced)'
      BY <2>2, <2>3, <3>1 DEF RollInv, Replacing, Untouched, Replaced, Clean
    <3>3. pc' = "wipe" => Replaced'
      BY <2>2, <3>1, <3>2 DEF Untouched
    <3>4. pc' = "restore" => Untouched'
      BY <2>2, <3>1, <3>2 DEF Replaced
    <3> QED
      BY <1>s, <2>1, <3>1, <3>3, <3>4 DEF RollInv, SkillRestored, Undone
  <2>4. CASE at = "skill"
    <3>1. pc' = "idle"
      BY <1>8, <2>4 DEF Restore, Stay
    <3>2. ASSUME ~faulty' PROVE dir'["skill"] = start'["skill"]
      <4>1. ~faulty
        BY <1>8, <3>2 DEF Restore
      <4>2. Untouched \/ SetAside
        BY <2>2, <2>4, <4>1 DEF RollInv
      <4>3. CASE Exists(backup["skill"])
        <5>1. dir' = [dir EXCEPT !["skill"] = backup["skill"]]
          BY <1>8, <2>4, <3>2, <4>3 DEF Restore
        <5>2. backup["skill"] # NoDir
          BY <4>3 DEF Exists, NoDir
        <5> QED
          BY <1>0, <2>2, <4>2, <5>1, <5>2 DEF Untouched, SetAside
      <4>4. CASE ~Exists(backup["skill"])
        <5>1. dir' = dir
          BY <1>8, <2>4, <4>4 DEF Restore
        <5> QED
          BY <2>2, <4>2, <5>1, <4>4 DEF Untouched, SetAside, RollInv
      <4> QED
        BY <4>3, <4>4
    <3> QED
      BY <1>s, <2>1, <3>1, <3>2 DEF RollInv, SkillRestored, Undone, Replacing
  <2> QED
    BY <1>0, <2>3, <2>4
<1>9. CASE BeginUninstall
  <2>1. /\ dir' = dir /\ command' = "uninstall" /\ pc' \in {"idle", "unlink"}
    BY <1>9 DEF BeginUninstall, Open, Stay
  <2> QED
    BY <1>s, <1>0, <2>1 DEF RollInv, SkillRestored, Undone, Replacing
<1>10. CASE Unlink \/ Unmark \/ RemoveEmpty \/ FailUninstall
  <2>1. /\ pc \in {"unlink", "rmdir"} /\ pc' \in {"unlink", "rmdir", "idle"}
        /\ command' = command /\ command = "uninstall"
    BY <1>10 DEF Unlink, Unmark, RemoveEmpty, FailUninstall, Step, Stay, Quiet, RollInv
  <2>2. \A s \in Slots : ~Exists(dir'[s]) => dir'[s] = NoDir
    <3>1. ASSUME NEW f \in Listed(at) \cap Present(dir[at]),
                 dir' = [dir EXCEPT ![at] = Put(@, f, "absent")]
          PROVE  \A s \in Slots : ~Exists(dir'[s]) => dir'[s] = NoDir
      <4>1. Exists(dir[at])
        BY <1>0, <3>1 DEF Present, NoDir, NoFiles
      <4>2. Exists(Put(dir[at], f, "absent"))
        BY <4>1 DEF Put, Exists
      <4> QED
        BY <1>0, <3>1, <4>2, ShapeKept
    <3>2. CASE Unmark
      <4>1. Exists(Marked(dir[at], "none"))
        BY DEF Marked, Exists
      <4> QED
        BY <1>0, <3>2, <4>1, ShapeKept DEF Unmark
    <3>3. CASE RemoveEmpty
      BY <1>0, <3>3, ShapeKept DEF RemoveEmpty
    <3>4. CASE FailUninstall
      BY <1>0, <3>4 DEF FailUninstall
    <3> QED
      BY <1>10, <3>1, <3>2, <3>3, <3>4 DEF Unlink
  <2> QED
    BY <1>s, <2>1, <2>2 DEF RollInv, SkillRestored, Undone, Replacing
<1>11. CASE Crash
  <2>1. pc' = "idle" /\ result' = "killed"
    BY <1>11 DEF Crash, Stay
  <2>2. \A s \in Slots : ~Exists(dir'[s]) => dir'[s] = NoDir
    BY <1>0, <1>11, ShapeKept, RemainsShape DEF Crash
  <2> QED
    BY <1>s, <2>1, <2>2 DEF RollInv, SkillRestored, Undone, Replacing
<1>12. ASSUME NEW s \in Slots, NEW d, Exists(d), pc = "idle" \/ (pc \in {"stage", "backup"} /\ at = s),
              dir' = [dir EXCEPT ![s] = d], start' = [start EXCEPT ![s] = dir'[s]],
              UNCHANGED <<backup, pc, at, command, swapped, result, faulty>>
       PROVE  RollInv'
  <2>1. \A t \in Slots : ~Exists(dir'[t]) => dir'[t] = NoDir
    BY <1>0, <1>12, ShapeKept
  <2>2. dir["skill"] = start["skill"] => dir'["skill"] = start'["skill"]
    BY <1>0, <1>12
  <2>3. Untouched => Untouched'
    BY <1>12, <2>2 DEF Untouched
  <2>4. ASSUME at = "profiles", pc \in {"stage", "backup"} PROVE (Untouched \/ Replaced)'
    <3>1. dir'["skill"] = dir["skill"] /\ start'["skill"] = start["skill"]
      BY <1>0, <1>12, <2>4
    <3>2. Replaced => Replaced'
      BY <1>12, <3>1 DEF Replaced, Clean
    <3> QED
      BY <2>3, <2>4, <3>2 DEF RollInv, Replacing
  <2>5. SkillRestored'
    BY <1>s, <1>12, <2>2 DEF RollInv, SkillRestored, Undone
  <2> QED
    BY <1>0, <1>s, <1>12, <2>1, <2>3, <2>4, <2>5 DEF RollInv, Replacing
<1>13. ASSUME NEW s \in Slots, NEW f \in Files, Edit(s, f) PROVE RollInv'
  <2> DEFINE d == Put(Marked(dir[s], IF Exists(dir[s]) THEN dir[s].man ELSE "none"), f, "user")
  <2>1. Exists(d)
    BY DEF Put, Marked, Exists
  <2>2. dir' = [dir EXCEPT ![s] = d]
    BY <1>13 DEF Edit
  <2> HIDE DEF d
  <2> QED
    BY <1>12, <1>13, <2>1, <2>2 DEF Edit
<1>14. ASSUME NEW s \in Slots, Tear(s) PROVE RollInv'
  <2>1. Exists(Marked(dir[s], "torn"))
    BY DEF Marked, Exists
  <2> QED
    BY <1>12, <1>14, <2>1 DEF Tear
<1>15. CASE UNCHANGED vars \/ \E v \in Versions : Upgrade(v)
  BY <1>15 DEF vars, Upgrade, RollInv, Untouched, SetAside, Replaced, Clean, SkillRestored, Undone
<1> QED
  BY <1>1, <1>2, <1>3, <1>4, <1>5, <1>6, <1>7, <1>8, <1>9, <1>10, <1>11, <1>13, <1>14, <1>15
     DEF Next

-----------------------------------------------------------------------------
(* What the user wrote.                                                    *)

HasWork(d, f) == d.files[f] = "user"
Found(f) == \/ HasWork(dir["skill"], f) \/ HasWork(backup["skill"], f)
            \/ \E d \in kept["skill"] : HasWork(d, f)

LEMMA KeptIsFound == UserWorkKept <=> \A f \in mine["skill"] : Found(f)
BY DEF UserWorkKept, Found, HasWork

LEMMA KeptIsFoundNext == UserWorkKept' <=> \A f \in mine'["skill"] : Found(f)'
BY DEF UserWorkKept, Found, HasWork

LEMMA NothingInNoDir == \A f \in Files : ~HasWork(NoDir, f)
BY DEF HasWork, NoDir, NoFiles

\* A step keeps the user's work when what it takes out of the directory, or
\* out of the backup, is put in another of the three places or is clean.
LEMMA StepKeepsWork ==
  ASSUME IInv, RollInv, UserWorkKept, [Next]_vars
  PROVE  UserWorkKept'
<1>0. /\ dir \in [Slots -> Directory] /\ backup \in [Slots -> Directory]
      /\ kept \in [Slots -> SUBSET Directory] /\ mine \in [Slots -> SUBSET Files]
      /\ at \in Slots /\ "skill" \in Slots /\ "profiles" \in Slots
      /\ \A s \in Slots : s = "skill" \/ s = "profiles"
      /\ \A s \in Slots : ~Exists(dir[s]) => dir[s] = NoDir
  BY DEF IInv, DirsSound, Rest, Slots, RollInv
<1>1. ASSUME \A f \in mine'["skill"] : f \in mine["skill"] /\ (Found(f) => Found(f)')
      PROVE  UserWorkKept'
  BY <1>1, KeptIsFound, KeptIsFoundNext
<1>2. mine["skill"] \subseteq Files
  BY <1>0
<1>3. ASSUME dir' = dir, NEW cmd, Open(cmd), mine' = mine PROVE UserWorkKept'
  <2>1. kept'["skill"] = kept["skill"] \cup ({backup["skill"]} \ {NoDir})
    BY <1>0, <1>3 DEF Open
  <2>2. ASSUME NEW f \in Files, Found(f) PROVE Found(f)'
    BY <1>3, <2>1, <2>2, NothingInNoDir DEF Found, HasWork
  <2> QED
    BY <1>1, <1>2, <1>3, <2>2
<1>4. ASSUME UNCHANGED <<backup, kept, mine>>, dir'["skill"] = dir["skill"] \/ Clean(dir["skill"])
      PROVE  UserWorkKept'
  <2>1. ASSUME NEW f \in Files, Found(f) PROVE Found(f)'
    BY <1>4, <2>1 DEF Found, HasWork, Clean
  <2> QED
    BY <1>1, <1>2, <1>4, <2>1
<1>5. ASSUME NEW cmd, NEW force, Begin(cmd, force) PROVE UserWorkKept'
  BY <1>3, <1>5 DEF Begin
<1>6. CASE BeginUninstall
  BY <1>3, <1>6 DEF BeginUninstall
<1>7. CASE Stage \/ Check \/ Fail
  BY <1>4, <1>7 DEF Stage, Check, Fail, Same
<1>8. CASE Backup
  <2>1. CASE at = "skill" /\ Exists(dir[at])
    <3>1. backup'["skill"] = dir["skill"] /\ kept' = kept /\ mine' = mine
      BY <1>0, <1>8, <2>1 DEF Backup, Same
    <3>2. backup["skill"] = NoDir
      BY <1>8, <2>1 DEF Backup, Step, RollInv, Untouched
    <3>3. ASSUME NEW f \in Files, Found(f) PROVE Found(f)'
      BY <3>1, <3>2, <3>3, NothingInNoDir DEF Found, HasWork
    <3> QED
      BY <1>1, <1>2, <3>1, <3>3
  <2>2. CASE at # "skill" \/ ~Exists(dir[at])
    <3>1. /\ dir'["skill"] = dir["skill"] /\ backup'["skill"] = backup["skill"]
          /\ kept' = kept /\ mine' = mine
      BY <1>0, <1>8, <2>2 DEF Backup, Same
    <3>2. ASSUME NEW f \in Files, Found(f) PROVE Found(f)'
      BY <3>1, <3>2 DEF Found, HasWork
    <3> QED
      BY <1>1, <1>2, <3>1, <3>2
  <2> QED
    BY <2>1, <2>2
<1>9. CASE Swap
  <2>1. at = "skill" => Clean(dir["skill"])
    BY <1>9, NothingInNoDir DEF Swap, Step, RollInv, SetAside, Clean, HasWork
  <2>2. at # "skill" => dir'["skill"] = dir["skill"]
    BY <1>0, <1>9 DEF Swap
  <2> QED
    BY <1>4, <1>9, <2>1, <2>2 DEF Swap, Same
<1>10. CASE Wipe
  <2>1. at = "skill" => Clean(dir["skill"])
    BY <1>10 DEF Wipe, Step, RollInv, Replaced
  <2>2. at # "skill" => dir'["skill"] = dir["skill"]
    BY <1>0, <1>10 DEF Wipe
  <2> QED
    BY <1>4, <1>10, <2>1, <2>2 DEF Wipe, Same
<1>11. CASE Restore
  <2>1. kept' = kept /\ mine' = mine
    BY <1>11 DEF Restore, Same
  <2>2. CASE dir'["skill"] = dir["skill"] /\ backup'["skill"] = backup["skill"]
    <3>1. ASSUME NEW f \in Files, Found(f) PROVE Found(f)'
      BY <2>1, <2>2, <3>1 DEF Found, HasWork
    <3> QED
      BY <1>1, <1>2, <2>1, <3>1
  <2>3. CASE at = "skill" /\ Vacant(at) /\ dir' = [dir EXCEPT ![at] = backup[at]]
    <3>1. dir["skill"] = NoDir /\ dir'["skill"] = backup["skill"]
      BY <1>0, <2>3 DEF Vacant
    <3>2. ASSUME NEW f \in Files, Found(f) PROVE Found(f)'
      BY <2>1, <3>1, <3>2, NothingInNoDir DEF Found, HasWork
    <3> QED
      BY <1>1, <1>2, <2>1, <3>2
  <2> QED
    BY <1>0, <1>11, <2>2, <2>3 DEF Restore
<1>12. CASE Unlink
  <2>1. PICK f \in Files : /\ dir' = [dir EXCEPT ![at] = Put(@, f, "absent")]
                           /\ mine' = [mine EXCEPT ![at] = @ \ {f}]
    BY <1>12 DEF Unlink, Present
  <2>2. backup' = backup /\ kept' = kept
    BY <1>12 DEF Unlink, Quiet
  <2>3. CASE at = "skill"
    <3>1. mine'["skill"] = mine["skill"] \ {f} /\ dir'["skill"] = Put(dir["skill"], f, "absent")
      BY <1>0, <2>1, <2>3
    <3>2. ASSUME NEW g \in Files, g # f, HasWork(dir["skill"], g) PROVE HasWork(dir'["skill"], g)
      BY <1>0, <3>1, <3>2 DEF HasWork, Put, Directory
    <3>3. ASSUME NEW g \in Files, g # f, Found(g) PROVE Found(g)'
      BY <2>2, <3>2, <3>3 DEF Found
    <3> QED
      BY <1>1, <1>2, <3>1, <3>3
  <2>4. CASE at # "skill"
    <3>1. mine'["skill"] = mine["skill"] /\ dir'["skill"] = dir["skill"]
      BY <1>0, <2>1, <2>4
    <3>2. ASSUME NEW g \in Files, Found(g) PROVE Found(g)'
      BY <2>2, <3>1, <3>2 DEF Found, HasWork
    <3> QED
      BY <1>1, <1>2, <3>1, <3>2
  <2> QED
    BY <2>3, <2>4
<1>13. ASSUME UNCHANGED <<backup, kept, mine>>,
              \A f \in Files : HasWork(dir["skill"], f) => HasWork(dir'["skill"], f)
       PROVE  UserWorkKept'
  <2>1. ASSUME NEW f \in Files, Found(f) PROVE Found(f)'
    BY <1>13, <2>1 DEF Found
  <2> QED
    BY <1>1, <1>2, <1>13, <2>1
<1>14. CASE Unmark
  BY <1>0, <1>13, <1>14 DEF Unmark, Quiet, Marked, HasWork
<1>15. CASE RemoveEmpty
  BY <1>0, <1>13, <1>15 DEF RemoveEmpty, Quiet, Present, HasWork
<1>16. CASE FailUninstall
  BY <1>13, <1>16 DEF FailUninstall, Quiet
<1>17. CASE Crash
  <2>1. UNCHANGED <<backup, kept, mine>>
    BY <1>17 DEF Crash, Quiet
  <2>2. CASE at = "skill" /\ pc = "wipe"
    BY <1>4, <2>1, <2>2 DEF RollInv, Replaced
  <2>3. CASE at # "skill" \/ pc # "wipe"
    <3>1. dir'["skill"] = dir["skill"]
      BY <1>0, <1>17, <2>3 DEF Crash
    <3> QED
      BY <1>4, <2>1, <3>1
  <2> QED
    BY <2>2, <2>3
<1>18. ASSUME NEW s \in Slots, NEW f \in Files, Edit(s, f) PROVE UserWorkKept'
  <2>1. /\ dir' = [dir EXCEPT ![s] = Put(Marked(@, IF Exists(@) THEN @.man ELSE "none"), f, "user")]
        /\ mine' = [mine EXCEPT ![s] = @ \cup {f}] /\ UNCHANGED <<backup, kept>>
    BY <1>18 DEF Edit
  <2>2. \A g \in Files : HasWork(dir["skill"], g) => HasWork(dir'["skill"], g)
    <3>1. CASE s # "skill"
      BY <1>0, <2>1, <3>1
    <3>2. CASE s = "skill"
      <4>1. dir'["skill"].files = [dir["skill"].files EXCEPT ![f] = "user"]
        BY <1>0, <2>1, <3>2 DEF Put, Marked
      <4>2. dir["skill"].files \in [Files -> Versions \cup Traces]
        BY <1>0 DEF Directory
      <4> QED
        BY <4>1, <4>2 DEF HasWork
    <3> QED
      BY <3>1, <3>2
  <2>3. s = "skill" => HasWork(dir'["skill"], f)
    <3> SUFFICES ASSUME s = "skill" PROVE HasWork(dir'["skill"], f)
      OBVIOUS
    <3>1. dir'["skill"].files = [dir["skill"].files EXCEPT ![f] = "user"]
      BY <1>0, <2>1 DEF Put, Marked
    <3>2. dir["skill"].files \in [Files -> Versions \cup Traces]
      BY <1>0 DEF Directory
    <3> QED
      BY <3>1, <3>2 DEF HasWork
  <2>4. \A g \in mine'["skill"] : g \in mine["skill"] \/ (g = f /\ s = "skill")
    BY <1>0, <2>1
  <2>5. ASSUME NEW g \in mine'["skill"] PROVE Found(g)'
    <3>1. CASE g \in mine["skill"]
      BY <1>2, <2>1, <2>2, <3>1, KeptIsFound DEF Found
    <3>2. CASE g = f /\ s = "skill"
      BY <2>3, <3>2 DEF Found
    <3> QED
      BY <2>4, <3>1, <3>2
  <2> QED
    BY <2>5, KeptIsFoundNext
<1>19. ASSUME NEW s \in Slots, Tear(s) PROVE UserWorkKept'
  BY <1>0, <1>13, <1>19 DEF Tear, Marked, HasWork
<1>20. CASE UNCHANGED vars \/ \E v \in Versions : Upgrade(v)
  BY <1>13, <1>20 DEF vars, Upgrade
<1> QED
  BY <1>5, <1>6, <1>7, <1>8, <1>9, <1>10, <1>11, <1>12, <1>14, <1>15, <1>16, <1>17, <1>18,
     <1>19, <1>20 DEF Next

\* The directory and the backup of the skill, through every command.
THEOREM Rollback == Spec => []RollInv
<1> QED BY InitRoll, StepRoll, Inductive, PTL DEF Spec

\* A failed install or update none of whose rollback steps failed left the
\* skill directory as it was, the user's edits included.
THEOREM FailedIsUndone == Spec => []SkillRestored
<1>1. RollInv => SkillRestored
  BY DEF RollInv
<1> QED BY Rollback, <1>1, PTL

\* No install, update, failure, crash or rollback loses a file the user wrote
\* into the skill directory: it is there, or in a backup.
THEOREM WorkIsKept == Spec => []UserWorkKept
<1>1. Init => UserWorkKept
  BY DEF Init, UserWorkKept, Slots
<1> QED BY <1>1, StepKeepsWork, Rollback, Inductive, PTL DEF Spec
===============================================================================
