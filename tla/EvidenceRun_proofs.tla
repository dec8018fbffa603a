-------------------------- MODULE EvidenceRun_proofs --------------------------
(***************************************************************************)
(* Proofs about EvidenceRun, for every set of artifacts, contents,         *)
(* statuses and readers.                                                   *)
(***************************************************************************)
EXTENDS EvidenceRun, TLAPS

(***************************************************************************)
(* The strengthening.  A power loss may bring back any folder of the       *)
(* journal, so what must hold of the run's directory must hold of every    *)
(* folder there: the stage may be named "dir" only once it is fsynced and  *)
(* whole.  The phases of finalize() say why it is whole by then.           *)
(***************************************************************************)
Whole(p) == Intact(p) /\ Recorded(p.art) /\ p.manifest = status

StagingName == [FirstName EXCEPT !["sealing"] = "stage"]
SealedName  == [dir |-> "stage", sealing |-> "none", partial |-> "none"]

Staging == {"copy", "manifest", "manifest_end", "sums", "sums_end", "sync"}
Writing == {"open", "put", "hash", "failed"}
Early   == Writing \cup Staging

FolderInv ==
  /\ names \in journal
  /\ \A f \in journal :
       /\ f["dir"] = "stage" => "stage" \in synced
       /\ f["partial"] # "stage"
  /\ pkg["orig"].manifest = "absent" /\ pkg["orig"].sums = "absent"
  /\ "stage" \in synced => Whole(pkg["stage"])
  /\ wpc \in Early => synced = {}
  /\ "orig" \notin synced

OthersKept == \A a \in Artifacts \ {cur} : pkg["orig"].art[a] = written[a]

PhaseInv ==
  /\ wpc \in Writing => names = FirstName
  /\ wpc = "open" => pkg["orig"].art = written
  /\ wpc \in {"put", "hash", "failed"} => pkg["orig"].art[cur] # "absent" /\ OthersKept
  /\ wpc = "failed" => cur = Coverage /\ written[Findings] = "absent"
  /\ wpc \in Staging => names = StagingName /\ Recorded(pkg["orig"].art)
  /\ wpc \in Staging \ {"copy"} => Recorded(pkg["stage"].art)
  /\ wpc \in {"sums", "sums_end", "sync"} => pkg["stage"].manifest = status
  /\ wpc = "sync" => Intact(pkg["stage"])
  /\ wpc = "displace" => names = StagingName /\ "stage" \in synced
  /\ wpc = "swap" => "stage" \in synced
       /\ names = [dir |-> "none", sealing |-> "stage", partial |-> "orig"]
  /\ wpc = "discard" => "stage" \in synced
       /\ names = [dir |-> "stage", sealing |-> "none", partial |-> "orig"]
  /\ wpc = "psync" => names = SealedName /\ "stage" \in synced
  /\ wpc = "sealed" => names = SealedName /\ journal = {names} /\ "stage" \in synced

IInv == TypeOK /\ FolderInv /\ PhaseInv

-----------------------------------------------------------------------------
(***************************************************************************)
(* Type correctness                                                        *)
(***************************************************************************)
USE DEF Names, Inodes, Modes, Reserved, Content, WriterPcs, ReaderPcs, Folder

\* finalize() has replaced the status 'incomplete' before it writes the manifest.
StatusGiven == wpc \in {"copy", "manifest", "manifest_end"} => status \in Statuses

LEMMA InitType == Init => TypeOK
<1> SUFFICES ASSUME Init PROVE TypeOK
  OBVIOUS
<1>1. NoNames \in Folder /\ FirstName \in Folder
  BY DEF NoNames, FirstName
<1>2. EmptyPackage \in Package
  BY DEF EmptyPackage, Package, NoArtifacts
<1>3. Idle \in ReaderState /\ NoAnswer \in Answers
  BY DEF Idle, NoAnswer, NoArtifacts, ReaderState, Answers
<1>4. QED
  BY <1>1, <1>2, <1>3, PackageAssumption DEF Init, TypeOK, NoArtifacts

\* A folder that may be bound keeps the folder variables well typed.
LEMMA RebindType ==
  ASSUME NEW f \in Folder, TypeOK, Rebind(f)
  PROVE  names' \in Folder /\ journal' \subseteq Folder
BY DEF Rebind, TypeOK

\* Storing a package, and the packages the writer stores.
LEMMA StoreType ==
  ASSUME NEW i \in Inodes, NEW p \in Package, TypeOK, Store(i, p)
  PROVE  pkg' \in [Inodes -> Package]
BY DEF Store, TypeOK

LEMMA FileUpdate ==
  ASSUME NEW p \in Package, NEW a \in Artifacts, NEW c \in Content
  PROVE  [p EXCEPT !.art[a] = c] \in Package
BY DEF Package

LEMMA ManifestUpdate ==
  ASSUME NEW p \in Package, NEW m \in Statuses \cup Reserved
  PROVE  [p EXCEPT !.manifest = m] \in Package
BY DEF Package

LEMMA SumsUpdate ==
  ASSUME NEW p \in Package
  PROVE  /\ [p EXCEPT !.sums = "torn"] \in Package
         /\ [p EXCEPT !.sums = "written", !.listed = p.art,
                      !.listedManifest = p.manifest] \in Package
BY DEF Package

LEMMA EmptyType == EmptyPackage \in Package
BY DEF EmptyPackage, Package, NoArtifacts

LEMMA PackageFields ==
  ASSUME NEW p \in Package
  PROVE  /\ p.art \in [Artifacts -> Content]
         /\ p.manifest \in Statuses \cup Reserved
BY DEF Package

\* The files a power loss leaves in a directory are still a package.
LEMMA PowerLossType ==
  ASSUME NEW p \in Package, NEW q \in AfterPowerLoss(p)
  PROVE  q \in Package
BY DEF AfterPowerLoss, Package

LEMMA WriterType == TypeOK /\ StatusGiven /\ Writer => TypeOK'
<1> SUFFICES ASSUME TypeOK, StatusGiven, Writer PROVE TypeOK'
  OBVIOUS
<1> USE DEF TypeOK, Goto, Finalizes
<1>a. pkg["orig"] \in Package /\ pkg["stage"] \in Package
  OBVIOUS
<1>1. ASSUME NEW a \in Artifacts, BeginArtifact(a) PROVE TypeOK'
  <2>1. pkg' \in [Inodes -> Package]
    BY <1>1, <1>a, FileUpdate, StoreType DEF BeginArtifact
  <2>2. QED
    BY <1>1, <2>1 DEF BeginArtifact
<1>2. ASSUME NEW a \in Artifacts, CopyFile(a) PROVE TypeOK'
  <2>1. pkg["orig"].art[a] \in Content
    BY <1>a, PackageFields
  <2>2. pkg' \in [Inodes -> Package]
    BY <1>2, <1>a, <2>1, FileUpdate, StoreType DEF CopyFile
  <2>3. QED
    BY <1>2, <2>2 DEF CopyFile, writer
<1>3. ASSUME NEW v \in Values, FillArtifact(v) PROVE TypeOK'
  <2>1. pkg' \in [Inodes -> Package]
    BY <1>3, <1>a, FileUpdate, StoreType DEF FillArtifact
  <2>2. QED
    BY <1>3, <2>1 DEF FillArtifact
<1>19. ASSUME NEW v \in Values, EndArtifact(v) PROVE TypeOK'
  BY <1>19 DEF EndArtifact, storage
<1>4. ASSUME NEW s \in Statuses, RejectManifest(s) PROVE TypeOK'
  BY <1>4 DEF RejectManifest, storage
<1>5. ASSUME NEW s \in Statuses, BeginFinalize(s) PROVE TypeOK'
  <2>1. pkg' \in [Inodes -> Package]
    BY <1>5, EmptyType, StoreType DEF BeginFinalize
  <2>2. QED
    BY <1>5, <2>1, RebindType DEF BeginFinalize
<1>6. CASE EndCopy
  BY <1>6 DEF EndCopy, storage
<1>7. CASE BeginManifest
  <2>1. pkg' \in [Inodes -> Package]
    BY <1>7, <1>a, ManifestUpdate, StoreType DEF BeginManifest
  <2>2. QED
    BY <1>7, <2>1 DEF BeginManifest
<1>8. CASE EndManifest
  <2>1. pkg' \in [Inodes -> Package]
    BY <1>8, <1>a, ManifestUpdate, StoreType DEF EndManifest, StatusGiven
  <2>2. QED
    BY <1>8, <2>1 DEF EndManifest
<1>9. CASE BeginChecksums
  <2>1. pkg' \in [Inodes -> Package]
    BY <1>9, <1>a, SumsUpdate, StoreType DEF BeginChecksums
  <2>2. QED
    BY <1>9, <2>1 DEF BeginChecksums
<1>10. CASE EndChecksums
  <2>1. pkg' \in [Inodes -> Package]
    BY <1>10, <1>a, SumsUpdate, StoreType DEF EndChecksums
  <2>2. QED
    BY <1>10, <2>1 DEF EndChecksums
<1>11. CASE SyncStage
  BY <1>11 DEF SyncStage
<1>12. CASE Displace
  BY <1>12, RebindType DEF Displace
<1>13. CASE SwapIn
  BY <1>13, RebindType DEF SwapIn
<1>14. CASE DiscardDisplaced
  BY <1>14, RebindType DEF DiscardDisplaced
<1>15. CASE SyncFolder
  BY <1>15 DEF SyncFolder
<1>16. CASE RestoreDisplaced
  BY <1>16, RebindType DEF RestoreDisplaced
<1>17. CASE DropStage
  BY <1>17, RebindType DEF DropStage
<1>18. QED
  BY <1>1, <1>2, <1>3, <1>4, <1>5, <1>6, <1>7, <1>8, <1>9, <1>10, <1>11,
     <1>12, <1>13, <1>14, <1>15, <1>16, <1>17, <1>19 DEF Writer

LEMMA FaultsType == TypeOK /\ Faults => TypeOK'
<1> SUFFICES ASSUME TypeOK, Faults PROVE TypeOK'
  OBVIOUS
<1> USE DEF TypeOK
<1>1. CASE FailCoverage \/ FailBeforeSwap
  BY <1>1 DEF FailCoverage, FailBeforeSwap, storage
<1>2. CASE FailInTry
  BY <1>2 DEF FailInTry, storage
<1>3. CASE FailInCatch
  BY <1>3 DEF FailInCatch, storage
<1>4. CASE Crash
  BY <1>4 DEF Crash, storage
<1>5. CASE PowerLoss
  <2>1. pkg' \in [Inodes -> Package]
    <3>1. PICK o \in AfterPowerLoss(pkg["orig"]), s \in AfterPowerLoss(pkg["stage"]) :
            pkg' = [orig  |-> IF "orig" \in synced THEN pkg["orig"] ELSE o,
                    stage |-> IF "stage" \in synced THEN pkg["stage"] ELSE s]
      BY <1>5, Zenon DEF PowerLoss
    <3>2. o \in Package /\ s \in Package
      BY PowerLossType
    <3>3. QED
      BY <3>1, <3>2
  <2>2. rd' \in [Readers -> ReaderState]
    BY <1>5 DEF PowerLoss, Idle, NoArtifacts, ReaderState
  <2>3. QED
    BY <1>5, <2>1, <2>2 DEF PowerLoss, Finished
<1>6. QED
  BY <1>1, <1>2, <1>3, <1>4, <1>5 DEF Faults

\* A reader's bookkeeping: one record of rd, one of answer.
LEMMA AdvanceType ==
  ASSUME TypeOK, NEW r \in Readers, NEW pc \in ReaderPcs, NEW x \in ReaderState,
         Advance(r, pc, x)
  PROVE  rd' \in [Readers -> ReaderState]
<1>1. [x EXCEPT !.pc = pc] \in ReaderState
  BY DEF ReaderState
<1>2. QED
  BY <1>1 DEF Advance, TypeOK

LEMMA RefuseType ==
  ASSUME TypeOK, NEW r \in Readers, Refuse(r)
  PROVE  rd' \in [Readers -> ReaderState] /\ answer' \in [Readers -> Answers]
<1>1. rd[r] \in ReaderState
  BY DEF TypeOK
<1>2. [NoAnswer EXCEPT !.kind = "refused", !.name = rd[r].name] \in Answers
  BY <1>1 DEF NoAnswer, Answers, ReaderState
<1>3. QED
  BY <1>1, <1>2, AdvanceType DEF Refuse, TypeOK

LEMMA ReaderUpdates ==
  ASSUME NEW x \in ReaderState
  PROVE  /\ \A m \in Statuses \cup Reserved : [x EXCEPT !.manifest = m] \in ReaderState
         /\ \A f \in SUBSET Artifacts : [x EXCEPT !.files = f] \in ReaderState
         /\ \A a \in Artifacts, c \in Content : [x EXCEPT !.art[a] = c] \in ReaderState
         /\ \A f \in [Artifacts -> Content] :
              [x EXCEPT !.checked = TRUE, !.art = f] \in ReaderState
         /\ x.art \in [Artifacts -> Content]
         /\ x.name \in Names
         /\ x.manifest \in Statuses \cup Reserved
         /\ x.checked \in BOOLEAN
BY DEF ReaderState

LEMMA AtType ==
  ASSUME TypeOK, NEW n \in Names, Exists(n)
  PROVE  At(n) \in Package
BY DEF TypeOK, Exists, At

LEMMA ContentForType ==
  ASSUME TypeOK, NEW r \in Readers, NEW a \in Artifacts
  PROVE  ContentFor(r, a) \in Content
<1>1. rd[r] \in ReaderState
  BY DEF TypeOK
<1>2. rd[r].name \in Names /\ rd[r].art[a] \in Content
  BY <1>1, ReaderUpdates
<1>3. CASE Has(rd[r].name, a)
  BY <1>2, <1>3, AtType, PackageFields DEF ContentFor, Has
<1>4. CASE ~Has(rd[r].name, a)
  BY <1>2, <1>4 DEF ContentFor
<1>5. QED
  BY <1>3, <1>4

LEMMA LoadType == TypeOK /\ (\E r \in Readers : Load(r)) => TypeOK'
<1> SUFFICES ASSUME TypeOK, NEW r \in Readers, Load(r) PROVE TypeOK'
  OBVIOUS
<1> DEFINE n == rd[r].name
<1>a. rd[r] \in ReaderState /\ n \in Names
  BY ReaderUpdates DEF TypeOK
<1>b. ASSUME UNCHANGED <<storage, writer, powerLost>>,
             rd' \in [Readers -> ReaderState], answer' \in [Readers -> Answers]
      PROVE  TypeOK'
  BY <1>b DEF TypeOK, storage, writer
<1>c. answer \in [Readers -> Answers]
  BY DEF TypeOK
<1>1. ASSUME NEW mode \in Modes, NEW m \in Names, BeginLoad(r, mode, m) PROVE TypeOK'
  <2>1. [Idle EXCEPT !.mode = mode, !.name = m] \in ReaderState
    BY DEF Idle, NoArtifacts, ReaderState
  <2>2. QED
    BY <1>1, <1>b, <1>c, <2>1, AdvanceType DEF BeginLoad
<1>2. CASE ReadManifest(r)
  <2>1. Exists(n) => [rd[r] EXCEPT !.manifest = At(n).manifest] \in ReaderState
    BY <1>a, AtType, PackageFields, ReaderUpdates
  <2>2. QED
    BY <1>2, <1>a, <1>b, <1>c, <2>1, RefuseType, AdvanceType DEF ReadManifest
<1>3. CASE WalkPackage(r)
  <2>1. [rd[r] EXCEPT !.files = {a \in Artifacts : Has(n, a)}] \in ReaderState
    BY <1>a, ReaderUpdates
  <2>2. QED
    BY <1>3, <1>a, <1>b, <1>c, <2>1, RefuseType, AdvanceType DEF WalkPackage
<1>4. CASE ReadChecksums(r)
  BY <1>4, <1>a, <1>b, <1>c, RefuseType, AdvanceType DEF ReadChecksums
<1>5. CASE CheckFiles(r)
  <2>1. Exists(n) => [rd[r] EXCEPT !.checked = TRUE, !.art = At(n).art] \in ReaderState
    BY <1>a, AtType, PackageFields, ReaderUpdates
  <2>2. QED
    BY <1>5, <1>a, <1>b, <1>c, <2>1, RefuseType, AdvanceType DEF CheckFiles
<1>6. CASE ReadFindings(r)
  <2>1. [rd[r] EXCEPT !.art[Findings] = ContentFor(r, Findings)] \in ReaderState
    BY <1>a, ContentForType, ReaderUpdates, PackageAssumption
  <2>2. QED
    BY <1>6, <1>a, <1>b, <1>c, <2>1, RefuseType, AdvanceType DEF ReadFindings
<1>7. CASE ReadCoverage(r)
  <2>1. ASSUME NEW kind \in {"sealed", "legacy"}, NEW c \in Content, Respond(r, kind, c)
        PROVE  rd' \in [Readers -> ReaderState] /\ answer' \in [Readers -> Answers]
    <3>1. rd[r].art[Findings] \in Content
      BY <1>a, ReaderUpdates, PackageAssumption
    <3>2. [kind |-> kind, manifest |-> rd[r].manifest, findings |-> rd[r].art[Findings],
           coverage |-> c, checked |-> rd[r].checked, name |-> rd[r].name] \in Answers
      BY <1>a, <3>1, ReaderUpdates DEF Answers
    <3>3. QED
      BY <2>1, <1>a, <1>c, <3>2, AdvanceType DEF Respond
  <2>2. ContentFor(r, Coverage) \in Content
    BY ContentForType, PackageAssumption
  <2>3. QED
    BY <1>7, <1>b, <2>1, <2>2, RefuseType DEF ReadCoverage
<1>8. CASE LoadLegacy(r)
  <2>1. Has(n, Findings) => At(n).art[Findings] \in Content /\ At(n).art[Coverage] \in Content
    BY <1>a, AtType, PackageFields, PackageAssumption DEF Has
  <2>2. Has(n, Findings) =>
          [NoAnswer EXCEPT !.kind = "legacy", !.name = n,
                           !.findings = At(n).art[Findings],
                           !.coverage = At(n).art[Coverage]] \in Answers
    BY <1>a, <2>1 DEF NoAnswer, Answers
  <2>3. QED
    BY <1>8, <1>a, <1>b, <1>c, <2>2, RefuseType, AdvanceType DEF LoadLegacy
<1>9. QED
  BY <1>1, <1>2, <1>3, <1>4, <1>5, <1>6, <1>7, <1>8 DEF Load

LEMMA StatusStep == StatusGiven /\ [Next]_vars => StatusGiven'
<1> SUFFICES ASSUME StatusGiven, [Next]_vars PROVE StatusGiven'
  OBVIOUS
<1> USE DEF StatusGiven, Goto
<1>1. CASE Writer
  BY <1>1 DEF Writer, BeginArtifact, FillArtifact, EndArtifact, Finalizes, RejectManifest, BeginFinalize,
     CopyFile, EndCopy, BeginManifest, EndManifest, BeginChecksums,
     EndChecksums, SyncStage, Displace, SwapIn, DiscardDisplaced, SyncFolder,
     RestoreDisplaced, DropStage, writer
<1>2. CASE Faults
  BY <1>2 DEF Faults, FailCoverage, FailBeforeSwap, FailInTry, FailInCatch, Crash, PowerLoss,
     Finished
<1>3. ASSUME NEW r \in Readers, Load(r) PROVE StatusGiven'
  BY <1>3 DEF Load, BeginLoad, ReadManifest, WalkPackage, ReadChecksums,
     CheckFiles, ReadFindings, ReadCoverage, LoadLegacy, writer
<1>4. QED
  BY <1>1, <1>2, <1>3 DEF Next, vars

\* Every variable of the package, of the sealing process and of the loading
\* processes stays in its range, whatever fails.
THEOREM TypeCorrect == Spec => []TypeOK
<1>1. Init => StatusGiven
  BY DEF Init, StatusGiven
<1>2. TypeOK /\ UNCHANGED vars => TypeOK'
  BY DEF TypeOK, vars
<1>3. TypeOK /\ StatusGiven /\ [Next]_vars => TypeOK'
  BY <1>2, WriterType, FaultsType, LoadType DEF Next
<1>4. QED
  BY InitType, <1>1, <1>3, StatusStep, PTL DEF Spec

-----------------------------------------------------------------------------
(***************************************************************************)
(* The inductive invariant                                                 *)
(***************************************************************************)
LEMMA InitInv == Init => FolderInv /\ PhaseInv
BY DEF Init, FolderInv, PhaseInv, FirstName, NoNames, EmptyPackage, Early, Staging

\* A folder may be bound if it names the stage "dir" only once that is fsynced.
LEMMA RebindInv ==
  ASSUME FolderInv, NEW f, Rebind(f),
         f["dir"] = "stage" => "stage" \in synced,
         f["partial"] # "stage"
  PROVE  /\ names' \in journal'
         /\ \A g \in journal' : /\ g["dir"] = "stage" => "stage" \in synced
                                /\ g["partial"] # "stage"
BY DEF FolderInv, Rebind

\* Updates of one inode leave the other alone, and change one file.
LEMMA StoreFields ==
  ASSUME TypeOK, NEW i \in Inodes, NEW p, Store(i, p)
  PROVE  pkg'[i] = p /\ \A j \in Inodes \ {i} : pkg'[j] = pkg[j]
BY DEF Store, TypeOK

LEMMA ArtFields ==
  ASSUME NEW p \in Package, NEW a \in Artifacts, NEW c
  PROVE  LET q == [p EXCEPT !.art[a] = c] IN
         /\ q.art = [p.art EXCEPT ![a] = c]
         /\ q.manifest = p.manifest /\ q.sums = p.sums
         /\ q.listed = p.listed /\ q.listedManifest = p.listedManifest
BY DEF Package

LEMMA ManifestFields ==
  ASSUME NEW p \in Package, NEW m
  PROVE  LET q == [p EXCEPT !.manifest = m] IN
         q.art = p.art /\ q.manifest = m
BY DEF Package

LEMMA SumsFields ==
  ASSUME NEW p \in Package
  PROVE  LET t == [p EXCEPT !.sums = "torn"]
             q == [p EXCEPT !.sums = "written", !.listed = p.art,
                            !.listedManifest = p.manifest]
         IN  /\ t.art = p.art /\ t.manifest = p.manifest
             /\ q.art = p.art /\ q.manifest = p.manifest /\ Intact(q)
BY DEF Package, Intact

LEMMA WriterInv == TypeOK /\ FolderInv /\ PhaseInv /\ Writer => FolderInv' /\ PhaseInv'
<1> SUFFICES ASSUME TypeOK, FolderInv, PhaseInv, Writer PROVE FolderInv' /\ PhaseInv'
  OBVIOUS
<1> USE DEF Goto, Early, Staging, Writing, Finalizes
<1>a. pkg["orig"] \in Package /\ pkg["stage"] \in Package /\ cur \in Artifacts
  BY DEF TypeOK
<1>b. pkg["orig"].art \in [Artifacts -> Content] /\ written \in [Artifacts -> Values \cup {"absent"}]
  BY <1>a, PackageFields DEF TypeOK
<1>c. ASSUME UNCHANGED <<cur, status, written>>, NEW f, Recorded(f) PROVE Recorded(f)'
  BY <1>c DEF Recorded, Abandoned
<1>1. ASSUME NEW a \in Artifacts, BeginArtifact(a) PROVE FolderInv' /\ PhaseInv'
  <2>0. pkg'["orig"] = [pkg["orig"] EXCEPT !.art[a] = "torn"] /\ pkg'["stage"] = pkg["stage"]
    <3>1. Store("orig", [pkg["orig"] EXCEPT !.art[a] = "torn"])
      BY <1>1 DEF BeginArtifact
    <3>2. QED
      BY <3>1, StoreFields
  <2>1. pkg'["orig"].art = [pkg["orig"].art EXCEPT ![a] = "torn"]
        /\ pkg'["orig"].manifest = pkg["orig"].manifest
        /\ pkg'["orig"].sums = pkg["orig"].sums
        /\ pkg'["stage"] = pkg["stage"]
    BY <1>1, <1>a, <2>0, ArtFields DEF BeginArtifact
  <2>2. FolderInv'
    BY <1>1, <2>1 DEF BeginArtifact, FolderInv, Whole
  <2>3. PhaseInv'
    BY <1>1, <1>b, <2>1 DEF BeginArtifact, PhaseInv, OthersKept
  <2>4. QED
    BY <2>2, <2>3
<1>2. ASSUME NEW a \in Artifacts, CopyFile(a) PROVE FolderInv' /\ PhaseInv'
  <2>1. pkg'["orig"] = pkg["orig"]
    BY <1>2, StoreFields DEF CopyFile
  <2>2. FolderInv'
    BY <1>2, <2>1 DEF CopyFile, FolderInv, Whole, writer
  <2>3. PhaseInv'
    BY <1>2, <2>1 DEF CopyFile, PhaseInv, writer, Recorded, Abandoned, Whole
  <2>4. QED
    BY <2>2, <2>3
<1>3. ASSUME NEW v \in Values, FillArtifact(v) PROVE FolderInv' /\ PhaseInv'
  <2>0. pkg'["orig"] = [pkg["orig"] EXCEPT !.art[cur] = v] /\ pkg'["stage"] = pkg["stage"]
    <3>1. Store("orig", [pkg["orig"] EXCEPT !.art[cur] = v])
      BY <1>3 DEF FillArtifact
    <3>2. QED
      BY <3>1, StoreFields
  <2>1. pkg'["orig"].art = [pkg["orig"].art EXCEPT ![cur] = v]
        /\ pkg'["orig"].manifest = pkg["orig"].manifest
        /\ pkg'["orig"].sums = pkg["orig"].sums
        /\ pkg'["stage"] = pkg["stage"]
    BY <1>3, <1>a, <2>0, ArtFields DEF FillArtifact
  <2>2. FolderInv'
    BY <1>3, <2>1 DEF FillArtifact, FolderInv
  <2>3. pkg'["orig"].art[cur] # "absent" /\ OthersKept'
    BY <1>3, <1>a, <1>b, <2>1, PackageAssumption DEF FillArtifact, PhaseInv, OthersKept
  <2>4. PhaseInv'
    BY <1>3, <2>3 DEF FillArtifact, PhaseInv
  <2>5. QED
    BY <2>2, <2>4
<1>19. ASSUME NEW v \in Values, EndArtifact(v) PROVE FolderInv' /\ PhaseInv'
  <2>1. FolderInv'
    BY <1>19 DEF EndArtifact, storage, FolderInv
  <2>2. pkg["orig"].art = [written EXCEPT ![cur] = v]
    BY <1>19, <1>a, <1>b DEF EndArtifact, PhaseInv, OthersKept
  <2>3. PhaseInv'
    BY <1>19, <2>2 DEF EndArtifact, storage, PhaseInv
  <2>4. QED
    BY <2>1, <2>3
<1>4. ASSUME NEW s \in Statuses, RejectManifest(s) PROVE FolderInv' /\ PhaseInv'
  BY <1>4 DEF RejectManifest, storage, FolderInv, PhaseInv
<1>5. ASSUME NEW s \in Statuses, BeginFinalize(s) PROVE FolderInv' /\ PhaseInv'
  <2>1. pkg'["orig"] = pkg["orig"]
    BY <1>5, StoreFields DEF BeginFinalize
  <2>2. names' = StagingName
    BY <1>5 DEF BeginFinalize, PhaseInv, Rebind, StagingName
  <2>3. StagingName["dir"] = "orig" /\ StagingName["partial"] = "none"
    BY DEF StagingName, FirstName, NoNames
  <2>4. FolderInv'
    BY <1>5, <2>1, <2>2, <2>3, RebindInv DEF BeginFinalize, FolderInv, Rebind
  <2>5. Recorded(pkg["orig"].art)'
    BY <1>5, <2>1 DEF BeginFinalize, PhaseInv, OthersKept, Recorded, Abandoned, Recorded, Abandoned, Whole
  <2>6. PhaseInv'
    BY <1>5, <2>2, <2>5 DEF BeginFinalize, PhaseInv, Recorded, Abandoned, Whole
  <2>7. QED
    BY <2>4, <2>6
<1>6. CASE EndCopy
  BY <1>6 DEF EndCopy, storage, FolderInv, PhaseInv, Whole, Recorded, Abandoned
<1>7. CASE BeginManifest
  <2>0. pkg'["stage"] = [pkg["stage"] EXCEPT !.manifest = "torn"] /\ pkg'["orig"] = pkg["orig"]
    <3>1. Store("stage", [pkg["stage"] EXCEPT !.manifest = "torn"])
      BY <1>7 DEF BeginManifest
    <3>2. QED
      BY <3>1, StoreFields
  <2>1. pkg'["orig"] = pkg["orig"] /\ pkg'["stage"].art = pkg["stage"].art
    BY <1>7, <1>a, <2>0, ManifestFields DEF BeginManifest
  <2>2. QED
    BY <1>7, <2>1 DEF BeginManifest, FolderInv, PhaseInv, Whole, Recorded, Abandoned
<1>8. CASE EndManifest
  <2>0. pkg'["stage"] = [pkg["stage"] EXCEPT !.manifest = status] /\ pkg'["orig"] = pkg["orig"]
    <3>1. Store("stage", [pkg["stage"] EXCEPT !.manifest = status])
      BY <1>8 DEF EndManifest
    <3>2. QED
      BY <3>1, StoreFields
  <2>1. pkg'["orig"] = pkg["orig"] /\ pkg'["stage"].art = pkg["stage"].art
        /\ pkg'["stage"].manifest = status
    BY <1>8, <1>a, <2>0, ManifestFields DEF EndManifest
  <2>2. QED
    BY <1>8, <2>1 DEF EndManifest, FolderInv, PhaseInv, Whole, Recorded, Abandoned
<1>9. CASE BeginChecksums
  <2>0. pkg'["stage"] = [pkg["stage"] EXCEPT !.sums = "torn"] /\ pkg'["orig"] = pkg["orig"]
    <3>1. Store("stage", [pkg["stage"] EXCEPT !.sums = "torn"])
      BY <1>9 DEF BeginChecksums
    <3>2. QED
      BY <3>1, StoreFields
  <2>1. pkg'["orig"] = pkg["orig"] /\ pkg'["stage"].art = pkg["stage"].art
        /\ pkg'["stage"].manifest = pkg["stage"].manifest
    BY <1>9, <1>a, <2>0, SumsFields DEF BeginChecksums
  <2>2. QED
    BY <1>9, <2>1 DEF BeginChecksums, FolderInv, PhaseInv, Whole, Recorded, Abandoned
<1>10. CASE EndChecksums
  <2>1. pkg'["orig"] = pkg["orig"] /\ pkg'["stage"].art = pkg["stage"].art
        /\ pkg'["stage"].manifest = pkg["stage"].manifest /\ Intact(pkg'["stage"])
    <3> DEFINE full == [pkg["stage"] EXCEPT !.sums = "written", !.listed = pkg["stage"].art,
                                            !.listedManifest = pkg["stage"].manifest]
    <3>1. Store("stage", full)
      BY <1>10 DEF EndChecksums
    <3>2. full.art = pkg["stage"].art /\ full.manifest = pkg["stage"].manifest /\ Intact(full)
      BY <1>a, SumsFields
    <3>3. pkg'["stage"] = full /\ pkg'["orig"] = pkg["orig"]
      <4> HIDE DEF full
      <4> QED BY <3>1, StoreFields
    <3> HIDE DEF full
    <3> QED BY <3>2, <3>3
  <2>2. QED
    BY <1>10, <2>1 DEF EndChecksums, FolderInv, PhaseInv, Whole, Recorded, Abandoned
<1>11. CASE SyncStage
  BY <1>11 DEF SyncStage, FolderInv, PhaseInv, Whole, Recorded, Abandoned
<1>12. CASE Displace
  <2>1. names = StagingName
    BY <1>12 DEF Displace, PhaseInv
  <2>2. names' = [dir |-> "none", sealing |-> "stage", partial |-> "orig"]
    BY <1>12, <2>1 DEF Displace, Rebind, StagingName, FirstName, NoNames
  <2>3. FolderInv'
    BY <1>12, <2>2, RebindInv DEF Displace, FolderInv, Whole, Recorded, Abandoned, Rebind
  <2>4. PhaseInv'
    BY <1>12, <2>2 DEF Displace, PhaseInv
  <2>5. QED
    BY <2>3, <2>4
<1>13. CASE SwapIn
  <2>1. "stage" \in synced /\ names = [dir |-> "none", sealing |-> "stage", partial |-> "orig"]
    BY <1>13 DEF SwapIn, PhaseInv
  <2>2. names' = [dir |-> "stage", sealing |-> "none", partial |-> "orig"]
    BY <1>13, <2>1 DEF SwapIn, Rebind
  <2>3. FolderInv'
    BY <1>13, <2>1, <2>2, RebindInv DEF SwapIn, FolderInv, Whole, Recorded, Abandoned, Rebind
  <2>4. PhaseInv'
    BY <1>13, <2>1, <2>2 DEF SwapIn, PhaseInv
  <2>5. QED
    BY <2>3, <2>4
<1>14. CASE DiscardDisplaced
  <2>1. "stage" \in synced /\ names = [dir |-> "stage", sealing |-> "none", partial |-> "orig"]
    BY <1>14 DEF DiscardDisplaced, PhaseInv
  <2>2. names' = SealedName /\ SealedName["partial"] = "none"
    BY <1>14, <2>1 DEF DiscardDisplaced, Rebind, SealedName, NoNames
  <2>3. FolderInv'
    BY <1>14, <2>1, <2>2, RebindInv DEF DiscardDisplaced, FolderInv, Whole, Recorded, Abandoned, Rebind
  <2>4. PhaseInv'
    BY <1>14, <2>1, <2>2 DEF DiscardDisplaced, PhaseInv
  <2>5. QED
    BY <2>3, <2>4
<1>15. CASE SyncFolder
  BY <1>15 DEF SyncFolder, FolderInv, PhaseInv, Whole, Recorded, Abandoned
<1>16. CASE RestoreDisplaced
  <2>1. CASE names["dir"] = "none" /\ names["partial"] # "none"
    <3> DEFINE f == [names EXCEPT !["dir"] = names["partial"], !["partial"] = "none"]
    <3>1. Rebind(f)
      BY <1>16, <2>1 DEF RestoreDisplaced
    <3>2. f["dir"] = names["partial"] /\ f["partial"] = "none" /\ names["partial"] # "stage"
      BY DEF TypeOK, FolderInv
    <3>3. FolderInv'
      BY <1>16, <3>1, <3>2, RebindInv DEF RestoreDisplaced, FolderInv, Whole, Recorded, Abandoned
    <3>4. QED
      BY <1>16, <3>3 DEF RestoreDisplaced, PhaseInv
  <2>2. CASE ~(names["dir"] = "none" /\ names["partial"] # "none")
    BY <1>16, <2>2 DEF RestoreDisplaced, FolderInv, PhaseInv, Whole, Recorded, Abandoned
  <2>3. QED
    BY <2>1, <2>2
<1>17. CASE DropStage
  <2> DEFINE f == [names EXCEPT !["sealing"] = "none"]
  <2>1. Rebind(f) /\ f["dir"] = names["dir"] /\ f["partial"] = names["partial"]
    BY <1>17 DEF DropStage, TypeOK
  <2>2. FolderInv'
    BY <1>17, <2>1, RebindInv DEF DropStage, FolderInv, Whole, Recorded, Abandoned
  <2>3. QED
    BY <1>17, <2>2 DEF DropStage, PhaseInv
<1>18. QED
  BY <1>1, <1>2, <1>3, <1>4, <1>5, <1>6, <1>7, <1>8, <1>9, <1>10, <1>11,
     <1>12, <1>13, <1>14, <1>15, <1>16, <1>17, <1>19 DEF Writer

LEMMA FaultsInv == TypeOK /\ FolderInv /\ PhaseInv /\ Faults => FolderInv' /\ PhaseInv'
<1> SUFFICES ASSUME TypeOK, FolderInv, PhaseInv, Faults PROVE FolderInv' /\ PhaseInv'
  OBVIOUS
<1> USE DEF Early, Staging, Writing, Finished
<1>1. CASE FailCoverage \/ FailBeforeSwap
  BY <1>1 DEF FailCoverage, FailBeforeSwap, storage, FolderInv, PhaseInv, OthersKept, Whole, Recorded, Abandoned
<1>2. CASE FailInTry
  BY <1>2 DEF FailInTry, storage, FolderInv, PhaseInv, Whole, Recorded, Abandoned
<1>3. CASE FailInCatch
  BY <1>3 DEF FailInCatch, storage, FolderInv, PhaseInv, Whole, Recorded, Abandoned
<1>4. CASE Crash
  BY <1>4 DEF Crash, storage, FolderInv, PhaseInv, Whole, Recorded, Abandoned
<1>5. CASE PowerLoss
  <2>1. PICK o \in AfterPowerLoss(pkg["orig"]), s \in AfterPowerLoss(pkg["stage"]) :
          pkg' = [orig  |-> IF "orig" \in synced THEN pkg["orig"] ELSE o,
                  stage |-> IF "stage" \in synced THEN pkg["stage"] ELSE s]
    BY <1>5, Zenon DEF PowerLoss
  <2>2. o.manifest = "absent" /\ o.sums = "absent"
    BY DEF AfterPowerLoss, FolderInv
  <2>3. pkg'["orig"].manifest = "absent" /\ pkg'["orig"].sums = "absent"
    BY <2>1, <2>2 DEF FolderInv
  <2>4. "stage" \in synced => pkg'["stage"] = pkg["stage"]
    BY <2>1
  <2>5. FolderInv'
    BY <1>5, <2>3, <2>4 DEF PowerLoss, FolderInv, Whole, Recorded, Abandoned
  <2>6. PhaseInv'
    BY <1>5 DEF PowerLoss, PhaseInv
  <2>7. QED
    BY <2>5, <2>6
<1>6. QED
  BY <1>1, <1>2, <1>3, <1>4, <1>5 DEF Faults

\* Loading changes nothing on disk and nothing of the writing process.
LEMMA LoadFrame ==
  ASSUME NEW r \in Readers, Load(r)
  PROVE  UNCHANGED <<storage, writer, powerLost>>
BY DEF Load, BeginLoad, ReadManifest, WalkPackage, ReadChecksums, CheckFiles,
   ReadFindings, ReadCoverage, LoadLegacy

LEMMA StepInv == TypeOK /\ FolderInv /\ PhaseInv /\ [Next]_vars => FolderInv' /\ PhaseInv'
<1> SUFFICES ASSUME TypeOK, FolderInv, PhaseInv, [Next]_vars PROVE FolderInv' /\ PhaseInv'
  OBVIOUS
<1>1. UNCHANGED <<storage, writer>> => FolderInv' /\ PhaseInv'
  BY DEF storage, writer, FolderInv, PhaseInv, OthersKept, Whole, Recorded, Abandoned
<1>2. UNCHANGED vars => UNCHANGED <<storage, writer>>
  BY DEF vars, storage, writer
<1>3. QED
  BY <1>1, <1>2, WriterInv, FaultsInv, LoadFrame DEF Next

THEOREM Inductive == Spec => [](TypeOK /\ FolderInv /\ PhaseInv)
<1>1. QED
  BY InitInv, StepInv, TypeCorrect, PTL DEF Spec

\* Once finalize() has returned, the run's directory is the whole sealed
\* package, alone under the run's names, and a power loss does not undo it.
THEOREM Durability == Spec => []SealedIsDurable
<1>1. TypeOK /\ FolderInv /\ PhaseInv => SealedIsDurable
  BY DEF SealedIsDurable, FolderInv, PhaseInv, Whole, SealedName, NoNames
<1>2. QED
  BY <1>1, Inductive, PTL

\* In every reachable state, after any error, crash or power loss, the run's
\* directory is either still open (no manifest, no checksums) or whole.
THEOREM NeverHalfSealed == Spec => []DirectoryIsOpenOrWhole
<1>1. TypeOK /\ FolderInv /\ PhaseInv => DirectoryIsOpenOrWhole
  <2> SUFFICES ASSUME TypeOK, FolderInv, Exists("dir") PROVE DirectoryIsOpenOrWhole
    BY DEF DirectoryIsOpenOrWhole
  <2>1. CASE names["dir"] = "stage"
    BY <2>1 DEF FolderInv, Whole, DirectoryIsOpenOrWhole, At
  <2>2. CASE names["dir"] = "orig"
    BY <2>2 DEF FolderInv, DirectoryIsOpenOrWhole, At
  <2>3. QED
    BY <2>1, <2>2 DEF TypeOK, Exists
<1>2. QED
  BY <1>1, Inductive, PTL
-----------------------------------------------------------------------------
(***************************************************************************)
(* Evidence is kept                                                        *)
(***************************************************************************)
Good(p) == \A a \in Artifacts : p.art[a] = written[a] \/ (a = cur /\ p.art[a] # "absent")

\* Until a power loss the evidence is in the original, which has one of the
\* run's lasting names, or the swap has taken place.
KeptInv ==
  ~powerLost =>
    \/ "orig" \in {names["dir"], names["partial"]} /\ Good(pkg["orig"])
    \/ names["dir"] = "stage"

LEMMA KeptWriter == TypeOK /\ FolderInv /\ PhaseInv /\ KeptInv /\ Writer => KeptInv'
<1> SUFFICES ASSUME TypeOK, FolderInv, PhaseInv, KeptInv, Writer PROVE KeptInv'
  OBVIOUS
<1> USE DEF Goto, Early, Staging, Writing, Finalizes
<1>a. pkg["orig"] \in Package /\ pkg["stage"] \in Package /\ cur \in Artifacts
  BY DEF TypeOK
<1>b. pkg["orig"].art \in [Artifacts -> Content] /\ written \in [Artifacts -> Values \cup {"absent"}]
  BY <1>a, PackageFields DEF TypeOK
<1>c. ASSUME pkg'["orig"] = pkg["orig"], UNCHANGED <<cur, written, powerLost>>,
             /\ names["dir"] = "orig" => "orig" \in {names'["dir"], names'["partial"]}
             /\ names["partial"] = "orig" => \/ "orig" \in {names'["dir"], names'["partial"]}
                                             \/ names'["dir"] = "stage"
             /\ names["dir"] = "stage" => names'["dir"] = "stage"
      PROVE  KeptInv'
  BY <1>c DEF KeptInv, Good
<1>1. ASSUME NEW a \in Artifacts, BeginArtifact(a) PROVE KeptInv'
  <2>1. Store("orig", [pkg["orig"] EXCEPT !.art[a] = "torn"])
    BY <1>1 DEF BeginArtifact
  <2>2. pkg'["orig"] = [pkg["orig"] EXCEPT !.art[a] = "torn"]
    BY <2>1, StoreFields
  <2>3. pkg'["orig"].art = [pkg["orig"].art EXCEPT ![a] = "torn"]
    BY <1>a, <2>2, ArtFields
  <2>4. names = FirstName /\ pkg["orig"].art = written
    BY <1>1 DEF BeginArtifact, PhaseInv
  <2>5. QED
    BY <1>1, <1>b, <2>3, <2>4 DEF BeginArtifact, KeptInv, Good, FirstName, NoNames
<1>2. ASSUME NEW v \in Values, FillArtifact(v) PROVE KeptInv'
  <2>1. Store("orig", [pkg["orig"] EXCEPT !.art[cur] = v])
    BY <1>2 DEF FillArtifact
  <2>2. pkg'["orig"] = [pkg["orig"] EXCEPT !.art[cur] = v]
    BY <2>1, StoreFields
  <2>3. pkg'["orig"].art = [pkg["orig"].art EXCEPT ![cur] = v] /\ v # "absent"
    BY <1>a, <2>2, ArtFields, PackageAssumption
  <2>4. names = FirstName /\ OthersKept
    BY <1>2 DEF FillArtifact, PhaseInv, Writing
  <2>5. QED
    BY <1>2, <1>a, <1>b, <2>3, <2>4 DEF FillArtifact, KeptInv, Good, OthersKept, FirstName, NoNames
<1>13. ASSUME NEW v \in Values, EndArtifact(v) PROVE KeptInv'
  BY <1>13, <1>a, <1>b DEF EndArtifact, storage, PhaseInv, Writing, OthersKept, KeptInv, Good,
     FirstName, NoNames
<1>3. ASSUME NEW a \in Artifacts, CopyFile(a) PROVE KeptInv'
  BY <1>3, <1>c, StoreFields DEF CopyFile, writer
<1>4. ASSUME NEW s \in Statuses, RejectManifest(s) PROVE KeptInv'
  BY <1>4, <1>c DEF RejectManifest, storage
<1>5. ASSUME NEW s \in Statuses, BeginFinalize(s) PROVE KeptInv'
  <2>1. pkg'["orig"] = pkg["orig"]
    BY <1>5, StoreFields DEF BeginFinalize
  <2>2. names'["dir"] = names["dir"] /\ names'["partial"] = names["partial"]
    BY <1>5 DEF BeginFinalize, Rebind, TypeOK
  <2>3. QED
    BY <1>5, <1>c, <2>1, <2>2 DEF BeginFinalize
<1>6. CASE EndCopy \/ SyncStage \/ SyncFolder
  BY <1>6, <1>c DEF EndCopy, SyncStage, SyncFolder, storage
<1>7. CASE BeginManifest \/ EndManifest \/ BeginChecksums \/ EndChecksums
  <2>1. UNCHANGED <<names, cur, written, powerLost>>
    BY <1>7 DEF BeginManifest, EndManifest, BeginChecksums, EndChecksums
  <2>2. \E p : Store("stage", p)
    BY <1>7 DEF BeginManifest, EndManifest, BeginChecksums, EndChecksums
  <2>3. QED
    BY <1>c, <2>1, <2>2, StoreFields
<1>8. CASE Displace
  <2>1. names["dir"] = "orig"
    BY <1>8 DEF Displace, PhaseInv, StagingName, FirstName, NoNames
  <2>2. names'["partial"] = "orig"
    BY <1>8, <2>1 DEF Displace, Rebind, TypeOK
  <2>3. QED
    BY <1>8, <1>c, <2>1, <2>2 DEF Displace
<1>9. CASE SwapIn \/ DiscardDisplaced
  <2>1. names'["dir"] = "stage"
    BY <1>9 DEF SwapIn, DiscardDisplaced, PhaseInv, Rebind, TypeOK
  <2>2. QED
    BY <2>1 DEF KeptInv
<1>10. CASE RestoreDisplaced
  <2>1. /\ names["dir"] = "orig" => names'["dir"] = "orig"
        /\ names["partial"] = "orig" => "orig" \in {names'["dir"], names'["partial"]}
        /\ names["dir"] = "stage" => names'["dir"] = "stage"
    BY <1>10 DEF RestoreDisplaced, Rebind, TypeOK
  <2>2. QED
    BY <1>10, <1>c, <2>1 DEF RestoreDisplaced
<1>11. CASE DropStage
  <2>1. names'["dir"] = names["dir"] /\ names'["partial"] = names["partial"]
    BY <1>11 DEF DropStage, Rebind, TypeOK
  <2>2. QED
    BY <1>11, <1>c, <2>1 DEF DropStage
<1>12. QED
  BY <1>1, <1>2, <1>3, <1>4, <1>5, <1>6, <1>7, <1>8, <1>9, <1>10, <1>11, <1>13 DEF Writer

LEMMA KeptStep == TypeOK /\ FolderInv /\ PhaseInv /\ KeptInv /\ [Next]_vars => KeptInv'
<1> SUFFICES ASSUME TypeOK, FolderInv, PhaseInv, KeptInv, [Next]_vars PROVE KeptInv'
  OBVIOUS
<1>1. UNCHANGED <<storage, writer, powerLost>> => KeptInv'
  BY DEF storage, writer, KeptInv, Good
<1>2. CASE Faults
  <2>1. powerLost' \/ UNCHANGED <<names, pkg, cur, written, powerLost>>
    BY <1>2 DEF Faults, FailCoverage, FailBeforeSwap, FailInTry, FailInCatch, Crash, PowerLoss, storage
  <2>2. QED
    BY <2>1 DEF KeptInv, Good
<1>3. QED
  BY <1>1, <1>2, KeptWriter, LoadFrame DEF Next, vars, storage, writer

\* After any error or crash of the process, some directory of the run holds
\* every artifact whose write returned: the swap moves evidence, and at no
\* step is it in no directory at all.
THEOREM NothingLost == Spec => []EvidenceKept
<1>1. Init => KeptInv
  BY DEF Init, KeptInv, Good, FirstName, NoNames, EmptyPackage
<1>2. TypeOK /\ FolderInv /\ KeptInv => EvidenceKept
  <2> SUFFICES ASSUME TypeOK, FolderInv, KeptInv, ~powerLost
               PROVE  \E n \in Names : Exists(n) /\ Good(At(n))
    BY DEF EvidenceKept, Good
  <2>1. CASE "orig" \in {names["dir"], names["partial"]} /\ Good(pkg["orig"])
    BY <2>1 DEF Exists, At
  <2>2. CASE names["dir"] = "stage"
    <3>1. Good(pkg["stage"])
      BY <2>2 DEF FolderInv, Whole, Recorded, Abandoned, Good
    <3>2. QED
      BY <2>2, <3>1 DEF Exists, At
  <2>3. QED
    BY <2>1, <2>2 DEF KeptInv
<1>3. QED
  BY <1>1, <1>2, KeptStep, Inductive, PTL DEF Spec

-----------------------------------------------------------------------------
(***************************************************************************)
(* What loading processes are told                                         *)
(***************************************************************************)
\* finalize() was called: the process writes no artifact any more.
Closed == wpc \notin Writing

\* What the stage says of itself is torn, or is what the process had when
\* finalize() was called.
StageInv ==
  LET p == pkg["stage"] IN
  /\ p.manifest \notin {"absent", "torn"} => p.manifest = status /\ Closed
  /\ p.sums = "written" => Recorded(p.listed) /\ p.listedManifest = status /\ Closed

\* A loading process that has read a manifest has read that of the stage, and
\* the bytes it has checked are those that were recorded; past the findings
\* there is no abandoned coverage.json among them.
ReaderInv ==
  \A r \in Readers :
    /\ rd[r].pc \in {"walk", "sums", "check"} => rd[r].manifest = status /\ Closed
    /\ rd[r].checked => rd[r].manifest = status /\ Recorded(rd[r].art) /\ Closed
    /\ rd[r].checked /\ rd[r].pc = "coverage" => rd[r].art = written
    /\ answer[r].checked => Closed

LEMMA StageFields ==
  ASSUME NEW p \in Package
  PROVE  LET m == [p EXCEPT !.manifest = "torn"]
             s == [p EXCEPT !.manifest = status]
             t == [p EXCEPT !.sums = "torn"]
         IN  /\ m.manifest = "torn" /\ m.sums = p.sums /\ m.listed = p.listed
                                    /\ m.listedManifest = p.listedManifest
             /\ s.manifest = status /\ s.sums = p.sums /\ s.listed = p.listed
                                    /\ s.listedManifest = p.listedManifest
             /\ t.manifest = p.manifest /\ t.sums = "torn"
BY DEF Package

LEMMA ChecksumFields ==
  ASSUME NEW p \in Package
  PROVE  LET q == [p EXCEPT !.sums = "written", !.listed = p.art, !.listedManifest = p.manifest]
         IN  /\ q.manifest = p.manifest /\ q.listed = p.art /\ q.listedManifest = p.manifest
BY DEF Package

LEMMA StageWriter == TypeOK /\ PhaseInv /\ StageInv /\ Writer => StageInv'
<1> SUFFICES ASSUME TypeOK, PhaseInv, StageInv, Writer PROVE StageInv'
  OBVIOUS
<1> USE DEF Goto, Staging, Writing, Finalizes, Closed
<1>a. pkg["stage"] \in Package /\ cur \in Artifacts
  BY DEF TypeOK
<1>b. ASSUME pkg'["stage"] = pkg["stage"],
             Closed => Closed' /\ UNCHANGED <<cur, status, written>>
      PROVE  StageInv'
  BY <1>b DEF StageInv, Recorded, Abandoned
<1>1. ASSUME NEW a \in Artifacts, BeginArtifact(a) PROVE StageInv'
  BY <1>1, <1>b, StoreFields DEF BeginArtifact
<1>2. ASSUME NEW v \in Values, FillArtifact(v) PROVE StageInv'
  BY <1>2, <1>b, StoreFields DEF FillArtifact
<1>12. ASSUME NEW v \in Values, EndArtifact(v) PROVE StageInv'
  BY <1>12, <1>b DEF EndArtifact, storage
<1>3. ASSUME NEW a \in Artifacts, CopyFile(a) PROVE StageInv'
  <2>1. Store("stage", [pkg["stage"] EXCEPT !.art[a] = pkg["orig"].art[a]])
    BY <1>3 DEF CopyFile
  <2>2. pkg'["stage"] = [pkg["stage"] EXCEPT !.art[a] = pkg["orig"].art[a]]
    BY <2>1, StoreFields
  <2>3. /\ pkg'["stage"].manifest = pkg["stage"].manifest /\ pkg'["stage"].sums = pkg["stage"].sums
        /\ pkg'["stage"].listed = pkg["stage"].listed
        /\ pkg'["stage"].listedManifest = pkg["stage"].listedManifest
    <3>1. pkg["orig"].art[a] \in Content
      BY PackageFields DEF TypeOK
    <3>2. QED
      BY <1>a, <2>2, <3>1, ArtFields
  <2>4. QED
    BY <1>3, <2>3 DEF CopyFile, StageInv, Recorded, Abandoned, writer
<1>4. ASSUME NEW s \in Statuses, RejectManifest(s) PROVE StageInv'
  BY <1>4, <1>b DEF RejectManifest, storage
<1>5. ASSUME NEW s \in Statuses, BeginFinalize(s) PROVE StageInv'
  <2>1. pkg'["stage"] = EmptyPackage
    BY <1>5, StoreFields DEF BeginFinalize
  <2>2. QED
    BY <2>1 DEF StageInv, EmptyPackage
<1>6. CASE EndCopy \/ SyncStage \/ SyncFolder \/ Displace \/ SwapIn \/ DiscardDisplaced
           \/ RestoreDisplaced \/ DropStage
  BY <1>6, <1>b DEF EndCopy, SyncStage, SyncFolder, Displace, SwapIn, DiscardDisplaced,
     RestoreDisplaced, DropStage, storage
<1>7. CASE BeginManifest
  <2>1. Store("stage", [pkg["stage"] EXCEPT !.manifest = "torn"])
    BY <1>7 DEF BeginManifest
  <2>2. pkg'["stage"] = [pkg["stage"] EXCEPT !.manifest = "torn"]
    BY <2>1, StoreFields
  <2>3. QED
    BY <1>7, <1>a, <2>2, StageFields DEF BeginManifest, StageInv, Recorded, Abandoned
<1>8. CASE EndManifest
  <2>1. Store("stage", [pkg["stage"] EXCEPT !.manifest = status])
    BY <1>8 DEF EndManifest
  <2>2. pkg'["stage"] = [pkg["stage"] EXCEPT !.manifest = status]
    BY <2>1, StoreFields
  <2>3. QED
    BY <1>8, <1>a, <2>2, StageFields DEF EndManifest, StageInv, Recorded, Abandoned
<1>9. CASE BeginChecksums
  <2>1. Store("stage", [pkg["stage"] EXCEPT !.sums = "torn"])
    BY <1>9 DEF BeginChecksums
  <2>2. pkg'["stage"] = [pkg["stage"] EXCEPT !.sums = "torn"]
    BY <2>1, StoreFields
  <2>3. QED
    BY <1>9, <1>a, <2>2, StageFields DEF BeginChecksums, StageInv, Recorded, Abandoned
<1>10. CASE EndChecksums
  <2> DEFINE full == [pkg["stage"] EXCEPT !.sums = "written", !.listed = pkg["stage"].art,
                                          !.listedManifest = pkg["stage"].manifest]
  <2>1. Store("stage", full)
    BY <1>10 DEF EndChecksums
  <2>2. pkg'["stage"] = full
    <3> HIDE DEF full
    <3> QED BY <2>1, StoreFields
  <2>3. Recorded(pkg["stage"].art) /\ pkg["stage"].manifest = status
    BY <1>10 DEF EndChecksums, PhaseInv
  <2>4. /\ pkg'["stage"].manifest = status /\ pkg'["stage"].listed = pkg["stage"].art
        /\ pkg'["stage"].listedManifest = status
    BY <1>a, <2>2, <2>3, ChecksumFields
  <2>5. QED
    BY <1>10, <2>3, <2>4 DEF EndChecksums, StageInv, Recorded, Abandoned
<1>11. QED
  BY <1>1, <1>2, <1>3, <1>4, <1>5, <1>6, <1>7, <1>8, <1>9, <1>10, <1>12 DEF Writer

\* A fault never reopens the run.
LEMMA FaultsClosed ==
  Faults => /\ Closed => Closed'
            /\ UNCHANGED <<cur, status, written, answer>>
BY DEF Faults, FailCoverage, FailBeforeSwap, FailInTry, FailInCatch, Crash, PowerLoss, Closed, Writing, Finished

LEMMA StageFaults == TypeOK /\ StageInv /\ Faults => StageInv'
<1> SUFFICES ASSUME TypeOK, StageInv, Faults PROVE StageInv'
  OBVIOUS
<1>1. CASE pkg' = pkg
  BY <1>1, FaultsClosed DEF StageInv, Recorded, Abandoned
<1>2. CASE PowerLoss
  <2>1. PICK o \in AfterPowerLoss(pkg["orig"]), s \in AfterPowerLoss(pkg["stage"]) :
          pkg' = [orig  |-> IF "orig" \in synced THEN pkg["orig"] ELSE o,
                  stage |-> IF "stage" \in synced THEN pkg["stage"] ELSE s]
    BY <1>2, Zenon DEF PowerLoss
  <2>2. /\ s.manifest \in {pkg["stage"].manifest, "torn"} /\ s.sums \in {pkg["stage"].sums, "torn"}
        /\ s.listed = pkg["stage"].listed /\ s.listedManifest = pkg["stage"].listedManifest
    BY DEF AfterPowerLoss
  <2>3. pkg'["stage"] \in {pkg["stage"], s}
    BY <2>1
  <2>4. QED
    BY <2>2, <2>3, FaultsClosed DEF StageInv, Recorded, Abandoned
<1>3. QED
  BY <1>1, <1>2 DEF Faults, FailCoverage, FailBeforeSwap, FailInTry, FailInCatch, Crash, storage

LEMMA StageStep == TypeOK /\ PhaseInv /\ StageInv /\ [Next]_vars => StageInv'
<1>1. UNCHANGED <<storage, writer>> /\ StageInv => StageInv'
  BY DEF storage, writer, StageInv, Closed, Recorded, Abandoned
<1>2. QED
  BY <1>1, StageWriter, StageFaults, LoadFrame DEF Next, vars, storage, writer

\* A loading process changes what it remembers and what it was told, alone.
LEMMA LoadOthers ==
  ASSUME TypeOK, NEW r \in Readers, Load(r), NEW q \in Readers \ {r}
  PROVE  rd'[q] = rd[q] /\ answer'[q] = answer[q]
BY DEF TypeOK, Load, BeginLoad, ReadManifest, WalkPackage, ReadChecksums, CheckFiles,
   ReadFindings, ReadCoverage, LoadLegacy, Refuse, Respond, Advance

\* What Advance and Refuse leave of a loading process.
LEMMA Advanced ==
  ASSUME TypeOK, NEW r \in Readers, NEW pc, NEW x \in ReaderState, Advance(r, pc, x)
  PROVE  /\ rd'[r].pc = pc /\ rd'[r].checked = x.checked /\ rd'[r].manifest = x.manifest
         /\ rd'[r].art = x.art /\ rd'[r].mode = x.mode /\ rd'[r].name = x.name
<1>1. rd'[r] = [x EXCEPT !.pc = pc]
  BY DEF TypeOK, Advance
<1>2. QED
  BY <1>1 DEF ReaderState

LEMMA Refused ==
  ASSUME TypeOK, NEW r \in Readers, Refuse(r)
  PROVE  /\ rd'[r].pc = "done" /\ rd'[r].checked = rd[r].checked /\ rd'[r].manifest = rd[r].manifest
         /\ rd'[r].art = rd[r].art /\ rd'[r].mode = rd[r].mode /\ rd'[r].name = rd[r].name
         /\ answer'[r] = [NoAnswer EXCEPT !.kind = "refused", !.name = rd[r].name]
<1>1. rd[r] \in ReaderState /\ Advance(r, "done", rd[r])
  BY DEF TypeOK, Refuse
<1>2. answer'[r] = [NoAnswer EXCEPT !.kind = "refused", !.name = rd[r].name]
  BY DEF TypeOK, Refuse
<1>3. QED
  BY <1>1, <1>2, Advanced

\* A directory whose manifest can be read, or that has a list of checksums,
\* is the stage.
LEMMA Speaks ==
  ASSUME TypeOK, FolderInv, NEW n \in Names, Exists(n),
         At(n).manifest # "absent" \/ At(n).sums # "absent"
  PROVE  At(n) = pkg["stage"]
BY DEF TypeOK, FolderInv, Exists, At

LEMMA ReaderLoad ==
  ASSUME TypeOK, FolderInv, StageInv, ReaderInv, CheckedAnswerIsSealed, NEW r \in Readers, Load(r)
  PROVE  ReaderInv' /\ CheckedAnswerIsSealed'
<1> DEFINE n == rd[r].name
<1>a. rd[r] \in ReaderState /\ n \in Names
  BY ReaderUpdates DEF TypeOK
<1>b. UNCHANGED <<cur, status, written>> /\ (Closed' <=> Closed)
  BY LoadFrame DEF writer, Closed
<1>c. ASSUME rd'[r].pc \in {"walk", "sums", "check"} => rd'[r].manifest = status /\ Closed,
             rd'[r].checked => rd'[r].manifest = status /\ Recorded(rd'[r].art) /\ Closed,
             rd'[r].checked /\ rd'[r].pc = "coverage" => rd'[r].art = written,
             answer'[r].checked =>
               /\ Closed
               /\ answer'[r].manifest = status
               /\ answer'[r].findings = written[Findings]
               /\ answer'[r].kind = "sealed" => answer'[r].coverage = written[Coverage]
      PROVE  ReaderInv' /\ CheckedAnswerIsSealed'
  BY <1>b, <1>c, LoadOthers DEF ReaderInv, CheckedAnswerIsSealed, Recorded, Abandoned
<1>d. ASSUME answer'[r] = answer[r], rd'[r].checked = rd[r].checked,
             rd'[r].checked => rd'[r].art = rd[r].art /\ rd'[r].manifest = rd[r].manifest,
             rd'[r].pc \in {"walk", "sums", "check"} => rd'[r].manifest = status /\ Closed,
             rd'[r].checked /\ rd'[r].pc = "coverage" => rd'[r].art = written
      PROVE  ReaderInv' /\ CheckedAnswerIsSealed'
  BY <1>c, <1>d DEF ReaderInv, CheckedAnswerIsSealed
<1>e. CASE Refuse(r)
  <2>1. ~answer'[r].checked
    BY <1>e, Refused DEF NoAnswer
  <2>2. QED
    BY <1>c, <1>e, <2>1, Refused DEF ReaderInv
<1>1. ASSUME NEW mode \in Modes, NEW m \in Names, BeginLoad(r, mode, m)
      PROVE  ReaderInv' /\ CheckedAnswerIsSealed'
  <2> DEFINE x == [Idle EXCEPT !.mode = mode, !.name = m]
  <2>1. x \in ReaderState /\ x.checked = FALSE
    BY DEF Idle, NoArtifacts, ReaderState
  <2>2. rd'[r].pc = "manifest" /\ rd'[r].checked = FALSE
    <3>1. Advance(r, "manifest", x)
      BY <1>1 DEF BeginLoad
    <3> HIDE DEF x
    <3>2. QED
      BY <2>1, <3>1, Advanced
  <2>3. QED
    BY <1>1, <1>c, <2>2 DEF BeginLoad, ReaderInv, CheckedAnswerIsSealed
<1>2. CASE ReadManifest(r)
  <2>1. CASE Advance(r, "fallback", rd[r]) /\ UNCHANGED answer
    BY <1>a, <1>d, <2>1, Advanced
  <2>2. CASE /\ Exists(n) /\ At(n).manifest \notin {"absent", "torn"} /\ UNCHANGED answer
             /\ Advance(r, "walk", [rd[r] EXCEPT !.manifest = At(n).manifest])
    <3>1. At(n).manifest = status /\ Closed
      BY <1>a, <2>2, Speaks DEF StageInv
    <3> DEFINE x == [rd[r] EXCEPT !.manifest = status]
    <3>2. x \in ReaderState /\ x.manifest = status /\ x.checked = rd[r].checked /\ x.art = rd[r].art
      <4>1. At(n).manifest \in Statuses \cup Reserved
        BY <1>a, <2>2, AtType, PackageFields
      <4>2. QED
        BY <1>a, <3>1, <4>1 DEF ReaderState
    <3>3. Advance(r, "walk", x)
      BY <2>2, <3>1
    <3> HIDE DEF x
    <3>4. QED
      BY <1>c, <2>2, <3>1, <3>2, <3>3, Advanced DEF ReaderInv, CheckedAnswerIsSealed
  <2>3. QED
    BY <1>2, <1>e, <2>1, <2>2 DEF ReadManifest
<1>3. CASE WalkPackage(r)
  <2>1. CASE Advance(r, "sums", [rd[r] EXCEPT !.files = {a \in Artifacts : Has(n, a)}]) /\ UNCHANGED answer
    <3> DEFINE x == [rd[r] EXCEPT !.files = {a \in Artifacts : Has(n, a)}]
    <3>1. x \in ReaderState /\ x.manifest = rd[r].manifest /\ x.checked = rd[r].checked /\ x.art = rd[r].art
      BY <1>a DEF ReaderState
    <3>2. Advance(r, "sums", x)
      BY <2>1
    <3> HIDE DEF x
    <3>3. QED
      BY <1>3, <1>d, <2>1, <3>1, <3>2, Advanced DEF WalkPackage, ReaderInv
  <2>2. QED
    BY <1>3, <1>e, <2>1 DEF WalkPackage
<1>4. CASE ReadChecksums(r)
  <2>1. ASSUME NEW pc \in {"check", "findings"}, Advance(r, pc, rd[r]), UNCHANGED answer
        PROVE  ReaderInv' /\ CheckedAnswerIsSealed'
    BY <1>4, <1>a, <1>d, <2>1, Advanced DEF ReadChecksums, ReaderInv
  <2>2. QED
    BY <1>4, <1>e, <2>1 DEF ReadChecksums
<1>5. CASE CheckFiles(r)
  <2>1. CASE /\ Exists(n) /\ Intact(At(n)) /\ UNCHANGED answer
             /\ Advance(r, "findings", [rd[r] EXCEPT !.checked = TRUE, !.art = At(n).art])
    <3>1. PICK bytes \in [Artifacts -> Content] : bytes = At(n).art
      BY <1>a, <2>1, AtType, PackageFields
    <3>7. Recorded(bytes)
      BY <1>a, <2>1, <3>1, Speaks DEF StageInv, Intact
    <3> DEFINE x == [rd[r] EXCEPT !.checked = TRUE, !.art = bytes]
    <3>2. x \in ReaderState /\ x.manifest = rd[r].manifest /\ x.art = bytes
      <4>1. At(n).art \in [Artifacts -> Content]
        BY <1>a, <2>1, AtType, PackageFields
      <4>2. QED
        BY <1>a, <3>1, <4>1 DEF ReaderState
    <3>3. Advance(r, "findings", x)
      BY <2>1, <3>1
    <3>4. rd[r].manifest = status /\ Closed
      BY <1>5 DEF CheckFiles, ReaderInv
    <3> HIDE DEF x
    <3>5. rd'[r].pc = "findings" /\ rd'[r].manifest = status /\ rd'[r].art = bytes
      BY <3>2, <3>3, <3>4, Advanced
    <3>6. QED
      BY <1>c, <2>1, <3>4, <3>5, <3>7 DEF ReaderInv, CheckedAnswerIsSealed
  <2>2. QED
    BY <1>5, <1>e, <2>1 DEF CheckFiles
<1>6. CASE ReadFindings(r)
  <2>1. CASE /\ Advance(r, "coverage", [rd[r] EXCEPT !.art[Findings] = ContentFor(r, Findings)])
             /\ ContentFor(r, Findings) \in Values /\ UNCHANGED answer
    <3> DEFINE x == [rd[r] EXCEPT !.art[Findings] = ContentFor(r, Findings)]
    <3>1. x \in ReaderState /\ x.manifest = rd[r].manifest /\ x.checked = rd[r].checked
      <4>1. ContentFor(r, Findings) \in Content
        BY ContentForType, PackageAssumption
      <4>2. QED
        BY <1>a, <4>1, PackageAssumption DEF ReaderState
    <3>2. rd[r].checked => x.art = rd[r].art
      BY <1>a, PackageAssumption DEF ContentFor, ReaderState
    <3>5. rd[r].checked => rd[r].art = written
      <4>1. rd[r].checked => rd[r].art[Findings] \in Values /\ Recorded(rd[r].art)
        BY <1>6, <2>1 DEF ReadFindings, ContentFor, ReaderInv
      <4>2. rd[r].checked => written[Findings] # "absent"
        BY <4>1, PackageAssumption DEF Recorded, Abandoned
      <4>3. rd[r].checked => \A a \in Artifacts : rd[r].art[a] = written[a]
        BY <4>1, <4>2 DEF Recorded, Abandoned
      <4>4. rd[r].art \in [Artifacts -> Content] /\ written \in [Artifacts -> Values \cup {"absent"}]
        BY <1>a, ReaderUpdates DEF TypeOK
      <4>5. QED
        BY <4>3, <4>4
    <3>3. Advance(r, "coverage", x)
      BY <2>1
    <3> HIDE DEF x
    <3>4. QED
      BY <1>d, <2>1, <3>1, <3>2, <3>3, <3>5, Advanced
  <2>2. QED
    BY <1>6, <1>e, <2>1 DEF ReadFindings
<1>7. CASE ReadCoverage(r)
  <2>1. ASSUME NEW kind, NEW c, Respond(r, kind, c), c = ContentFor(r, Coverage) \/ kind = "legacy"
        PROVE  ReaderInv' /\ CheckedAnswerIsSealed'
    <3>1. Advance(r, "done", rd[r])
      BY <2>1 DEF Respond
    <3>2. answer'[r] = [kind |-> kind, manifest |-> rd[r].manifest,
                        findings |-> rd[r].art[Findings], coverage |-> c,
                        checked |-> rd[r].checked, name |-> rd[r].name]
      BY <2>1 DEF Respond, TypeOK
    <3>3. rd[r].checked => kind = "legacy" \/ c = rd[r].art[Coverage]
      BY <2>1 DEF ContentFor
    <3>4. rd[r].checked => rd[r].art = written /\ rd[r].manifest = status /\ Closed
      BY <1>7 DEF ReadCoverage, ReaderInv
    <3>5. rd[r].checked => Recorded(rd[r].art)
      BY DEF ReaderInv
    <3>6. QED
      BY <1>a, <1>c, <3>1, <3>2, <3>3, <3>4, <3>5, Advanced
  <2>2. QED
    BY <1>7, <1>e, <2>1 DEF ReadCoverage
<1>8. CASE LoadLegacy(r)
  <2> DEFINE legacy == [NoAnswer EXCEPT !.kind = "legacy", !.name = n,
                                        !.findings = At(n).art[Findings],
                                        !.coverage = At(n).art[Coverage]]
  <2>1. CASE Advance(r, "done", rd[r]) /\ answer' = [answer EXCEPT ![r] = legacy]
    <3>1. ~legacy.checked
      BY DEF NoAnswer
    <3>2. answer'[r] = legacy
      BY <2>1 DEF TypeOK
    <3> HIDE DEF legacy
    <3>3. rd'[r].pc = "done" /\ rd'[r].checked = rd[r].checked
          /\ rd'[r].manifest = rd[r].manifest /\ rd'[r].art = rd[r].art
      BY <1>a, <2>1, Advanced
    <3>4. QED
      BY <1>c, <3>1, <3>2, <3>3 DEF ReaderInv
  <2>2. QED
    BY <1>8, <1>e, <2>1 DEF LoadLegacy
<1>9. QED
  BY <1>1, <1>2, <1>3, <1>4, <1>5, <1>6, <1>7, <1>8 DEF Load

LEMMA ReaderStep ==
  /\ TypeOK /\ FolderInv /\ StageInv /\ ReaderInv /\ CheckedAnswerIsSealed /\ [Next]_vars
  => ReaderInv' /\ CheckedAnswerIsSealed'
<1> SUFFICES ASSUME TypeOK, FolderInv, StageInv, ReaderInv, CheckedAnswerIsSealed, [Next]_vars
             PROVE  ReaderInv' /\ CheckedAnswerIsSealed'
  OBVIOUS
<1>1. CASE Writer
  <2>1. UNCHANGED <<rd, answer>>
    BY <1>1 DEF Writer, BeginArtifact, FillArtifact, EndArtifact, Finalizes, RejectManifest, BeginFinalize, CopyFile, EndCopy,
       BeginManifest, EndManifest, BeginChecksums, EndChecksums, SyncStage, Displace, SwapIn,
       DiscardDisplaced, SyncFolder, RestoreDisplaced, DropStage
  <2>2. Closed => Closed' /\ UNCHANGED <<cur, status, written>>
    BY <1>1 DEF Writer, BeginArtifact, FillArtifact, EndArtifact, Finalizes, RejectManifest, BeginFinalize, CopyFile, EndCopy,
       BeginManifest, EndManifest, BeginChecksums, EndChecksums, SyncStage, Displace, SwapIn,
       DiscardDisplaced, SyncFolder, RestoreDisplaced, DropStage, Goto, Closed, Writing, writer
  <2>3. QED
    BY <2>1, <2>2 DEF ReaderInv, CheckedAnswerIsSealed, Recorded, Abandoned
<1>2. CASE Faults
  <2>1. \A r \in Readers : rd'[r] = rd[r] \/ rd'[r] = Idle
    BY <1>2 DEF Faults, FailCoverage, FailBeforeSwap, FailInTry, FailInCatch, Crash, PowerLoss
  <2>2. QED
    BY <1>2, <2>1, FaultsClosed DEF ReaderInv, CheckedAnswerIsSealed, Recorded, Abandoned, Idle
<1>3. CASE UNCHANGED vars
  BY <1>3 DEF vars, ReaderInv, CheckedAnswerIsSealed, Recorded, Abandoned, Closed
<1>4. QED
  BY <1>1, <1>2, <1>3, ReaderLoad DEF Next

LEMMA InitReaders == Init => StageInv /\ ReaderInv /\ CheckedAnswerIsSealed
BY DEF Init, StageInv, ReaderInv, CheckedAnswerIsSealed, EmptyPackage, Idle, NoAnswer

THEOREM Readings == Spec => [](StageInv /\ ReaderInv /\ CheckedAnswerIsSealed)
<1>1. QED
  BY InitReaders, StageStep, ReaderStep, Inductive, PTL DEF Spec

\* What a load answers after checksum verification is what the writer sealed,
\* whichever renames, errors and crashes fell between its file accesses.
THEOREM CheckedIsSealed == Spec => []CheckedAnswerIsSealed
BY Readings, PTL

-----------------------------------------------------------------------------
(***************************************************************************)
(* The run package implements the archive                                  *)
(***************************************************************************)
\* A strict load looks at the run's own directory only, goes past no manifest
\* but a completed one, answers only from checked bytes, and is told once.
PastManifest == {"walk", "sums", "check", "findings", "coverage"}

AnswerInv ==
  \A r \in Readers :
    /\ rd[r].pc # "done" => answer[r] = NoAnswer
    /\ rd[r].mode = "strict" => rd[r].name = "dir" /\ rd[r].pc # "fallback"
    /\ rd[r].mode = "strict" /\ rd[r].pc \in PastManifest => rd[r].manifest = "completed"
    /\ rd[r].mode = "strict" /\ rd[r].pc \in {"findings", "coverage"}
         => rd[r].checked /\ names["dir"] = "stage"

\* The swap is undone by nothing but a power loss, and by that only before the
\* folder is fsynced.
SwapInv ==
  /\ \A f \in journal : f["dir"] = "stage" => names["dir"] = "stage"
  /\ wpc \in Staging \cup {"displace", "swap"} => status \in Statuses

LEMMA SwapWriter ==
  TypeOK /\ FolderInv /\ PhaseInv /\ SwapInv /\ Writer
  => SwapInv' /\ (names["dir"] = "stage" => names'["dir"] = "stage")
<1> SUFFICES ASSUME TypeOK, FolderInv, PhaseInv, SwapInv, Writer
             PROVE  SwapInv' /\ (names["dir"] = "stage" => names'["dir"] = "stage")
  OBVIOUS
<1> USE DEF Goto, Staging, Writing, Finalizes
<1>a. ASSUME UNCHANGED <<names, journal>>,
             wpc' \in Staging \cup {"displace", "swap"} =>
               wpc \in Staging \cup {"displace", "swap"} /\ status' = status
      PROVE  SwapInv' /\ (names["dir"] = "stage" => names'["dir"] = "stage")
  BY <1>a DEF SwapInv
<1>b. ASSUME NEW f, Rebind(f), names["dir"] = "stage" => f["dir"] = "stage",
             wpc' \in Staging \cup {"displace", "swap"} => status' \in Statuses
      PROVE  SwapInv' /\ (names["dir"] = "stage" => names'["dir"] = "stage")
  BY <1>b DEF SwapInv, Rebind
<1>1. CASE \/ \E a \in Artifacts : BeginArtifact(a) \/ CopyFile(a)
           \/ \E v \in Values : FillArtifact(v) \/ EndArtifact(v)
           \/ \E s \in Statuses : RejectManifest(s)
           \/ EndCopy \/ BeginManifest \/ EndManifest \/ BeginChecksums \/ EndChecksums \/ SyncStage
  BY <1>1, <1>a DEF BeginArtifact, CopyFile, FillArtifact, EndArtifact, RejectManifest, EndCopy, BeginManifest,
     EndManifest, BeginChecksums, EndChecksums, SyncStage, storage, writer
<1>2. ASSUME NEW s \in Statuses, BeginFinalize(s)
      PROVE  SwapInv' /\ (names["dir"] = "stage" => names'["dir"] = "stage")
  BY <1>2, <1>b DEF BeginFinalize, TypeOK
<1>3. CASE Displace
  <2>1. names["dir"] # "stage" /\ status' \in Statuses
    BY <1>3 DEF Displace, PhaseInv, StagingName, FirstName, NoNames, SwapInv
  <2>2. QED
    BY <1>3, <1>b, <2>1 DEF Displace
<1>4. CASE SwapIn
  <2>1. names["dir"] # "stage" /\ wpc' = "discard"
    BY <1>4 DEF SwapIn, PhaseInv
  <2>2. QED
    BY <1>4, <1>b, <2>1 DEF SwapIn
<1>5. CASE DiscardDisplaced \/ DropStage
  BY <1>5, <1>b DEF DiscardDisplaced, DropStage, TypeOK
<1>6. CASE SyncFolder
  BY <1>6 DEF SyncFolder, SwapInv
<1>7. CASE RestoreDisplaced
  BY <1>7, <1>a, <1>b DEF RestoreDisplaced, TypeOK
<1>8. QED
  BY <1>1, <1>2, <1>3, <1>4, <1>5, <1>6, <1>7 DEF Writer

LEMMA SwapFaults == SwapInv /\ Faults => SwapInv'
<1> SUFFICES ASSUME SwapInv, Faults PROVE SwapInv'
  OBVIOUS
<1> USE DEF SwapInv, Staging
<1>1. CASE FailCoverage \/ FailBeforeSwap \/ FailInTry \/ FailInCatch \/ Crash
  BY <1>1 DEF FailCoverage, FailBeforeSwap, FailInTry, FailInCatch, Crash, storage
<1>2. CASE PowerLoss
  BY <1>2 DEF PowerLoss, Finished
<1>3. QED
  BY <1>1, <1>2 DEF Faults

LEMMA AnswerLoad ==
  ASSUME TypeOK, FolderInv, AnswerInv, NEW r \in Readers, Load(r)
  PROVE  AnswerInv'
<1> USE DEF PastManifest
<1> DEFINE n == rd[r].name
<1>a. rd[r] \in ReaderState /\ n \in Names
  BY ReaderUpdates DEF TypeOK
<1>b. names' = names
  BY LoadFrame DEF storage
<1>c. ASSUME rd'[r].pc # "done" => answer'[r] = NoAnswer,
             rd'[r].mode = "strict" => rd'[r].name = "dir" /\ rd'[r].pc # "fallback",
             rd'[r].mode = "strict" /\ rd'[r].pc \in PastManifest => rd'[r].manifest = "completed",
             rd'[r].mode = "strict" /\ rd'[r].pc \in {"findings", "coverage"}
               => rd'[r].checked /\ names["dir"] = "stage"
      PROVE  AnswerInv'
  BY <1>b, <1>c, LoadOthers DEF AnswerInv
<1>d. ASSUME NEW pc \in ReaderPcs, NEW x \in ReaderState, Advance(r, pc, x),
             x.mode = "strict" => x.name = "dir" /\ pc # "fallback",
             x.mode = "strict" /\ pc \in PastManifest => x.manifest = "completed",
             x.mode = "strict" /\ pc \in {"findings", "coverage"} => x.checked /\ names["dir"] = "stage",
             pc # "done" => answer' = answer /\ rd[r].pc # "done"
      PROVE  AnswerInv'
  <2>1. pc # "done" => answer'[r] = NoAnswer
    BY <1>d DEF AnswerInv
  <2>2. QED
    BY <1>c, <1>d, <2>1, Advanced
<1>e. CASE Refuse(r)
  <2>1. rd'[r].pc = "done" /\ rd'[r].mode = rd[r].mode /\ rd'[r].name = rd[r].name
    BY <1>e, Refused
  <2>2. rd[r].mode = "strict" => rd[r].name = "dir"
    BY DEF AnswerInv
  <2>3. QED
    BY <1>c, <2>1, <2>2
<1>1. ASSUME NEW mode \in Modes, NEW m \in Names, BeginLoad(r, mode, m) PROVE AnswerInv'
  <2> DEFINE x == [Idle EXCEPT !.mode = mode, !.name = m]
  <2>1. x \in ReaderState /\ x.mode = mode /\ x.name = m
    BY DEF Idle, NoArtifacts, ReaderState
  <2>2. Advance(r, "manifest", x) /\ answer' = answer /\ rd[r].pc # "done" /\ (mode = "strict" => m = "dir")
    BY <1>1 DEF BeginLoad
  <2> HIDE DEF x
  <2>3. QED
    BY <1>d, <2>1, <2>2
<1>2. CASE ReadManifest(r)
  <2>1. CASE Advance(r, "fallback", rd[r]) /\ UNCHANGED answer /\ rd[r].mode = "legacy"
    BY <1>2, <1>a, <1>d, <2>1 DEF ReadManifest
  <2>2. CASE /\ Exists(n) /\ UNCHANGED answer
             /\ rd[r].mode = "strict" => At(n).manifest = "completed"
             /\ Advance(r, "walk", [rd[r] EXCEPT !.manifest = At(n).manifest])
    <3> DEFINE x == [rd[r] EXCEPT !.manifest = At(n).manifest]
    <3>1. x \in ReaderState /\ x.mode = rd[r].mode /\ x.name = rd[r].name /\ x.manifest = At(n).manifest
      <4>1. At(n).manifest \in Statuses \cup Reserved
        BY <1>a, <2>2, AtType, PackageFields
      <4>2. QED
        BY <1>a, <4>1 DEF ReaderState
    <3>2. Advance(r, "walk", x)
      BY <2>2
    <3> HIDE DEF x
    <3>3. QED
      BY <1>2, <1>d, <2>2, <3>1, <3>2 DEF ReadManifest, AnswerInv
  <2>3. QED
    BY <1>2, <1>e, <2>1, <2>2 DEF ReadManifest
<1>3. CASE WalkPackage(r)
  <2>1. CASE Advance(r, "sums", [rd[r] EXCEPT !.files = {a \in Artifacts : Has(n, a)}]) /\ UNCHANGED answer
    <3> DEFINE x == [rd[r] EXCEPT !.files = {a \in Artifacts : Has(n, a)}]
    <3>1. x \in ReaderState /\ x.mode = rd[r].mode /\ x.name = rd[r].name /\ x.manifest = rd[r].manifest
      BY <1>a DEF ReaderState
    <3>2. Advance(r, "sums", x)
      BY <2>1
    <3> HIDE DEF x
    <3>3. QED
      BY <1>3, <1>d, <2>1, <3>1, <3>2 DEF WalkPackage, AnswerInv
  <2>2. QED
    BY <1>3, <1>e, <2>1 DEF WalkPackage
<1>4. CASE ReadChecksums(r)
  <2>1. ASSUME NEW pc \in {"check", "findings"}, Advance(r, pc, rd[r]), UNCHANGED answer,
               pc = "check" \/ rd[r].mode = "legacy"
        PROVE  AnswerInv'
    BY <1>4, <1>a, <1>d, <2>1 DEF ReadChecksums, AnswerInv
  <2>2. QED
    BY <1>4, <1>e, <2>1 DEF ReadChecksums
<1>5. CASE CheckFiles(r)
  <2>1. CASE /\ Exists(n) /\ Intact(At(n)) /\ UNCHANGED answer
             /\ Advance(r, "findings", [rd[r] EXCEPT !.checked = TRUE, !.art = At(n).art])
    <3> DEFINE x == [rd[r] EXCEPT !.checked = TRUE, !.art = At(n).art]
    <3>1. x \in ReaderState /\ x.mode = rd[r].mode /\ x.name = rd[r].name /\ x.checked
          /\ x.manifest = rd[r].manifest
      <4>1. At(n).art \in [Artifacts -> Content]
        BY <1>a, <2>1, AtType, PackageFields
      <4>2. QED
        BY <1>a, <4>1 DEF ReaderState
    <3>2. Advance(r, "findings", x)
      BY <2>1
    <3>3. n = "dir" => names["dir"] = "stage"
      BY <2>1 DEF Intact, At, Exists, FolderInv, TypeOK
    <3> HIDE DEF x
    <3>4. QED
      BY <1>5, <1>d, <2>1, <3>1, <3>2, <3>3 DEF CheckFiles, AnswerInv
  <2>2. QED
    BY <1>5, <1>e, <2>1 DEF CheckFiles
<1>6. CASE ReadFindings(r)
  <2>1. CASE Advance(r, "coverage", [rd[r] EXCEPT !.art[Findings] = ContentFor(r, Findings)])
             /\ UNCHANGED answer
    <3> DEFINE x == [rd[r] EXCEPT !.art[Findings] = ContentFor(r, Findings)]
    <3>1. x \in ReaderState /\ x.mode = rd[r].mode /\ x.name = rd[r].name /\ x.checked = rd[r].checked
          /\ x.manifest = rd[r].manifest
      <4>1. ContentFor(r, Findings) \in Content
        BY ContentForType, PackageAssumption
      <4>2. QED
        BY <1>a, <4>1, PackageAssumption DEF ReaderState
    <3>2. Advance(r, "coverage", x)
      BY <2>1
    <3> HIDE DEF x
    <3>3. QED
      BY <1>6, <1>d, <2>1, <3>1, <3>2 DEF ReadFindings, AnswerInv
  <2>2. QED
    BY <1>6, <1>e, <2>1 DEF ReadFindings
<1>7. CASE Advance(r, "done", rd[r])
  BY <1>7, <1>a, <1>d DEF AnswerInv
<1>8. QED
  BY <1>e, <1>1, <1>2, <1>3, <1>4, <1>5, <1>6, <1>7 DEF Load, ReadCoverage, Respond, LoadLegacy

LEMMA AnswerStep ==
  TypeOK /\ FolderInv /\ PhaseInv /\ SwapInv /\ AnswerInv /\ [Next]_vars => SwapInv' /\ AnswerInv'
<1> SUFFICES ASSUME TypeOK, FolderInv, PhaseInv, SwapInv, AnswerInv, [Next]_vars
             PROVE  SwapInv' /\ AnswerInv'
  OBVIOUS
<1>1. CASE Writer
  <2>1. UNCHANGED <<rd, answer>>
    BY <1>1 DEF Writer, BeginArtifact, FillArtifact, EndArtifact, Finalizes, RejectManifest, BeginFinalize, CopyFile, EndCopy,
       BeginManifest, EndManifest, BeginChecksums, EndChecksums, SyncStage, Displace, SwapIn,
       DiscardDisplaced, SyncFolder, RestoreDisplaced, DropStage
  <2>2. QED
    BY <1>1, <2>1, SwapWriter DEF AnswerInv
<1>2. CASE Faults
  <2>1. CASE UNCHANGED <<rd, names>>
    BY <1>2, <2>1, SwapFaults, FaultsClosed DEF AnswerInv
  <2>2. CASE PowerLoss
    <3>1. ASSUME NEW r \in Readers
          PROVE  \/ rd'[r] = rd[r] /\ rd[r].pc = "done"
                 \/ rd'[r] = Idle /\ rd[r].pc # "done"
      BY <2>2 DEF PowerLoss
    <3>2. Idle.pc = "idle" /\ Idle.mode = "strict" /\ Idle.name = "dir"
      BY DEF Idle
    <3>3. answer' = answer
      BY <1>2, FaultsClosed
    <3>4. AnswerInv'
      <4>1. ASSUME NEW r \in Readers
            PROVE  /\ rd'[r].pc # "done" => answer'[r] = NoAnswer
                   /\ rd'[r].mode = "strict" => rd'[r].name = "dir" /\ rd'[r].pc # "fallback"
                   /\ rd'[r].pc \notin PastManifest
        BY <3>1, <3>2, <3>3 DEF AnswerInv, PastManifest
      <4>2. QED
        BY <4>1 DEF AnswerInv, PastManifest
    <3>5. QED
      BY <1>2, <3>4, SwapFaults
  <2>3. QED
    BY <1>2, <2>1, <2>2 DEF Faults, FailCoverage, FailBeforeSwap, FailInTry, FailInCatch, Crash, storage
<1>3. CASE \E r \in Readers : Load(r)
  <2>1. SwapInv'
    BY <1>3, LoadFrame DEF storage, writer, SwapInv
  <2>2. QED
    BY <1>3, <2>1, AnswerLoad
<1>4. CASE UNCHANGED vars
  BY <1>4 DEF vars, SwapInv, AnswerInv
<1>5. QED
  BY <1>1, <1>2, <1>3, <1>4 DEF Next

LEMMA InitAnswers == Init => SwapInv /\ AnswerInv
BY DEF Init, SwapInv, AnswerInv, PastManifest, FirstName, NoNames, Idle, Staging

\* The abstract variables, as the refinement mapping gives them.
SealedBar == IF names["dir"] = "stage"
               THEN {[art |-> pkg["stage"].art, manifest |-> pkg["stage"].manifest]}
               ELSE {}
StrictAnswer(r) == IF rd[r].mode = "strict" THEN answer[r] ELSE NoAnswer
Told(r) == [kind |-> StrictAnswer(r).kind, manifest |-> StrictAnswer(r).manifest,
            findings |-> StrictAnswer(r).findings, coverage |-> StrictAnswer(r).coverage]
ReplyBar == [r \in Readers |-> Told(r)]

LEMMA SealedBarIs ==
  ASSUME FolderInv
  PROVE  /\ names["dir"] = "stage" => Recorded(pkg["stage"].art)
         /\ SealedBar = IF names["dir"] = "stage"
                          THEN {[art |-> pkg["stage"].art, manifest |-> status]} ELSE {}
BY DEF FolderInv, Whole, SealedBar

\* What the swap seals is what the archive may seal.
LEMMA RecordedSealable ==
  ASSUME TypeOK, Recorded(pkg["stage"].art)
  PROVE  pkg["stage"].art \in Archive!Sealable(status)
<1>1. /\ pkg["stage"].art \in [Artifacts -> Content] /\ Coverage \in Artifacts
      /\ written \in [Artifacts -> Values \cup {"absent"}]
  BY PackageFields, PackageAssumption DEF TypeOK
<1>2. PICK c : c = pkg["stage"].art[Coverage]
  OBVIOUS
<1>3. CASE Abandoned(Coverage) /\ c # "absent"
  <2>1. \A a \in Artifacts : pkg["stage"].art[a] = [written EXCEPT ![Coverage] = c][a]
    BY <1>1, <1>2 DEF Recorded, Abandoned
  <2>2. pkg["stage"].art = [written EXCEPT ![Coverage] = c]
    BY <1>1, <2>1
  <2>3. c \in Values \cup {"torn"} /\ status = "failed" /\ written[Findings] = "absent"
    BY <1>1, <1>2, <1>3 DEF Abandoned
  <2>4. QED
    BY <2>2, <2>3 DEF Archive!Sealable
<1>4. CASE ~(Abandoned(Coverage) /\ c # "absent")
  <2>1. \A a \in Artifacts : pkg["stage"].art[a] = written[a]
    BY <1>2, <1>4 DEF Recorded, Abandoned
  <2>2. pkg["stage"].art = written
    BY <1>1, <2>1
  <2>3. QED
    BY <2>2 DEF Archive!Sealable
<1>5. QED
  BY <1>3, <1>4

\* A step that leaves the package, the seal and the acknowledgement alone.
LEMMA Stutters ==
  ASSUME UNCHANGED <<written, SealedBar, ReplyBar>>, (wpc = "sealed") <=> (wpc' = "sealed")
  PROVE  UNCHANGED Archive!avars
BY DEF Archive!avars, SealedBar, ReplyBar, Told, StrictAnswer

LEMMA ArchiveInit == Init => Archive!AInit
<1> SUFFICES ASSUME Init PROVE Archive!AInit
  OBVIOUS
<1>1. written = [a \in Artifacts |-> "absent"] /\ SealedBar = {} /\ wpc # "sealed"
  BY DEF Init, SealedBar, FirstName, NoNames, NoArtifacts
<1>2. ReplyBar = [r \in Readers |-> Archive!Unanswered]
  BY DEF Init, ReplyBar, Told, StrictAnswer, Idle, NoAnswer, Archive!Unanswered
<1>3. QED
  BY <1>1, <1>2 DEF Archive!AInit, SealedBar, ReplyBar, Told, StrictAnswer

LEMMA WriterRefines ==
  ASSUME TypeOK, FolderInv, PhaseInv, SwapInv, TypeOK', FolderInv', Writer
  PROVE  [Archive!ANext]_Archive!avars
<1> USE DEF Goto, Staging, Writing, Finalizes
<1>a. UNCHANGED ReplyBar
  BY DEF Writer, BeginArtifact, FillArtifact, EndArtifact, Finalizes, RejectManifest, BeginFinalize, CopyFile, EndCopy,
     BeginManifest, EndManifest, BeginChecksums, EndChecksums, SyncStage, Displace, SwapIn,
     DiscardDisplaced, SyncFolder, RestoreDisplaced, DropStage, ReplyBar, Told, StrictAnswer
<1>b. ASSUME written' = written, names'["dir"] = "stage" <=> names["dir"] = "stage",
             names["dir"] = "stage" => pkg'["stage"] = pkg["stage"], wpc # "sealed", wpc' # "sealed"
      PROVE  [Archive!ANext]_Archive!avars
  <2>1. UNCHANGED SealedBar
    BY <1>b DEF SealedBar
  <2>2. QED
    BY <1>a, <1>b, <2>1, Stutters
<1>1. ASSUME NEW v \in Values, EndArtifact(v) PROVE [Archive!ANext]_Archive!avars
  <2>1. names' = names /\ names["dir"] = "orig" /\ written' = [written EXCEPT ![cur] = v]
    BY <1>1 DEF EndArtifact, storage, PhaseInv, FirstName, NoNames
  <2>2. SealedBar = {} /\ SealedBar' = {}
    BY <2>1 DEF SealedBar
  <2>3. wpc # "sealed" /\ wpc' # "sealed"
    BY <1>1 DEF EndArtifact
  <2>4. Archive!Record(cur, v)
    BY <1>a, <2>1, <2>2, <2>3 DEF Archive!Record, SealedBar, ReplyBar, Told, StrictAnswer
  <2>5. QED
    BY <2>4 DEF Archive!ANext, TypeOK
<1>2. CASE SwapIn
  <2>1. /\ names["dir"] # "stage" /\ names'["dir"] = "stage" /\ status \in Statuses
        /\ UNCHANGED <<written, status>> /\ wpc # "sealed" /\ wpc' # "sealed"
    BY <1>2 DEF SwapIn, PhaseInv, SwapInv, Rebind
  <2>2. SealedBar = {}
    BY <2>1 DEF SealedBar
  <2>3. /\ SealedBar' = {[art |-> pkg["stage"].art, manifest |-> status]}
        /\ Recorded(pkg["stage"].art)
    <3>1. "stage" \in synced /\ pkg' = pkg
      BY <1>2 DEF SwapIn, PhaseInv
    <3>2. QED
      BY <2>1, <3>1 DEF FolderInv, Whole, SealedBar
  <2>6. pkg["stage"].art \in Archive!Sealable(status)
    BY <2>3, RecordedSealable
  <2>4. Archive!Seal(status)
    BY <1>a, <2>1, <2>2, <2>3, <2>6
       DEF Archive!Seal, Archive!Sealable, SealedBar, ReplyBar, Told, StrictAnswer
  <2>5. QED
    BY <2>1, <2>4 DEF Archive!ANext
<1>3. CASE SyncFolder
  <2>1. names["dir"] = "stage" /\ UNCHANGED <<names, pkg, written>> /\ wpc' = "sealed"
    BY <1>3 DEF SyncFolder, PhaseInv, SealedName
  <2>2. SealedBar # {} /\ UNCHANGED SealedBar
    BY <2>1 DEF SealedBar
  <2>3. Archive!Acknowledge
    BY <1>a, <2>1, <2>2 DEF Archive!Acknowledge, SealedBar, ReplyBar, Told, StrictAnswer
  <2>4. QED
    BY <2>3 DEF Archive!ANext
<1>4. CASE \/ \E a \in Artifacts : BeginArtifact(a) \/ CopyFile(a)
           \/ \E v \in Values : FillArtifact(v)
           \/ EndCopy \/ BeginManifest \/ EndManifest \/ BeginChecksums \/ EndChecksums \/ SyncStage
  <2>1. names["dir"] = "orig"
    BY <1>4 DEF BeginArtifact, CopyFile, FillArtifact, EndCopy, BeginManifest, EndManifest, BeginChecksums,
       EndChecksums, SyncStage, PhaseInv, FirstName, NoNames, StagingName
  <2>2. QED
    BY <1>4, <1>b, <2>1 DEF BeginArtifact, CopyFile, FillArtifact, EndCopy, BeginManifest, EndManifest, BeginChecksums,
     EndChecksums, SyncStage, storage, writer
<1>5. ASSUME NEW s \in Statuses, RejectManifest(s) \/ BeginFinalize(s)
      PROVE  [Archive!ANext]_Archive!avars
  <2>1. names["dir"] = "orig"
    BY <1>5 DEF Finalizes, RejectManifest, BeginFinalize, PhaseInv, FirstName, NoNames
  <2>2. names'["dir"] = names["dir"]
    BY <1>5 DEF Finalizes, RejectManifest, BeginFinalize, Rebind, storage, TypeOK
  <2>3. QED
    BY <1>5, <1>b, <2>1, <2>2 DEF RejectManifest, BeginFinalize
<1>6. CASE Displace
  <2>1. names["dir"] = "orig"
    BY <1>6 DEF Displace, PhaseInv, StagingName, FirstName, NoNames
  <2>2. names'["dir"] = "none"
    BY <1>6 DEF Displace, Rebind, TypeOK
  <2>3. QED
    BY <1>6, <1>b, <2>1, <2>2 DEF Displace
<1>7. CASE DiscardDisplaced \/ DropStage
  <2>1. names'["dir"] = names["dir"]
    BY <1>7 DEF DiscardDisplaced, DropStage, Rebind, TypeOK
  <2>2. QED
    BY <1>7, <1>b, <2>1 DEF DiscardDisplaced, DropStage
<1>8. CASE RestoreDisplaced
  <2>1. names'["dir"] = "stage" <=> names["dir"] = "stage"
    BY <1>8 DEF RestoreDisplaced, Rebind, TypeOK, FolderInv
  <2>2. QED
    BY <1>8, <1>b, <2>1 DEF RestoreDisplaced
<1>9. QED
  BY <1>1, <1>2, <1>3, <1>4, <1>5, <1>6, <1>7, <1>8 DEF Writer

LEMMA FaultsRefine ==
  ASSUME TypeOK, FolderInv, PhaseInv, SwapInv, AnswerInv, FolderInv', Faults
  PROVE  [Archive!ANext]_Archive!avars
<1>1. CASE FailCoverage \/ FailBeforeSwap \/ FailInTry \/ FailInCatch \/ Crash
  <2>1. UNCHANGED <<written, SealedBar, ReplyBar>>
    BY <1>1 DEF FailCoverage, FailBeforeSwap, FailInTry, FailInCatch, Crash, storage, SealedBar, ReplyBar, Told, StrictAnswer
  <2>2. wpc # "sealed" /\ wpc' # "sealed"
    BY <1>1 DEF FailCoverage, FailBeforeSwap, FailInTry, FailInCatch, Crash, Finished
  <2>3. QED
    BY <2>1, <2>2, Stutters
<1>2. CASE PowerLoss
  <2>1. UNCHANGED <<written, status>> /\ ((wpc = "sealed") <=> (wpc' = "sealed"))
    BY <1>2 DEF PowerLoss, Finished
  <2>2. UNCHANGED ReplyBar
    <3>1. \A r \in Readers : StrictAnswer(r)' = StrictAnswer(r)
      BY <1>2 DEF PowerLoss, AnswerInv, StrictAnswer, Idle
    <3>2. QED
      BY <3>1 DEF ReplyBar, Told
  <2>3. CASE names'["dir"] = "stage"
    <3>1. names["dir"] = "stage"
      BY <1>2, <2>3 DEF PowerLoss, SwapInv
    <3>4. pkg'["stage"] = pkg["stage"]
      BY <1>2, <3>1 DEF PowerLoss, FolderInv
    <3>2. UNCHANGED SealedBar
      BY <2>3, <3>1, <3>4 DEF SealedBar
    <3>3. QED
      BY <2>1, <2>2, <3>2, Stutters
  <2>4. CASE names'["dir"] # "stage"
    <3>1. SealedBar' = {}
      BY <2>4 DEF SealedBar
    <3>2. wpc # "sealed"
      BY <1>2, <2>4 DEF PowerLoss, PhaseInv, SealedName
    <3>3. Archive!Undo
      BY <2>1, <2>2, <3>1, <3>2 DEF Archive!Undo, SealedBar, ReplyBar, Told, StrictAnswer
    <3>4. QED
      BY <3>3 DEF Archive!ANext
  <2>5. QED
    BY <2>3, <2>4
<1>3. QED
  BY <1>1, <1>2 DEF Faults

\* A loading process keeps the mode it began with.
LEMMA ModeKept ==
  ASSUME TypeOK, NEW r \in Readers, Load(r), rd[r].pc # "idle"
  PROVE  rd'[r].mode = rd[r].mode
<1>1. rd[r] \in ReaderState /\ rd \in [Readers -> ReaderState]
  BY DEF TypeOK
<1>2. ASSUME NEW x, NEW pc, x.mode = rd[r].mode, x \in ReaderState, Advance(r, pc, x)
      PROVE  rd'[r].mode = rd[r].mode
  BY <1>1, <1>2, Advanced
<1>3. ASSUME NEW pc, Advance(r, pc, rd[r]) PROVE rd'[r].mode = rd[r].mode
  BY <1>1, <1>2, <1>3
<1>4. CASE Refuse(r)
  BY <1>4, <1>3 DEF Refuse
<1> DEFINE n == rd[r].name
<1>5. CASE ReadManifest(r)
  <2>1. CASE Exists(n) /\ Advance(r, "walk", [rd[r] EXCEPT !.manifest = At(n).manifest])
    <3>1. At(n).manifest \in Statuses \cup Reserved /\ n \in Names
      BY <1>1, <2>1, ReaderUpdates, AtType, PackageFields
    <3>2. rd'[r] = [[rd[r] EXCEPT !.manifest = At(n).manifest] EXCEPT !.pc = "walk"]
      BY <1>1, <2>1 DEF Advance
    <3>3. QED
      BY <1>1, <3>1, <3>2 DEF ReaderState
  <2>2. QED
    BY <1>5, <1>3, <1>4, <2>1 DEF ReadManifest
<1>6. CASE WalkPackage(r)
  <2>1. CASE Advance(r, "sums", [rd[r] EXCEPT !.files = {a \in Artifacts : Has(n, a)}])
    <3>1. rd'[r] = [[rd[r] EXCEPT !.files = {a \in Artifacts : Has(n, a)}] EXCEPT !.pc = "sums"]
      BY <1>1, <2>1 DEF Advance
    <3>2. QED
      BY <1>1, <3>1 DEF ReaderState
  <2>2. QED
    BY <1>6, <1>4, <2>1 DEF WalkPackage
<1>7. CASE CheckFiles(r)
  <2>1. CASE Advance(r, "findings", [rd[r] EXCEPT !.checked = TRUE, !.art = At(n).art])
    <3>1. rd'[r] = [[rd[r] EXCEPT !.checked = TRUE, !.art = At(n).art] EXCEPT !.pc = "findings"]
      BY <1>1, <2>1 DEF Advance
    <3>2. QED
      BY <1>1, <3>1 DEF ReaderState
  <2>2. QED
    BY <1>7, <1>4, <2>1 DEF CheckFiles
<1>8. CASE ReadFindings(r)
  <2>1. CASE Advance(r, "coverage", [rd[r] EXCEPT !.art[Findings] = ContentFor(r, Findings)])
    <3>1. rd'[r] = [[rd[r] EXCEPT !.art[Findings] = ContentFor(r, Findings)] EXCEPT !.pc = "coverage"]
      BY <1>1, <2>1 DEF Advance
    <3>2. QED
      BY <1>1, <3>1 DEF ReaderState
  <2>2. QED
    BY <1>8, <1>4, <2>1 DEF ReadFindings
<1>9. QED
  BY <1>3, <1>4, <1>5, <1>6, <1>7, <1>8 DEF Load, BeginLoad, ReadChecksums, ReadCoverage, Respond, LoadLegacy

LEMMA LoadRefines ==
  ASSUME TypeOK, FolderInv, ReaderInv, AnswerInv, NEW r \in Readers, Load(r)
  PROVE  [Archive!ANext]_Archive!avars
<1>a. UNCHANGED <<written, status, SealedBar, wpc>>
  BY LoadFrame DEF storage, writer, SealedBar
<1>b. \A q \in Readers \ {r} : StrictAnswer(q)' = StrictAnswer(q)
  BY LoadOthers DEF StrictAnswer
<1>e. \A q \in Readers \ {r} : Told(q)' = Told(q)
  BY <1>b DEF Told
<1>c. ASSUME StrictAnswer(r)' = StrictAnswer(r) PROVE [Archive!ANext]_Archive!avars
  <2>1. UNCHANGED ReplyBar
    BY <1>b, <1>c DEF ReplyBar, Told
  <2>2. QED
    BY <1>a, <2>1, Stutters
<1>d. ASSUME rd[r].mode = "strict", rd[r].pc \notin {"done", "idle"},
             NEW reply, Told(r)' = reply,
             \/ reply = Archive!Refused
             \/ /\ names["dir"] = "stage" /\ status = "completed"
                /\ reply = [kind |-> "sealed", manifest |-> status,
                            findings |-> written[Findings], coverage |-> written[Coverage]]
      PROVE  [Archive!ANext]_Archive!avars
  <2>1. ReplyBar[r] = Archive!Unanswered
    BY <1>d DEF AnswerInv, ReplyBar, Told, StrictAnswer, NoAnswer, Archive!Unanswered
  <2>2. reply \in Archive!Answers
    <3>1. CASE reply = Archive!Refused
      BY <3>1 DEF Archive!Answers
    <3>2. CASE reply # Archive!Refused
      <4>4. pkg["stage"].art = written
        <5>1. \A a \in Artifacts : pkg["stage"].art[a] = written[a]
          BY <1>d, <3>2, SealedBarIs DEF Recorded, Abandoned
        <5>2. pkg["stage"].art \in [Artifacts -> Content]
              /\ written \in [Artifacts -> Values \cup {"absent"}]
          BY PackageFields DEF TypeOK
        <5>3. QED
          BY <5>1, <5>2
      <4>1. [art |-> written, manifest |-> status] \in {q \in SealedBar : q.manifest = "completed"}
        BY <1>d, <3>2, <4>4, SealedBarIs
      <4>2. reply \in {[kind |-> "sealed", manifest |-> p.manifest, findings |-> p.art[Findings],
                       coverage |-> p.art[Coverage]] : p \in {q \in SealedBar : q.manifest = "completed"}}
        BY <1>d, <3>2, <4>1
      <4>3. QED
        BY <4>2 DEF Archive!Answers, SealedBar
    <3>3. QED
      BY <3>1, <3>2
  <2>3. ReplyBar' = [ReplyBar EXCEPT ![r] = reply]
    BY <1>d, <1>e DEF ReplyBar
  <2>4. Archive!Answer(r)
    BY <1>a, <2>1, <2>2, <2>3 DEF Archive!Answer, Archive!Answers, SealedBar, ReplyBar, Told, StrictAnswer
  <2>5. QED
    BY <2>4 DEF Archive!ANext
<1>1. CASE Refuse(r)
  <2>1. CASE rd[r].mode = "strict" /\ rd[r].pc \notin {"done", "idle"}
    <3>1. answer'[r] = [NoAnswer EXCEPT !.kind = "refused", !.name = rd[r].name] /\ rd'[r].mode = "strict"
      BY <1>1, <2>1, Refused
    <3>2. Told(r)' = Archive!Refused
      BY <3>1 DEF Told, StrictAnswer, NoAnswer, Archive!Refused, Archive!Unanswered
    <3>3. QED
      BY <1>d, <2>1, <3>2
  <2>2. CASE rd[r].mode # "strict"
    BY <1>1, <1>c, <2>2, Refused DEF StrictAnswer
  <2>3. rd[r].pc \notin {"done", "idle"} \/ answer' = answer
    BY DEF Load, BeginLoad, ReadManifest, WalkPackage, ReadChecksums, CheckFiles, ReadFindings,
       ReadCoverage, LoadLegacy
  <2>4. CASE answer' = answer
    BY <1>1, <1>c, <2>4, Refused DEF StrictAnswer
  <2>5. QED
    BY <2>1, <2>2, <2>3, <2>4
<1>2. CASE answer' = answer
  <2>1. CASE rd[r].pc = "idle"
    <3>1. answer[r] = NoAnswer /\ answer'[r] = NoAnswer
      BY <1>2, <2>1 DEF AnswerInv
    <3>2. StrictAnswer(r)' = StrictAnswer(r)
      BY <3>1 DEF StrictAnswer
    <3>3. QED
      BY <1>c, <3>2
  <2>2. CASE rd[r].pc # "idle"
    <3>1. rd'[r].mode = rd[r].mode /\ answer'[r] = answer[r]
      BY <1>2, <2>2, ModeKept
    <3>2. StrictAnswer(r)' = StrictAnswer(r)
      BY <3>1 DEF StrictAnswer
    <3>3. QED
      BY <1>c, <3>2
  <2>3. QED
    BY <2>1, <2>2
<1>3. CASE ReadCoverage(r)
  <2>1. CASE rd[r].mode = "legacy"
    BY <1>3, <1>c, <2>1, ModeKept DEF StrictAnswer, ReadCoverage
  <2>2. CASE rd[r].mode = "strict" /\ Respond(r, "sealed", ContentFor(r, Coverage))
    <3>1. answer'[r] = [kind |-> "sealed", manifest |-> rd[r].manifest,
                        findings |-> rd[r].art[Findings], coverage |-> ContentFor(r, Coverage),
                        checked |-> rd[r].checked, name |-> rd[r].name]
      BY <2>2 DEF Respond, TypeOK
    <3>2. /\ rd[r].checked /\ names["dir"] = "stage" /\ rd[r].manifest = status /\ rd[r].art = written
          /\ rd[r].pc = "coverage" /\ status = "completed"
      BY <1>3, <2>2 DEF ReadCoverage, AnswerInv, PastManifest, ReaderInv
    <3>3. rd'[r].mode = "strict"
      BY <2>2, <3>2, ModeKept
    <3>4. Told(r)' = [kind |-> "sealed", manifest |-> status,
                      findings |-> written[Findings], coverage |-> written[Coverage]]
      BY <3>1, <3>2, <3>3 DEF Told, StrictAnswer, ContentFor
    <3>5. QED
      BY <1>d, <2>2, <3>2, <3>4
  <2>3. QED
    BY <1>1, <1>3, <2>1, <2>2 DEF ReadCoverage, TypeOK, ReaderState
<1>4. CASE LoadLegacy(r)
  <2>1. rd[r].pc = "fallback" /\ rd[r].mode # "strict"
    BY <1>4 DEF LoadLegacy, AnswerInv
  <2>2. QED
    BY <1>c, <2>1, ModeKept DEF StrictAnswer
<1>5. QED
  BY <1>1, <1>2, <1>3, <1>4 DEF Load, BeginLoad, ReadManifest, WalkPackage, ReadChecksums, CheckFiles,
     ReadFindings

LEMMA StepRefines ==
  /\ TypeOK /\ FolderInv /\ PhaseInv /\ ReaderInv /\ SwapInv /\ AnswerInv /\ TypeOK' /\ FolderInv' /\ [Next]_vars
  => [Archive!ANext]_Archive!avars
<1>1. UNCHANGED vars => UNCHANGED Archive!avars
  BY DEF vars, Archive!avars
<1>2. QED
  BY <1>1, WriterRefines, FaultsRefine, LoadRefines DEF Next

LEMMA Answering == Spec => [](SwapInv /\ AnswerInv)
BY InitAnswers, AnswerStep, Inductive, PTL DEF Spec

\* The process that writes and seals a run, the errors, crashes and the power
\* loss, and the processes that load it, implement the archive: sealed once,
\* whole, not taken back once acknowledged, and a strict load is refused or
\* returns the sealed package.
THEOREM Implementation == Spec => ImplementsArchive
<1>1. ImplementsArchive <=> Archive!AInit /\ [][Archive!ANext]_Archive!avars
  BY DEF ImplementsArchive, Archive!ASpec
<1>2. QED
  BY <1>1, ArchiveInit, StepRefines, Inductive, Readings, Answering, PTL DEF Spec

=============================================================================
