----------------------------- MODULE EvidenceRun -----------------------------
(***************************************************************************)
(* One run evidence package of Citable: the process that writes its        *)
(* artifacts and seals it (src/evidence/run.js), the processes that load   *)
(* it (src/shared/runPackageVerifier.js, verifiedRunLoader.js), the disk   *)
(* errors and process crashes that can hit any step, and a power loss.     *)
(*                                                                         *)
(* A directory is an inode with files; the runs folder gives the inodes    *)
(* names.  finalize() builds a second inode, the staging copy, seals it    *)
(* there, and swaps it in with two renames.                                *)
(***************************************************************************)
EXTENDS FiniteSets

CONSTANTS
  Artifacts,   \* relative paths a run writes besides manifest and checksums
  Findings,    \* findings.json
  Coverage,    \* coverage.json
  Values,      \* contents a finished write may leave in a file
  Statuses,    \* the statuses a command passes to finalize()
  Readers      \* processes that load the package

Reserved == {"absent", "torn"}

ASSUME PackageAssumption ==
  /\ {Findings, Coverage} \subseteq Artifacts
  /\ Findings # Coverage
  /\ {"completed", "failed"} \subseteq Statuses
  /\ Values \cap Reserved = {}
  /\ Statuses \cap Reserved = {}

Names   == {"dir", "sealing", "partial"}
Inodes  == {"orig", "stage"}
Modes   == {"strict", "legacy"}
Content == Values \cup Reserved

Folder == [Names -> Inodes \cup {"none"}]

Package == [art : [Artifacts -> Content], manifest : Statuses \cup Reserved,
            sums : {"absent", "torn", "written"},
            listed : [Artifacts -> Content],
            listedManifest : Statuses \cup Reserved]

NoArtifacts  == [a \in Artifacts |-> "absent"]
EmptyPackage == [art |-> NoArtifacts, manifest |-> "absent", sums |-> "absent",
                 listed |-> NoArtifacts, listedManifest |-> "absent"]

\* What verifyRunPackage compares: every listed file is there with the listed
\* hash, and no file is unlisted (an unlisted file is listed as "absent").
Intact(p) == /\ p.sums = "written"
             /\ p.listed = p.art
             /\ p.listedManifest = p.manifest

Idle == [pc |-> "idle", mode |-> "strict", name |-> "dir",
         manifest |-> "absent", files |-> {}, art |-> NoArtifacts,
         checked |-> FALSE]

NoAnswer == [kind |-> "none", manifest |-> "absent", findings |-> "absent",
             coverage |-> "absent", checked |-> FALSE, name |-> "dir"]

WriterPcs == {"open", "put", "hash", "failed", "copy", "manifest", "manifest_end", "sums",
              "sums_end", "sync", "displace", "swap", "discard", "psync",
              "catch", "unstage", "sealed", "threw", "crashed"}
ReaderPcs == {"idle", "manifest", "walk", "sums", "check", "findings",
              "coverage", "fallback", "done"}

ReaderState == [pc : ReaderPcs, mode : Modes, name : Names,
                manifest : Statuses \cup Reserved, files : SUBSET Artifacts,
                art : [Artifacts -> Content], checked : BOOLEAN]

Answers == [kind : {"none", "refused", "sealed", "legacy"},
            manifest : Statuses \cup Reserved, findings : Content,
            coverage : Content, checked : BOOLEAN, name : Names]

VARIABLES
  names,    \* the runs folder: what each of the run's three names holds
  pkg,      \* the files of each inode
  journal,  \* the folders a power loss may leave, since its last fsync
  synced,   \* inodes whose files are fsynced
  wpc,      \* where the writing process is
  cur,      \* the artifact writeFileSync is working on
  status,   \* manifest.status, in memory
  written,  \* contents of every artifact whose write returned
  powerLost,
  rd,       \* each reader's progress
  answer    \* what loadVerifiedRun gave each reader

storage == <<names, pkg, journal, synced>>
writer  == <<wpc, cur, status, written>>
vars    == <<names, pkg, journal, synced, wpc, cur, status, written,
             powerLost, rd, answer>>

TypeOK ==
  /\ names \in Folder
  /\ pkg \in [Inodes -> Package]
  /\ journal \subseteq Folder
  /\ synced \subseteq Inodes
  /\ wpc \in WriterPcs
  /\ cur \in Artifacts
  /\ status \in Statuses \cup {"incomplete"}
  /\ written \in [Artifacts -> Values \cup {"absent"}]
  /\ powerLost \in BOOLEAN
  /\ rd \in [Readers -> ReaderState]
  /\ answer \in [Readers -> Answers]

-----------------------------------------------------------------------------
(***************************************************************************)
(* createRun has made the directory; nothing is in it.                     *)
(***************************************************************************)
NoNames   == [dir |-> "none", sealing |-> "none", partial |-> "none"]
FirstName == [NoNames EXCEPT !["dir"] = "orig"]

Init ==
  /\ names = FirstName
  /\ journal = {NoNames, FirstName}
  /\ pkg = [i \in Inodes |-> EmptyPackage]
  /\ synced = {}
  /\ wpc = "open"
  /\ cur = Findings
  /\ status = "incomplete"
  /\ written = NoArtifacts
  /\ powerLost = FALSE
  /\ rd = [r \in Readers |-> Idle]
  /\ answer = [r \in Readers |-> NoAnswer]

Goto(from, to) == wpc = from /\ wpc' = to

\* A change of the runs folder: visible now, durable once the folder is fsynced.
Rebind(folder) == names' = folder /\ journal' = journal \cup {folder}

\* The files of inode i become p.
Store(i, p) == pkg' = [pkg EXCEPT ![i] = p]

-----------------------------------------------------------------------------
(***************************************************************************)
(* writeArtifact: writeFileSync truncates the file before it fills it, and *)
(* the filled file is read back for its hash before the write counts.      *)
(***************************************************************************)
BeginArtifact(a) ==
  /\ Goto("open", "put")
  /\ cur' = a
  /\ Store("orig", [pkg["orig"] EXCEPT !.art[a] = "torn"])
  /\ UNCHANGED <<names, journal, synced, status, written, powerLost, rd, answer>>

FillArtifact(v) ==
  /\ Goto("put", "hash")
  /\ Store("orig", [pkg["orig"] EXCEPT !.art[cur] = v])
  /\ UNCHANGED <<names, journal, synced, cur, status, written, powerLost, rd, answer>>

EndArtifact(v) ==
  /\ Goto("hash", "open")
  /\ pkg["orig"].art[cur] = v
  /\ written' = [written EXCEPT ![cur] = v]
  /\ UNCHANGED <<storage, cur, status, powerLost, rd, answer>>

\* Mutant: the audit catches the error of coverage.json and goes on.
FailCoverage_Swallowed ==
  /\ wpc \in {"put", "hash"} /\ cur = Coverage /\ written[Findings] = "absent"
  /\ wpc' = "open"
  /\ UNCHANGED <<storage, cur, status, written, powerLost, rd, answer>>

\* An audit writes coverage.json before and after its detectors run, both
\* before findings.json.  When that write fails, torn or just before it counts,
\* the audit seals the run as failed, with the file as it is.
FailCoverage ==
  /\ wpc \in {"put", "hash"} /\ cur = Coverage /\ written[Findings] = "absent"
  /\ wpc' = "failed"
  /\ UNCHANGED <<storage, cur, status, written, powerLost, rd, answer>>

(***************************************************************************)
(* finalize(): validate the manifest, copy the directory to the stage,     *)
(* write manifest and checksums there, fsync the stage.                    *)
(***************************************************************************)
Finalizes(s) == wpc = "open" \/ (wpc = "failed" /\ s = "failed")

RejectManifest(s) ==
  /\ Finalizes(s) /\ wpc' = "threw"
  /\ status' = s
  /\ UNCHANGED <<storage, cur, written, powerLost, rd, answer>>

BeginFinalize(s) ==
  /\ Finalizes(s) /\ wpc' = "copy"
  /\ status' = s
  /\ Store("stage", EmptyPackage)
  /\ Rebind([names EXCEPT !["sealing"] = "stage"])
  /\ UNCHANGED <<synced, cur, written, powerLost, rd, answer>>

CopyFile(a) ==
  /\ wpc = "copy"
  /\ pkg["orig"].art[a] # "absent"
  /\ pkg["stage"].art[a] = "absent"
  /\ Store("stage", [pkg["stage"] EXCEPT !.art[a] = pkg["orig"].art[a]])
  /\ UNCHANGED <<names, journal, synced, writer, powerLost, rd, answer>>

EndCopy ==
  /\ Goto("copy", "manifest")
  /\ pkg["stage"].art = pkg["orig"].art
  /\ UNCHANGED <<storage, cur, status, written, powerLost, rd, answer>>

BeginManifest ==
  /\ Goto("manifest", "manifest_end")
  /\ Store("stage", [pkg["stage"] EXCEPT !.manifest = "torn"])
  /\ UNCHANGED <<names, journal, synced, cur, status, written, powerLost, rd, answer>>

\* Mutant: every sealed manifest says completed.
EndManifest_AlwaysCompleted ==
  /\ Goto("manifest_end", "sums")
  /\ Store("stage", [pkg["stage"] EXCEPT !.manifest = "completed"])
  /\ UNCHANGED <<names, journal, synced, cur, status, written, powerLost, rd, answer>>

EndManifest ==
  /\ Goto("manifest_end", "sums")
  /\ Store("stage", [pkg["stage"] EXCEPT !.manifest = status])
  /\ UNCHANGED <<names, journal, synced, cur, status, written, powerLost, rd, answer>>

BeginChecksums ==
  /\ Goto("sums", "sums_end")
  /\ Store("stage", [pkg["stage"] EXCEPT !.sums = "torn"])
  /\ UNCHANGED <<names, journal, synced, cur, status, written, powerLost, rd, answer>>

EndChecksums ==
  /\ Goto("sums_end", "sync")
  /\ Store("stage", [pkg["stage"] EXCEPT !.sums = "written",
                              !.listed = pkg["stage"].art,
                              !.listedManifest = pkg["stage"].manifest])
  /\ UNCHANGED <<names, journal, synced, cur, status, written, powerLost, rd, answer>>

\* Mutant: the stage is renamed into place without an fsync.
SyncStage_Skipped ==
  /\ Goto("sync", "displace")
  /\ UNCHANGED <<storage, cur, status, written, powerLost, rd, answer>>

SyncStage ==
  /\ Goto("sync", "displace")
  /\ synced' = synced \cup {"stage"}
  /\ UNCHANGED <<names, pkg, journal, cur, status, written, powerLost, rd, answer>>

(***************************************************************************)
(* The swap: two renames, the removal of the displaced directory (one      *)
(* step: nothing depends on which of its files goes first), the fsync of   *)
(* the runs folder.                                                        *)
(***************************************************************************)
\* Mutant: the original is deleted instead of set aside.
Displace_Deletes ==
  /\ Goto("displace", "swap")
  /\ Rebind([names EXCEPT !["dir"] = "none"])
  /\ UNCHANGED <<pkg, synced, cur, status, written, powerLost, rd, answer>>

Displace ==
  /\ Goto("displace", "swap")
  /\ Rebind([names EXCEPT !["partial"] = names["dir"], !["dir"] = "none"])
  /\ UNCHANGED <<pkg, synced, cur, status, written, powerLost, rd, answer>>

SwapIn ==
  /\ Goto("swap", "discard")
  /\ Rebind([names EXCEPT !["dir"] = names["sealing"], !["sealing"] = "none"])
  /\ UNCHANGED <<pkg, synced, cur, status, written, powerLost, rd, answer>>

DiscardDisplaced ==
  /\ Goto("discard", "psync")
  /\ Rebind([names EXCEPT !["partial"] = "none"])
  /\ UNCHANGED <<pkg, synced, cur, status, written, powerLost, rd, answer>>

\* Mutant: finalize() returns without fsyncing the runs folder.
SyncFolder_Skipped ==
  /\ Goto("psync", "sealed")
  /\ UNCHANGED <<storage, cur, status, written, powerLost, rd, answer>>

SyncFolder ==
  /\ Goto("psync", "sealed")
  /\ journal' = {names}
  /\ UNCHANGED <<names, pkg, synced, cur, status, written, powerLost, rd, answer>>

(***************************************************************************)
(* A call fails: the write of an artifact (FailCoverage has the one the    *)
(* audit catches) or a step of finalize(), and the command ends.  The      *)
(* first rename and everything before it lie outside the try block: the    *)
(* error leaves the stage behind.  Later errors reach the catch block.     *)
(***************************************************************************)
FailBeforeSwap ==
  /\ wpc \in {"put", "hash", "copy", "manifest", "manifest_end", "sums", "sums_end",
              "sync", "displace"}
  /\ wpc' = "threw"
  /\ UNCHANGED <<storage, cur, status, written, powerLost, rd, answer>>

FailInTry ==
  /\ wpc \in {"swap", "discard", "psync"}
  /\ wpc' = "catch"
  /\ UNCHANGED <<storage, cur, status, written, powerLost, rd, answer>>

RestoreDisplaced ==
  /\ Goto("catch", "unstage")
  /\ IF names["dir"] = "none" /\ names["partial"] # "none"
       THEN Rebind([names EXCEPT !["dir"] = names["partial"], !["partial"] = "none"])
       ELSE UNCHANGED <<names, journal>>
  /\ UNCHANGED <<pkg, synced, cur, status, written, powerLost, rd, answer>>

FailInCatch ==
  /\ wpc \in {"catch", "unstage"}
  /\ wpc' = "threw"
  /\ UNCHANGED <<storage, cur, status, written, powerLost, rd, answer>>

DropStage ==
  /\ Goto("unstage", "threw")
  /\ Rebind([names EXCEPT !["sealing"] = "none"])
  /\ UNCHANGED <<pkg, synced, cur, status, written, powerLost, rd, answer>>

Finished == {"sealed", "threw", "crashed"}

\* The process is killed between two steps: the disk stays as it is.
Crash ==
  /\ wpc \notin Finished
  /\ wpc' = "crashed"
  /\ UNCHANGED <<storage, cur, status, written, powerLost, rd, answer>>

\* Files of an inode that was not fsynced may come back torn.
AfterPowerLoss(p) ==
  {q \in [art : [Artifacts -> Content], manifest : {p.manifest, "torn"},
          sums : {p.sums, "torn"}, listed : {p.listed},
          listedManifest : {p.listedManifest}] :
     /\ \A a \in Artifacts : q.art[a] \in {p.art[a], "torn"}
     /\ \A a \in Artifacts : p.art[a] = "absent" => q.art[a] = "absent"
     /\ p.manifest = "absent" => q.manifest = "absent"
     /\ p.sums = "absent" => q.sums = "absent"}

\* The machine stops, once: the folder comes back as it was at some moment
\* since its last fsync, and every process that was running is gone.
PowerLoss ==
  /\ ~powerLost
  /\ powerLost' = TRUE
  /\ names' \in journal
  /\ journal' = {names'}
  /\ \E o \in AfterPowerLoss(pkg["orig"]), s \in AfterPowerLoss(pkg["stage"]) :
       pkg' = [orig  |-> IF "orig" \in synced THEN pkg["orig"] ELSE o,
               stage |-> IF "stage" \in synced THEN pkg["stage"] ELSE s]
  /\ wpc' = IF wpc \in Finished THEN wpc ELSE "crashed"
  /\ rd' = [r \in Readers |-> IF rd[r].pc = "done" THEN rd[r] ELSE Idle]
  /\ UNCHANGED <<synced, cur, status, written, answer>>

-----------------------------------------------------------------------------
(***************************************************************************)
(* loadVerifiedRun.  Every file access resolves the path again, so the     *)
(* swap can happen between any two of them.                                *)
(***************************************************************************)
Exists(n)  == names[n] # "none"
At(n)      == pkg[names[n]]
Has(n, a)  == Exists(n) /\ At(n).art[a] # "absent"

\* Reader r goes on to pc, having remembered what x says.
Advance(r, pc, x) == rd' = [rd EXCEPT ![r] = [x EXCEPT !.pc = pc]]

Refuse(r) ==
  /\ Advance(r, "done", rd[r])
  /\ answer' = [answer EXCEPT ![r] = [NoAnswer EXCEPT !.kind = "refused",
                                                      !.name = rd[r].name]]

\* Commands name a run (strict loading: the run's own directory) or take the
\* folders that hold findings.json from a listing of the runs folder.
BeginLoad(r, mode, n) ==
  /\ rd[r].pc = "idle" /\ answer[r].kind = "none"
  /\ mode = "strict" => n = "dir"
  /\ mode = "legacy" => Has(n, Findings)
  /\ Advance(r, "manifest", [Idle EXCEPT !.mode = mode, !.name = n])
  /\ UNCHANGED <<storage, writer, powerLost, answer>>

ReadManifest(r) ==
  LET n == rd[r].name IN
  /\ rd[r].pc = "manifest"
  /\ IF ~Exists(n) \/ (Exists(n) /\ At(n).manifest = "torn")
       THEN Refuse(r)
     ELSE IF At(n).manifest = "absent"
       THEN IF rd[r].mode = "legacy"
              THEN Advance(r, "fallback", rd[r]) /\ UNCHANGED answer
              ELSE Refuse(r)
     ELSE IF rd[r].mode = "strict" /\ At(n).manifest # "completed"
       THEN Refuse(r)
     ELSE /\ Advance(r, "walk", [rd[r] EXCEPT !.manifest = At(n).manifest])
          /\ UNCHANGED answer
  /\ UNCHANGED <<storage, writer, powerLost>>

WalkPackage(r) ==
  LET n == rd[r].name IN
  /\ rd[r].pc = "walk"
  /\ IF Exists(n)
       THEN /\ Advance(r, "sums", [rd[r] EXCEPT !.files = {a \in Artifacts : Has(n, a)}])
            /\ UNCHANGED answer
       ELSE Refuse(r)
  /\ UNCHANGED <<storage, writer, powerLost>>

ReadChecksums(r) ==
  LET n == rd[r].name IN
  /\ rd[r].pc = "sums"
  /\ IF Exists(n) /\ At(n).sums = "written"
       THEN Advance(r, "check", rd[r]) /\ UNCHANGED answer
     ELSE IF Exists(n) /\ At(n).sums = "torn"
       THEN Refuse(r)
     ELSE IF rd[r].mode = "legacy"
       THEN Advance(r, "findings", rd[r]) /\ UNCHANGED answer
     ELSE Refuse(r)
  /\ UNCHANGED <<storage, writer, powerLost>>

\* Every listed file is hashed; the bytes of findings and coverage are kept.
CheckFiles(r) ==
  LET n == rd[r].name IN
  /\ rd[r].pc = "check"
  /\ IF /\ Exists(n) /\ Intact(At(n))
        /\ rd[r].files = {a \in Artifacts : At(n).listed[a] # "absent"}
       THEN /\ Advance(r, "findings", [rd[r] EXCEPT !.checked = TRUE, !.art = At(n).art])
            /\ UNCHANGED answer
       ELSE Refuse(r)
  /\ UNCHANGED <<storage, writer, powerLost>>

\* A checked package answers from the bytes it hashed, another from the disk.
ContentFor(r, a) ==
  IF rd[r].checked THEN rd[r].art[a]
  ELSE IF Has(rd[r].name, a) THEN At(rd[r].name).art[a] ELSE "absent"

ReadFindings(r) ==
  /\ rd[r].pc = "findings"
  /\ IF Has(rd[r].name, Findings) /\ ContentFor(r, Findings) \in Values
       THEN /\ Advance(r, "coverage",
                 [rd[r] EXCEPT !.art[Findings] = ContentFor(r, Findings)])
            /\ UNCHANGED answer
       ELSE Refuse(r)
  /\ UNCHANGED <<storage, writer, powerLost>>

Respond(r, kind, coverage) ==
  /\ Advance(r, "done", rd[r])
  /\ answer' = [answer EXCEPT ![r] =
       [kind |-> kind, manifest |-> rd[r].manifest,
        findings |-> rd[r].art[Findings], coverage |-> coverage,
        checked |-> rd[r].checked, name |-> rd[r].name]]

\* `verified` and integrity_mode 'sealed' depend on coverage.json being there.
ReadCoverage(r) ==
  LET c == ContentFor(r, Coverage) IN
  /\ rd[r].pc = "coverage"
  /\ IF c = "torn" \/ (~Has(rd[r].name, Coverage) /\ rd[r].mode = "strict")
       THEN Refuse(r)
     ELSE IF Has(rd[r].name, Coverage)
       THEN Respond(r, "sealed", c)
     ELSE Respond(r, "legacy", "absent")
  /\ UNCHANGED <<storage, writer, powerLost>>

\* No manifest: the legacy loader reads findings and coverage as they are.
LoadLegacy(r) ==
  LET n == rd[r].name IN
  /\ rd[r].pc = "fallback"
  /\ IF Has(n, Findings) /\ At(n).art[Findings] \in Values /\ At(n).art[Coverage] # "torn"
       THEN /\ Advance(r, "done", rd[r])
            /\ answer' = [answer EXCEPT ![r] =
                 [NoAnswer EXCEPT !.kind = "legacy", !.name = n,
                                  !.findings = At(n).art[Findings],
                                  !.coverage = At(n).art[Coverage]]]
       ELSE Refuse(r)
  /\ UNCHANGED <<storage, writer, powerLost>>

-----------------------------------------------------------------------------
Writer ==
  \/ \E a \in Artifacts : BeginArtifact(a) \/ CopyFile(a)
  \/ \E v \in Values : FillArtifact(v) \/ EndArtifact(v)
  \/ \E s \in Statuses : RejectManifest(s) \/ BeginFinalize(s)
  \/ EndCopy \/ BeginManifest \/ EndManifest \/ BeginChecksums \/ EndChecksums
  \/ SyncStage \/ Displace \/ SwapIn \/ DiscardDisplaced \/ SyncFolder
  \/ RestoreDisplaced \/ DropStage

Faults == FailCoverage \/ FailBeforeSwap \/ FailInTry \/ FailInCatch \/ Crash \/ PowerLoss

Load(r) ==
  \/ \E mode \in Modes, n \in Names : BeginLoad(r, mode, n)
  \/ ReadManifest(r) \/ WalkPackage(r) \/ ReadChecksums(r) \/ CheckFiles(r)
  \/ ReadFindings(r) \/ ReadCoverage(r) \/ LoadLegacy(r)

Next == Writer \/ Faults \/ \E r \in Readers : Load(r)

Spec == Init /\ [][Next]_vars

-----------------------------------------------------------------------------
(***************************************************************************)
(* Properties                                                              *)
(***************************************************************************)

\* The one file a sealed run may hold other than as it was recorded: the
\* coverage.json whose write failed, in a run sealed as failed without findings.
Abandoned(a) ==
  a = Coverage /\ cur = a /\ status = "failed" /\ written[Findings] = "absent"

\* A package's files are what was recorded, the abandoned one excepted.
Recorded(art) ==
  \A a \in Artifacts :
    art[a] = written[a] \/ (Abandoned(a) /\ art[a] # "absent")

\* When finalize() has returned, the run's directory is the sealed package
\* with everything recorded, alone in the runs folder, and stays so through a
\* power loss: stage, rename, fsync in run.js leave no window after the return.
\* It differs from the record in one case: audit.js seals as failed a run whose
\* coverage.json could not be written, with what the failed write left of it.
SealedIsDurable ==
  wpc = "sealed" =>
    /\ names = [NoNames EXCEPT !["dir"] = "stage"]
    /\ Intact(pkg["stage"])
    /\ Recorded(pkg["stage"].art)
    /\ pkg["stage"].manifest = status

\* Whatever step fails, crashes or loses power, the run's own directory is
\* never half sealed: it has neither manifest nor checksums, or it is whole
\* with everything recorded (a failed coverage.json excepted, see above).
DirectoryIsOpenOrWhole ==
  Exists("dir") =>
    \/ At("dir").manifest = "absent" /\ At("dir").sums = "absent"
    \/ Intact(At("dir")) /\ Recorded(At("dir").art) /\ At("dir").manifest = status

\* Sealing moves evidence but never loses it: after any error or crash of the
\* process some directory still holds every artifact whose write returned (the
\* one being rewritten may be torn, or new and not yet counted).
EvidenceKept ==
  ~powerLost =>
    \E n \in Names :
      /\ Exists(n)
      /\ \A a \in Artifacts :
           \/ At(n).art[a] = written[a]
           \/ a = cur /\ At(n).art[a] # "absent"

\* An answer that went through checksum verification is what the writer
\* sealed: findings, coverage and manifest of one package, none torn, none
\* older, although the swap may fall between any two file accesses (a swap can
\* hide coverage.json; the answer is then marked legacy, without coverage).
\* A run sealed with a failed coverage.json has no findings: no load answers it.
CheckedAnswerIsSealed ==
  \A r \in Readers :
    answer[r].checked =>
      /\ answer[r].manifest = status
      /\ answer[r].findings = written[Findings]
      /\ answer[r].kind = "sealed" => answer[r].coverage = written[Coverage]

\* The abstract promise: sealed once and whole, never taken back once
\* acknowledged; a strict load is refused or returns the sealed package.
Archive == INSTANCE RunArchive WITH
  Clients      <- Readers,
  evidence     <- written,
  sealed       <- IF names["dir"] = "stage"
                    THEN {[art |-> pkg["stage"].art, manifest |-> pkg["stage"].manifest]}
                    ELSE {},
  acknowledged <- wpc = "sealed",
  reply        <- [r \in Readers |->
                    LET a == IF rd[r].mode = "strict" THEN answer[r] ELSE NoAnswer
                    IN [kind |-> a.kind, manifest |-> a.manifest,
                        findings |-> a.findings, coverage |-> a.coverage]]

ImplementsArchive == Archive!ASpec

=============================================================================
