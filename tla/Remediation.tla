---------------------------- MODULE Remediation ----------------------------
(***************************************************************************)
(* From a finding to a verified repair: `citable apply` writes a reviewed  *)
(* plan of replacements into the source (src/commands/applyRemediation.js),*)
(* `citable remediate --write` and `verify remediation --apply` write the  *)
(* patch of one finding (src/commands/remediate.js), and `verify           *)
(* remediation` runs the detector again (src/commands/verifyRemediation.js)*)
(* on the site that is built from the source.  The owner edits the source  *)
(* and builds the site at any time; every command may be killed between    *)
(* two writes, and a write may fail.                                       *)
(*                                                                         *)
(* The text of a file is what the detectors would find in it and how often *)
(* its owner has edited it: two texts are equal when these are.            *)
(***************************************************************************)
EXTENDS Naturals, Sequences, FiniteSetsExt

CONSTANTS
  Findings,    \* findings detectors can report, one per defect
  Files,       \* source files, each the source of one page
  Home,        \* the file a defect is in
  Patchable,   \* findings with a component and a mechanical patcher
  Semantic,    \* findings whose patcher rewrites copy (SEMANTIC_PATCHERS)
  Severe,      \* findings of severity critical or high
  MaxEdits,    \* BOUND: edits by the owner, of any file
  MaxOps       \* BOUND: operations of a plan

ASSUME RemediationAssumption ==
  /\ Home \in [Findings -> Files]
  /\ Patchable \subseteq Findings /\ Semantic \subseteq Findings /\ Severe \subseteq Findings
  /\ {MaxEdits, MaxOps} \subseteq Nat

DefectsOf(F) == {f \in Findings : Home[f] = F}

Text == [defects : SUBSET Findings, edit : Nat, whole : BOOLEAN]
Torn == [defects |-> {}, edit |-> 0, whole |-> FALSE]

\* String.replace of the one match, and applyAstPatch: the defect is gone.
Fixed(text, f) == [text EXCEPT !.defects = @ \ {f}]

VARIABLES
  source,     \* the working tree: file -> text
  site,       \* the built page of each file (not whole: no such page)
  edits,      \* how often the owner has edited
  run,        \* findings of the sealed source run
  version,    \* which version of a detector that run used, and ours
  plan,       \* the reviewed plan: a sequence of operations
  apply,      \* progress of `citable apply`
  patch,      \* progress of `citable remediate --write`
  snapshots,  \* .citable/remediation/snapshots
  touched,    \* observer: files others have written since `apply` began
  verify      \* progress and answer of `verify remediation`

vars == <<source, site, edits, run, version, plan, apply, patch, snapshots, touched,
          verify>>

Op      == [finding : Findings, file : Files, expected : Text]
Change  == [file : Files, finding : Findings, before : Text, after : Text]

Statuses == {"none", "blocked", "patch_refused", "indeterminate", "not_comparable",
             "verified", "not_reobserved", "not_resolved"}

\* apply: written counts the writes made, a failed write is the one after;
\* undone counts those of them that were taken back.
Applying(pc, pending, written, undone) ==
  [pc |-> pc, pending |-> pending, written |-> written, undone |-> undone]
Patching(pc, f, before) == [pc |-> pc, finding |-> f, before |-> before]
Verifying(pc, f, status, regressions) ==
  [pc |-> pc, finding |-> f, status |-> status, regressions |-> regressions]

NoText == Torn
AnyFinding == CHOOSE f \in Findings : TRUE

TypeOK ==
  /\ source \in [Files -> Text]
  /\ site \in [Files -> Text]
  /\ edits \in Nat
  /\ run \subseteq Findings
  /\ version \in [run : 1..2, tool : 1..2]
  /\ plan \in Seq(Op)
  /\ apply.pc \in {"idle", "writing", "undoing", "done", "failed", "stranded", "killed"}
  /\ apply.pending \in Seq(Change) /\ apply.written \in 0..Len(apply.pending)
  /\ apply.undone \in 0..apply.written
  /\ patch.pc \in {"idle", "read", "copied", "recorded", "written", "killed"}
  /\ patch.finding \in Findings /\ patch.before \in Text
  /\ touched \subseteq Files
  /\ \A s \in snapshots : s \in [file : Files, text : Text, manifest : BOOLEAN]
  /\ verify.pc \in {"idle", "recheck", "answered"}
  /\ verify.finding \in Findings /\ verify.status \in Statuses
  /\ verify.regressions \subseteq Findings

Init ==
  /\ \E D \in SUBSET Findings :
       source = [F \in Files |-> [defects |-> D \cap DefectsOf(F), edit |-> 0, whole |-> TRUE]]
  /\ site = source
  /\ edits = 0
  /\ run = UNION {source[F].defects : F \in Files}
  /\ version = [run |-> 1, tool |-> 1]
  /\ plan = << >>
  /\ apply = Applying("idle", << >>, 0, 0)
  /\ patch = Patching("idle", AnyFinding, NoText)
  /\ snapshots = {}
  /\ touched = {}
  /\ verify = Verifying("idle", AnyFinding, "none", {})

-----------------------------------------------------------------------------
(***************************************************************************)
(* The owner: edits a file (which may add or remove a defect), builds the  *)
(* site, drops a page from it, moves to another version of the tool, has a *)
(* reviewer write a plan against the files as they are.                    *)
(***************************************************************************)
Touch(F) == touched' = IF apply.pc = "idle" THEN touched ELSE touched \cup {F}

Edit(F) ==
  /\ edits < MaxEdits
  /\ edits' = edits + 1
  /\ \E D \in SUBSET DefectsOf(F) :
       source' = [source EXCEPT ![F] = [defects |-> D, edit |-> edits + 1, whole |-> TRUE]]
  /\ Touch(F)
  /\ UNCHANGED <<site, run, version, plan, apply, patch, snapshots, verify>>

Build ==
  /\ site' = source
  /\ UNCHANGED <<source, edits, run, version, plan, apply, patch, snapshots, touched, verify>>

DropPage(F) ==
  /\ site' = [site EXCEPT ![F] = Torn]
  /\ UNCHANGED <<source, edits, run, version, plan, apply, patch, snapshots, touched, verify>>

Upgrade ==
  /\ version' = [version EXCEPT !.tool = 2]
  /\ UNCHANGED <<source, site, edits, run, plan, apply, patch, snapshots, touched, verify>>

\* remediation-spec.json: each operation names findings of the source run and
\* the hash of the file it was reviewed against.
WritePlan ==
  /\ plan = << >>
  /\ \E n \in 1..MaxOps : \E fs \in [1..n -> run] :
       /\ \A i \in 1..n : fs[i] \in source[Home[fs[i]]].defects
       /\ \A i, j \in 1..n : i # j => fs[i] # fs[j]
       /\ plan' = [i \in 1..n |-> [finding |-> fs[i], file |-> Home[fs[i]],
                                   expected |-> source[Home[fs[i]]]]]
  /\ UNCHANGED <<source, site, edits, run, version, apply, patch, snapshots, touched, verify>>

-----------------------------------------------------------------------------
\* The checks of one operation: a finding of the source run, a file that has
\* the reviewed hash, exactly one match of the text to replace.
Accepted(op) ==
  /\ op.finding \in run
  /\ source[op.file] = op.expected
  /\ op.finding \in source[op.file].defects

\* applyRemediation --write: every operation is checked against the files and
\* its new text computed before any file is written.
ApplyCheck ==
  /\ apply.pc = "idle"
  /\ plan # << >>
  /\ \A i \in 1..Len(plan) : Accepted(plan[i])
  /\ apply' = Applying("writing",
        [i \in 1..Len(plan) |->
           [file |-> plan[i].file, finding |-> plan[i].finding,
            before |-> source[plan[i].file],
            after  |-> Fixed(source[plan[i].file], plan[i].finding)]], 0, 0)
  /\ UNCHANGED <<source, site, edits, run, version, plan, patch, snapshots, touched, verify>>

ApplyWrite ==
  /\ apply.pc = "writing"
  /\ apply.written < Len(apply.pending)
  /\ LET c == apply.pending[apply.written + 1] IN
     source' = [source EXCEPT ![c.file] = c.after]
  /\ apply' = [apply EXCEPT !.written = @ + 1]
  /\ UNCHANGED <<site, edits, run, version, plan, patch, snapshots, touched, verify>>

\* A write that fails or is killed may have emptied its file.
CutShort(F) == source' \in {source, [source EXCEPT ![F] = Torn]}

\* A write fails: those before it are to be taken back, not this one.
ApplyFail ==
  /\ apply.pc = "writing"
  /\ apply.written < Len(apply.pending)
  /\ CutShort(apply.pending[apply.written + 1].file)
  /\ apply' = [apply EXCEPT !.pc = "undoing"]
  /\ UNCHANGED <<site, edits, run, version, plan, patch, snapshots, touched, verify>>

\* The last of the written changes that is not taken back.
ToUndo == apply.pending[apply.written - apply.undone]

ApplyUndo ==
  /\ apply.pc = "undoing"
  /\ apply.undone < apply.written
  /\ source' = [source EXCEPT ![ToUndo.file] = ToUndo.before]
  /\ apply' = [apply EXCEPT !.undone = @ + 1]
  /\ UNCHANGED <<site, edits, run, version, plan, patch, snapshots, touched, verify>>

\* Mutant: a file that cannot be restored is passed over.
ApplyStrand_PassedOver ==
  /\ apply.pc = "undoing"
  /\ apply.undone < apply.written
  /\ CutShort(ToUndo.file)
  /\ apply' = [apply EXCEPT !.undone = @ + 1]
  /\ UNCHANGED <<site, edits, run, version, plan, patch, snapshots, touched, verify>>

\* Taking a change back fails as well: the error of that write leaves the
\* command, with the rest not taken back.
ApplyStrand ==
  /\ apply.pc = "undoing"
  /\ apply.undone < apply.written
  /\ CutShort(ToUndo.file)
  /\ apply' = [apply EXCEPT !.pc = "stranded"]
  /\ UNCHANGED <<site, edits, run, version, plan, patch, snapshots, touched, verify>>

\* All are taken back: the command reports so.
ApplyUndone ==
  /\ apply.pc = "undoing"
  /\ apply.undone = apply.written
  /\ apply' = [apply EXCEPT !.pc = "failed"]
  /\ UNCHANGED <<source, site, edits, run, version, plan, patch, snapshots, touched, verify>>

\* Killed between two writes or in the middle of one.
ApplyKill ==
  /\ \/ /\ apply.pc \in {"writing", "undoing"}
        /\ UNCHANGED source
     \/ /\ apply.pc = "writing" /\ apply.written < Len(apply.pending)
        /\ CutShort(apply.pending[apply.written + 1].file)
     \/ /\ apply.pc = "undoing" /\ apply.undone < apply.written
        /\ CutShort(ToUndo.file)
  /\ apply' = [apply EXCEPT !.pc = "killed"]
  /\ UNCHANGED <<site, edits, run, version, plan, patch, snapshots, touched, verify>>

\* All written: the evidence run of the command reports every operation applied.
ApplyDone ==
  /\ apply.pc = "writing"
  /\ apply.written = Len(apply.pending)
  /\ apply' = [apply EXCEPT !.pc = "done"]
  /\ UNCHANGED <<source, site, edits, run, version, plan, patch, snapshots, touched, verify>>

-----------------------------------------------------------------------------
(***************************************************************************)
(* remediateCommand --write for one finding.  It refuses a file that does  *)
(* not have the defect or does not parse, and a semantic patch: whose      *)
(* confidence is capped at 0.6, below MIN_WRITE_CONFIDENCE.  What is left  *)
(* of the score is 1 once the patch changed a known, valid file.           *)
(***************************************************************************)
Confidence(f) == IF f \in Semantic THEN 60 ELSE 35 + 30 + 25 + 10
MinWriteConfidence == 70

Refused(f) ==
  LET text == source[Home[f]] IN
  \/ ~text.whole
  \/ f \notin text.defects
  \/ Confidence(f) < MinWriteConfidence

PatchRead(f) ==
  /\ patch.pc = "idle"
  /\ f \in Patchable
  /\ ~Refused(f)
  /\ patch' = Patching("read", f, source[Home[f]])
  /\ UNCHANGED <<source, site, edits, run, version, plan, apply, snapshots, touched, verify>>

\* createRollbackSnapshot: the copy, then its manifest.
PatchCopy ==
  /\ patch.pc = "read"
  /\ snapshots' = snapshots \cup
        {[file |-> Home[patch.finding], text |-> patch.before, manifest |-> FALSE]}
  /\ patch' = [patch EXCEPT !.pc = "copied"]
  /\ UNCHANGED <<source, site, edits, run, version, plan, apply, touched, verify>>

PatchRecord ==
  /\ patch.pc = "copied"
  /\ snapshots' = {[s EXCEPT !.manifest = TRUE] : s \in snapshots}
  /\ patch' = [patch EXCEPT !.pc = "recorded"]
  /\ UNCHANGED <<source, site, edits, run, version, plan, apply, touched, verify>>

PatchWrite ==
  /\ patch.pc = "recorded"
  /\ source' = [source EXCEPT ![Home[patch.finding]] = Fixed(patch.before, patch.finding)]
  /\ patch' = [patch EXCEPT !.pc = "written"]
  /\ Touch(Home[patch.finding])
  /\ UNCHANGED <<site, edits, run, version, plan, apply, snapshots, verify>>

PatchKill ==
  /\ patch.pc \in {"read", "copied", "recorded"}
  /\ \/ source' = source
     \/ /\ patch.pc = "recorded"
        /\ source' = [source EXCEPT ![Home[patch.finding]] = Torn]
  /\ Touch(Home[patch.finding])
  /\ patch' = [patch EXCEPT !.pc = "killed"]
  /\ UNCHANGED <<site, edits, run, version, plan, apply, snapshots, verify>>

-----------------------------------------------------------------------------
(***************************************************************************)
(* `verify remediation` of a finding, alone or after the patch above, with *)
(* --apply.  It answers at once when the source run has no such finding or *)
(* the patch was refused.                                                  *)
(***************************************************************************)
VerifyBlocked(f) ==
  /\ verify.pc = "idle"
  /\ f \notin run
  /\ verify' = Verifying("answered", f, "blocked", {})
  /\ UNCHANGED <<source, site, edits, run, version, plan, apply, patch, snapshots, touched>>

VerifyRefused(f) ==
  /\ verify.pc = "idle"
  /\ f \in run \cap Patchable
  /\ Refused(f)
  /\ verify' = Verifying("answered", f, "patch_refused", {})
  /\ UNCHANGED <<source, site, edits, run, version, plan, apply, patch, snapshots, touched>>

\* With --apply once the patch is written, without it at any time.
VerifyStart(f) ==
  /\ verify.pc = "idle"
  /\ f \in run
  /\ verify' = Verifying("recheck", f, "none", {})
  /\ UNCHANGED <<source, site, edits, run, version, plan, apply, patch, snapshots, touched>>

\* What the detectors find on the pages of the site.
Found == UNION {site[F].defects : F \in Files}

\* Mutant: a page that is not in the re-check counts as read.
Answer_Unobserved(f) ==
  IF version.run # version.tool THEN "not_comparable"
  ELSE IF f \in Found THEN "not_resolved" ELSE "verified"

\* The status, when collection and detectors had no error.
Answer(f) ==
  IF version.run # version.tool THEN "not_comparable"
  ELSE IF f \in Found THEN "not_resolved"
  ELSE IF site[Home[f]].whole THEN "verified" ELSE "not_reobserved"

\* The detectors run on the site as it is by then; a site that cannot be read
\* blocks the command, a detector that throws makes the answer indeterminate.
Recheck ==
  /\ verify.pc = "recheck"
  /\ \/ verify' = Verifying("answered", verify.finding, "blocked", {})
     \/ \E status \in {Answer(verify.finding), "indeterminate"} :
          verify' = Verifying("answered", verify.finding, status, (Found \cap Severe) \ run)
  /\ UNCHANGED <<source, site, edits, run, version, plan, apply, patch, snapshots, touched>>

-----------------------------------------------------------------------------
\* The owner's steps on the source, and on the site.
SourceNext == \E F \in Files : Edit(F)
SiteNext   == Build \/ Upgrade \/ \E F \in Files : DropPage(F)

PatchNext ==
  \/ \E f \in Findings : PatchRead(f)
  \/ PatchCopy \/ PatchRecord \/ PatchWrite \/ PatchKill

\* The commands that write the source.
RepairNext ==
  \/ WritePlan \/ PatchNext
  \/ ApplyCheck \/ ApplyWrite \/ ApplyDone \/ ApplyKill
  \/ ApplyFail \/ ApplyUndo \/ ApplyStrand \/ ApplyUndone

VerifyNext ==
  \/ \E f \in Findings : VerifyBlocked(f) \/ VerifyRefused(f) \/ VerifyStart(f)
  \/ Recheck

Next == SourceNext \/ SiteNext \/ RepairNext \/ VerifyNext

Spec == Init /\ [][Next]_vars

-----------------------------------------------------------------------------
(***************************************************************************)
(* When `apply --write` has reported that a write failed and the prior     *)
(* writes were rolled back (applyRemediation.js:49), every file it had     *)
(* written, and that no one else wrote since it began, is again what the   *)
(* reviewer approved the plan against: with several operations on one file *)
(* too, and never after a file that could not be restored.                 *)
(***************************************************************************)
FailureUndone ==
  apply.pc = "failed" =>
    \A i \in 1..apply.written :
      plan[i].file \notin touched => source[plan[i].file] = plan[i].expected

(***************************************************************************)
(* A finding is reported verified only when the version of its detector    *)
(* that reported it ran on its page, as the site was by then, and no longer*)
(* found it: not when the page is missing, the site was not built after    *)
(* the patch, or the detector is another ("a written patch is not a        *)
(* verified repair", remediate.js:426).                                    *)
(***************************************************************************)
VerifiedIsRepaired ==
  [][verify.pc = "recheck" /\ verify'.status = "verified" =>
       /\ site[Home[verify.finding]].whole
       /\ verify.finding \notin site[Home[verify.finding]].defects
       /\ version.run = version.tool]_vars

(***************************************************************************)
(* "`verified`: Target detector no longer reports the defect; zero         *)
(* regressions introduced" (skill/commands/remediation.md:32).             *)
(***************************************************************************)
VerifiedHasNoRegressions ==
  verify.status = "verified" => verify.regressions = {}
=============================================================================
