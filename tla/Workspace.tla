----------------------------- MODULE Workspace -----------------------------
(***************************************************************************)
(* What the commands of a workspace keep beside its runs: the index of     *)
(* findings and the page snapshots of `audit`, the repairs of `apply` and  *)
(* `remediate`, the answers of `verify remediation`, and the review queue. *)
(*                                                                         *)
(* None of the properties below relates the state of two of these, so they *)
(* are looked at one at a time: `focus` says which part of the workspace   *)
(* is in use in a behaviour, and the others stay as they were.             *)
(***************************************************************************)
EXTENDS FindingIndex, Remediation, ReviewQueue

VARIABLE focus

workspaceVars == <<focus, indexVars, vars, reviewVars>>

WorkspaceInit ==
  /\ focus \in {"audit", "repair", "verify", "review"}
  /\ IndexInit /\ (focus # "audit" => live = {})
  /\ Init /\ (focus \notin {"repair", "verify"} => run = Findings)
  /\ ReviewInit

\* The index of findings and the page snapshots.
AuditInUse ==
  /\ focus = "audit" /\ IndexNext
  /\ UNCHANGED <<focus, vars, reviewVars>>

\* The source under the commands that write it; what the site shows of it
\* is not read by them.
RepairInUse ==
  /\ focus = "repair" /\ (SourceNext \/ RepairNext)
  /\ UNCHANGED <<focus, indexVars, reviewVars>>

\* A repair being verified, on a site that is built from the source.
VerifyInUse ==
  /\ focus = "verify" /\ (SourceNext \/ SiteNext \/ PatchNext \/ VerifyNext)
  /\ UNCHANGED <<focus, indexVars, reviewVars>>

ReviewInUse ==
  /\ focus = "review" /\ ReviewNext
  /\ UNCHANGED <<focus, indexVars, vars>>

WorkspaceNext == AuditInUse \/ RepairInUse \/ VerifyInUse \/ ReviewInUse

WorkspaceSpec == WorkspaceInit /\ [][WorkspaceNext]_workspaceVars
=============================================================================
