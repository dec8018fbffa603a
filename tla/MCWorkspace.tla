---------------------------- MODULE MCWorkspace ----------------------------
EXTENDS Workspace, TLC

CONSTANTS f1, f2, f3, fileA, fileB, a1, a2, r1, r2

\* Two defects of one page and one of another.
MCHome == f1 :> fileA @@ f2 :> fileA @@ f3 :> fileB
=============================================================================
