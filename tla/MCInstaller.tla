------------------------------ MODULE MCInstaller ------------------------------
(* A small instance of Installer for TLC: two releases, the second without a *)
(* file of the first, and one file of which the user knows nothing.          *)
EXTENDS Installer

MCPayload ==
  [s \in Slots |-> [v \in Versions |->
     IF s = "skill" /\ v = "v1" THEN {"SKILL.md", "notes.md"} ELSE {"SKILL.md"}]]
===============================================================================
