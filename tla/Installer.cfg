SPECIFICATION Spec
CONSTANTS
  Versions = {"v1", "v2"}
  Files = {"SKILL.md", "notes.md"}
  Entry = "SKILL.md"
  Payload <- MCPayload
  MaxRuns = 2
  MaxEdits = 1
INVARIANTS
  NeverMixed
  UserWorkKept
  SkillRestored
CHECK_DEADLOCK FALSE
