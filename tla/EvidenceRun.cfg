\* Two artifacts, each rewritten at most between two contents, and one loading
\* process: readers share nothing with each other.
SPECIFICATION Spec
CONSTANTS
  Artifacts = {"findings.json", "coverage.json"}
  Findings = "findings.json"
  Coverage = "coverage.json"
  Values = {"v1", "v2"}
  Statuses = {"completed", "failed"}
  Readers = {"reader"}
INVARIANTS
  SealedIsDurable
  DirectoryIsOpenOrWhole
  EvidenceKept
  CheckedAnswerIsSealed
PROPERTIES
  ImplementsArchive
CHECK_DEADLOCK FALSE
