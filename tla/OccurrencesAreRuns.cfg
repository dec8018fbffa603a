SPECIFICATION WorkspaceSpec
CONSTANTS
  f1 = f1
  f2 = f2
  f3 = f3
  fileA = fileA
  fileB = fileB
  FindingIds = {f1, f2}
  Audits = {a1, a2}
  a1 = a1
  a2 = a2
  MaxHits = 2
  MaxChanges = 1
  Findings = {f1, f2, f3}
  Files = {fileA, fileB}
  Home <- MCHome
  Patchable = {f1, f2}
  Semantic = {f2}
  Severe = {f1, f3}
  MaxEdits = 1
  MaxOps = 2
  Reviewable = {f1}
  Reviewers = {r1, r2}
  r1 = r1
  r2 = r2
  Independent = {r2}
  Verdicts = {"supported", "unsupported"}
  MaxReviewEdits = 2
INVARIANT OccurrencesAreRuns
CHECK_DEADLOCK FALSE
