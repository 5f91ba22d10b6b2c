\* One instance with two slots: batches of two, the second job moves to in_progress
\* and its due date cannot be computed.  The stuck timeout is shorter than a claim
\* may take: jobs are reset while a goroutine still works on them.
SPECIFICATION Spec
CONSTANTS
  i1 = i1  i2 = i2  j1 = j1  j2 = j2  NoJob = NoJob
  Instances = {i1}
  Jobs = {j1, j2}
  Concurrency = 2
  MaxAttempts = 2
  Lag = 0
  MaxAge = 2
  MaxHold = 1
  StuckJobTimeout = 0
  MaxDisruptions = 0
  ReconcileEnabled = TRUE
  AuditLossy = FALSE
  DueDateComputable = FALSE
  Configured = {"code_review", "in_progress"}
  JiraCodes = {204, 400, 503}
  Target <- TargetMixed
  Backoff <- Backoff1
  Skew <- NoSkew
INVARIANTS CompletedWasApplied DeadIsEarned FailuresAreLogged AuditIsTruthful
