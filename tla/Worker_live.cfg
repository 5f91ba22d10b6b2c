\* Two instances, one job, two disruptions.  The clocks of the two hosts disagree
\* with the database by a tick, and the timeout allows for it.
SPECIFICATION FairSpec
CONSTANTS
  i1 = i1  i2 = i2  j1 = j1  j2 = j2  NoJob = NoJob
  Instances = {i1, i2}
  Jobs = {j1}
  Concurrency = 1
  MaxAttempts = 2
  Lag = 0
  MaxAge = 4
  MaxHold = 1
  StuckJobTimeout = 2
  MaxDisruptions = 2
  ReconcileEnabled = TRUE
  AuditLossy = FALSE
  DueDateComputable = TRUE
  Configured = {"code_review"}
  JiraCodes = {204, 400}
  Target <- TargetReview
  Backoff <- Backoff1
  Skew <- SkewApart
INVARIANTS ExclusiveClaims
           CompletedWasApplied
           DeadIsEarned
           FailuresAreLogged
           AuditIsTruthful
PROPERTIES EveryJobSettles
           ShutdownReturns
