\* Two instances with one slot each share two jobs; one crash, signal or failed
\* statement; the stuck timeout covers the longest claim.
SPECIFICATION Spec
CONSTANTS
  i1 = i1  i2 = i2  j1 = j1  j2 = j2  NoJob = NoJob
  Instances = {i1, i2}
  Jobs = {j1, j2}
  Concurrency = 1
  MaxAttempts = 2
  Lag = 0
  MaxAge = 2
  MaxHold = 1
  StuckJobTimeout = 1
  MaxDisruptions = 1
  ReconcileEnabled = TRUE
  AuditLossy = FALSE
  DueDateComputable = TRUE
  Configured = {"code_review"}
  JiraCodes = {204, 400}
  Target <- TargetReview
  Backoff <- Backoff1
  Skew <- NoSkew
SYMMETRY Symmetry
INVARIANTS TypeOK
           ExclusiveClaims
           MarksWhatItClaimed
           RunningIsStamped
           AttemptsBounded
           AuditedEndIsReal
PROPERTIES TerminalIsFinal
           AbandonedOnlyReset
           LifecycleSpec
