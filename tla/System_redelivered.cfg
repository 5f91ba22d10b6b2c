\* One webhook delivered to an instance and again to another, with a retry; a crash or
\* a signal, and a failed statement, a disconnect or a handler cut off.
SPECIFICATION FairSpec
CONSTANTS
  i1 = i1  i2 = i2  r1 = r1  r2 = r2  NoJob = NoJob  NoInstance = NoInstance
  Deliveries = {r1, r2}
  Sent <- SentTwice
  Routes <- OneEach
  MaxFaults = 1
  Matches <- Found
  Upper <- InUpperCase
  NoText = ""
  DevelopBranch = "develop"
  MasterBranch = "master"
  DoneEmoji = "thumbsup"
  ZeroSHA = "0"
  Instances = {i1, i2}
  Concurrency = 1
  MaxAttempts = 2
  Lag = 0
  MaxAge = 1
  MaxHold = 0
  StuckJobTimeout = 0
  MaxDisruptions = 1
  ReconcileEnabled = TRUE
  AuditLossy = FALSE
  DueDateComputable = TRUE
  Configured = {"rfqa"}
  JiraCodes = {204}
  Backoff <- Backoff1
  Skew <- NoSkew
INVARIANTS OneMovePerWebhook
PROPERTIES TakenIsSettled ServiceSpec
