\* A merge request is reopened twice.
SPECIFICATION Spec
CONSTANTS
  r1 = r1  r2 = r2  r3 = r3
  Deliveries = {r1, r2}
  Payloads <- TwoReopens
  MaxFaults = 0
  Matches <- Found
  Upper <- InUpperCase
  NoText = ""
  DevelopBranch = "develop"
  MasterBranch = "master"
  DoneEmoji = "thumbsup"
  ZeroSHA = "0"
INVARIANTS ReopenGoesToReview
\* There are finitely many deliveries: the model stops when all are done.
CHECK_DEADLOCK FALSE
