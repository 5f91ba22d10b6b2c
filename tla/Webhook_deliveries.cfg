\* Two concurrent deliveries of any kind, two faults.
SPECIFICATION FairSpec
CONSTANTS
  r1 = r1  r2 = r2  r3 = r3
  Deliveries = {r1, r2}
  Payloads <- Assorted
  MaxFaults = 2
  Matches <- Found
  Upper <- InUpperCase
  NoText = ""
  DevelopBranch = "develop"
  MasterBranch = "master"
  DoneEmoji = "thumbsup"
  ZeroSHA = "0"
INVARIANTS TypeOK OneJobPerWebhook CalmRowsComplete
PROPERTIES AnsweredIsQueued InboxSpec
\* There are finitely many deliveries: the model stops when all are done.
CHECK_DEADLOCK FALSE
