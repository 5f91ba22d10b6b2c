\* One delivery and one fault.
SPECIFICATION Spec
CONSTANTS
  r1 = r1  r2 = r2  r3 = r3
  Deliveries = {r1}
  Payloads <- OnlyDevelop
  MaxFaults = 1
  Matches <- Found
  Upper <- InUpperCase
  NoText = ""
  DevelopBranch = "develop"
  MasterBranch = "master"
  DoneEmoji = "thumbsup"
  ZeroSHA = "0"
INVARIANTS OneRowPerKey
\* There are finitely many deliveries: the model stops when all are done.
CHECK_DEADLOCK FALSE
