\* No request is needed: the server fails and no signal comes.
SPECIFICATION FairSpec
CONSTANTS
  Requests = {r1}
  Optional = {}
  FileOnly = {}
  ReconcileEnabled = TRUE
PROPERTIES ServerErrorEnds
CHECK_DEADLOCK FALSE
