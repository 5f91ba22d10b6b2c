\* Every way to set the required settings; two requests at once, a signal or a
\* failing server at any moment.
SPECIFICATION FairSpec
CONSTANTS
  Requests = {r1, r2}
  Optional = {"jira_base_url"}
  FileOnly = {"worker_concurrency"}
  ReconcileEnabled = TRUE
INVARIANTS NothingCutOff
PROPERTIES SignalEnds
\* The process ends.
CHECK_DEADLOCK FALSE
