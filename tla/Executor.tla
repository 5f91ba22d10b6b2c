------------------------------ MODULE Executor ------------------------------
(***************************************************************************)
(* internal/worker/executor.go with the Jira client it calls: what one     *)
(* execution of a job can do in Jira and which error it can return.        *)
(*                                                                         *)
(* Jira is outside the program: it may accept or refuse a request, and its *)
(* answer may be lost on the way, after the request took effect or before  *)
(* it arrived.                                                             *)
(***************************************************************************)
EXTENDS Integers

CONSTANTS Configured,         \* the states that have a transition id in config
          DueDateComputable,  \* CalculateDueDate succeeds (known strategy and weekday)
          JiraCodes           \* the HTTP statuses Jira answers with

WorkflowState == {"in_progress", "code_review", "rfqa", "done"}

ASSUME ExecutorAssumption ==
  /\ Configured \subseteq WorkflowState
  /\ DueDateComputable \in BOOLEAN
  /\ JiraCodes \subseteq Nat

\* Answers that no retry can change: JiraHTTPError.IsNonRetryable.
NonRetryable == {400, 404, 405, 409, 422}

NoAnswer == 0

\* What process tells apart in the error Execute returns: no error, one that is
\* retried, one that is not.
ErrorKinds == {"none", "transient", "permanent"}

\* Faulty: any answer below 500 is a success; any failure is final.
ErrorOfLax(code) == IF code \in 200..499 THEN "none" ELSE "transient"

ErrorOfHasty(code) == IF code = 204 THEN "none" ELSE "permanent"

\* The client reports every status but 204 as a JiraHTTPError; a request
\* without an answer gives a transport error, which is retried.
ErrorOf(code) ==
  IF code = 204 THEN "none"
  ELSE IF code \in NonRetryable THEN "permanent"
  ELSE "transient"

\* A job whose target state has no transition id is skipped without an error.
Skipped(state) == state \notin Configured

\* One POST: Jira decides on it or it never arrives; the answer is seen or not.
\* Once the context is cancelled the client returns its error, whatever Jira did.
Requested == JiraCodes \cup {NoAnswer}
Unseen    == {[decided |-> c, err |-> "transient"] : c \in Requested}
Seen      == {[decided |-> c, err |-> ErrorOf(c)] : c \in Requested}

Request(cancelled) == IF cancelled THEN Unseen ELSE Seen \cup Unseen

\* What Execute can do for a job with this target state: what Jira decided on and
\* the error returned.
Outcomes(state, cancelled) ==
  IF Skipped(state)
  THEN {[decided |-> NoAnswer, err |-> "none"]}
  ELSE IF state = "in_progress" /\ ~DueDateComputable
  THEN {[decided |-> NoAnswer, err |-> "transient"]}
  ELSE Request(cancelled)

\* The decisions of Jira worth remembering: it moved the issue, or refused for good.
Settling == {204} \cup NonRetryable
=============================================================================
