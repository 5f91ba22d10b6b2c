------------------------------ MODULE Service -------------------------------
(***************************************************************************)
(* What glsync promises as a whole: a webhook that GitLab sends, however   *)
(* often, is taken once; each issue it mentions gets one job at most, and  *)
(* that job lives the life of JobLifecycle, from the moment it is queued.  *)
(* There are no handlers, workers, statements, instances or faults.        *)
(***************************************************************************)
EXTENDS Integers

CONSTANTS Deliveries, Keys, Issues,                       \* of Inbox
          Jobs, Target, MaxAttempts,                      \* of JobLifecycle
          Configured, DueDateComputable, JiraCodes        \* of Executor

VARIABLES stored, queue, told,        \* of Inbox
          status, attempts, jira      \* of JobLifecycle

In   == INSTANCE Inbox
Life == INSTANCE JobLifecycle

vars == <<stored, queue, told, status, attempts, jira>>

Init == In!Init /\ Life!Init

\* A webhook is stored, or somebody is told that it is.
Take(k) ==
  /\ In!Store(k) \/ \E d \in Deliveries : In!Tell(d, k)
  /\ UNCHANGED Life!vars

\* The job that is queued for an issue is the row the workers see: pending, with no
\* attempt, and Jira was never asked about it.
Queue(j, k, issue) == In!Queue(j, k, issue) /\ Life!Enqueue(j)

\* What the workers do with the jobs does not depend on what GitLab sends.
Work ==
  /\ \/ \E j \in Jobs :
          \/ Life!Complete(j) \/ Life!Retry(j) \/ Life!Die(j)
          \/ \E code \in Life!Settling : Life!Decide(j, code)
     \/ \E S \in SUBSET Jobs : Life!Claim(S) \/ Life!Release(S)
  /\ UNCHANGED In!vars

Next ==
  \/ \E k \in Keys :
       Take(k) \/ \E j \in Jobs, issue \in Issues : Queue(j, k, issue)
  \/ Work

Spec == Init /\ [][Next]_vars
=============================================================================
