---------------------------- MODULE JobLifecycle ----------------------------
(***************************************************************************)
(* What the job queue promises, with no instances, transactions or clocks: *)
(* the life of each row, one claim at a time, as docs/CODEMAPS/data.md     *)
(* draws it, and what a final status says about Jira.                      *)
(***************************************************************************)
EXTENDS Executor

CONSTANTS Jobs, Target, MaxAttempts

VARIABLES status,    \* of each job
          attempts,  \* failed executions counted for each job
          jira       \* what Jira decided on the requests for each job

vars == <<status, attempts, jira>>

Init ==
  /\ status = [j \in Jobs |-> "absent"]
  /\ attempts = [j \in Jobs |-> 0]
  /\ jira = [j \in Jobs |-> {}]

Enqueue(j) ==
  /\ status[j] = "absent"
  /\ status' = [status EXCEPT ![j] = "pending"]
  /\ UNCHANGED <<attempts, jira>>

\* A batch is claimed in one step, and only rows that wait.
Claim(S) ==
  /\ \A j \in S : status[j] \in {"pending", "failed"}
  /\ status' = [j \in Jobs |-> IF j \in S THEN "running" ELSE status[j]]
  /\ UNCHANGED <<attempts, jira>>

\* Jira is asked only about a job that is running.
Decide(j, code) ==
  /\ status[j] = "running" /\ ~Skipped(Target[j])
  /\ jira' = [jira EXCEPT ![j] = @ \cup {code}]
  /\ UNCHANGED <<status, attempts>>

\* Completed means that Jira moved the issue, unless the move is not configured.
Complete(j) ==
  /\ status[j] = "running"
  /\ Skipped(Target[j]) \/ 204 \in jira[j]
  /\ status' = [status EXCEPT ![j] = "completed"]
  /\ UNCHANGED <<attempts, jira>>

Retry(j) ==
  /\ status[j] = "running" /\ attempts[j] + 1 < MaxAttempts
  /\ status' = [status EXCEPT ![j] = "failed"]
  /\ attempts' = [attempts EXCEPT ![j] = @ + 1]
  /\ UNCHANGED jira

\* Dead means that the attempts are used up, or that Jira refused for good.
Die(j) ==
  /\ status[j] = "running"
  /\ attempts[j] + 1 >= MaxAttempts \/ jira[j] \cap NonRetryable # {}
  /\ status' = [status EXCEPT ![j] = "dead"]
  /\ attempts' = [attempts EXCEPT ![j] = @ + 1]
  /\ UNCHANGED jira

\* The reconciler puts abandoned jobs back; that is not counted as an attempt.
Release(S) ==
  /\ \A j \in S : status[j] = "running"
  /\ status' = [j \in Jobs |-> IF j \in S THEN "pending" ELSE status[j]]
  /\ UNCHANGED <<attempts, jira>>

Next ==
  \/ \E j \in Jobs :
       \/ Enqueue(j) \/ Complete(j) \/ Retry(j) \/ Die(j)
       \/ \E code \in Settling : Decide(j, code)
  \/ \E S \in SUBSET Jobs : Claim(S) \/ Release(S)

Spec == Init /\ [][Next]_vars
=============================================================================
