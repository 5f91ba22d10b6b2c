------------------------------ MODULE JobTable ------------------------------
(***************************************************************************)
(* The jobs table of PostgreSQL and the statements of internal/store that  *)
(* read and write it.  Each operator below is one SQL statement: it reads  *)
(* the table in the variable jobs and gives the table after the statement. *)
(*                                                                         *)
(* Time is relative and counted in ticks, so that the table has finitely   *)
(* many values without a bound on how long the system runs:                *)
(*   nextRun  is next_run_at minus the database's now(): 0 or less is due; *)
(*            it saturates at -Lag;                                        *)
(*   since    is how long ago running_since was, or NULL; it saturates at  *)
(*            MaxAge.                                                      *)
(* next_run_at of a row that is not pending or failed is never read before *)
(* it is written again, and is kept at 0.  The columns that no property    *)
(* tells apart (payload, last_error, created_at, completed_at) are left    *)
(* out.                                                                    *)
(***************************************************************************)
EXTENDS Integers

CONSTANTS Jobs,    \* the jobs that may ever be enqueued, by id
          Lag,     \* how far in the past a due job's next_run_at is tracked
          MaxAge   \* how far in the past running_since is tracked

ASSUME TableAssumption == Lag \in Nat /\ MaxAge \in Nat

VARIABLE jobs      \* the table: a row for each job, "absent" before its INSERT

NULL == -1

\* The values of the column status, and "absent" for a row not inserted yet.
JobStatus == {"absent", "pending", "running", "completed", "failed", "dead"}
Waiting   == {"pending", "failed"}
Terminal  == {"completed", "dead"}

Row == [status : JobStatus, attempts : Nat, nextRun : Int, since : Nat \cup {NULL}]

Absent == [status |-> "absent", attempts |-> 0, nextRun |-> 0, since |-> NULL]

\* Faulty: dead rows are selected too; running ones are.
DueWithDead ==
  {j \in Jobs : jobs[j].status \in Waiting \cup {"dead"} /\ jobs[j].nextRun <= 0}

DueWithRunning ==
  {j \in Jobs : jobs[j].status \in Waiting \cup {"running"} /\ jobs[j].nextRun <= 0}

\* The rows the SELECT of Dequeue ranges over before it skips locked ones.
Due == {j \in Jobs : jobs[j].status \in Waiting /\ jobs[j].nextRun <= 0}

-----------------------------------------------------------------------------
\* The INSERT of a job made by NewJob; at is its next_run_at.
Inserted(j, at) ==
  [jobs EXCEPT ![j] = [status |-> "pending", attempts |-> 0,
                       nextRun |-> at, since |-> NULL]]

\* Faulty: running_since is not set.
ClaimedUnstamped(S, age) ==
  [j \in Jobs |-> IF j \in S
                  THEN [status |-> "running", attempts |-> jobs[j].attempts,
                        nextRun |-> 0, since |-> NULL]
                  ELSE jobs[j]]

\* The UPDATE of Dequeue on the rows S it locked.  now() is the time at which
\* the transaction began, age ticks ago.
Claimed(S, age) ==
  [j \in Jobs |-> IF j \in S
                  THEN [status |-> "running", attempts |-> jobs[j].attempts,
                        nextRun |-> 0, since |-> age]
                  ELSE jobs[j]]

\* The three UPDATEs that end an execution.  None looks at the row's status.
MarkCompleted(j) ==
  [jobs EXCEPT ![j] = [status |-> "completed", attempts |-> jobs[j].attempts,
                       nextRun |-> 0, since |-> NULL]]

\* Faulty: running_since is not cleared.
MarkFailedStamped(j, at) ==
  [jobs EXCEPT ![j] = [status |-> "failed", attempts |-> jobs[j].attempts + 1,
                       nextRun |-> at, since |-> jobs[j].since]]

MarkFailed(j, at) ==
  [jobs EXCEPT ![j] = [status |-> "failed", attempts |-> jobs[j].attempts + 1,
                       nextRun |-> at, since |-> NULL]]

MarkDead(j) ==
  [jobs EXCEPT ![j] = [status |-> "dead", attempts |-> jobs[j].attempts + 1,
                       nextRun |-> 0, since |-> NULL]]

\* Faulty: a row at the cutoff is selected; every running row is.
StuckEarly(timeout, skew) ==
  {j \in Jobs : jobs[j].status = "running" /\ jobs[j].since + skew >= timeout}

StuckAny(timeout, skew) == {j \in Jobs : jobs[j].status = "running"}

\* The rows ResetStuck selects: running_since < cutoff, where the cutoff is
\* read from the clock of the host, skew ticks ahead of the database's.
Stuck(timeout, skew) ==
  {j \in Jobs : jobs[j].status = "running" /\ jobs[j].since + skew > timeout}

\* The UPDATE of ResetStuck on the rows S it selects.
Reset(S) ==
  [j \in Jobs |-> IF j \in S
                  THEN [status |-> "pending", attempts |-> jobs[j].attempts,
                        nextRun |-> 0, since |-> NULL]
                  ELSE jobs[j]]

-----------------------------------------------------------------------------
\* The table one tick later.
Sooner(row) ==
  IF row.status \in Waiting /\ row.nextRun > -Lag THEN row.nextRun - 1 ELSE row.nextRun

Longer(row) ==
  IF row.since # NULL /\ row.since < MaxAge THEN row.since + 1 ELSE row.since

Aged ==
  [j \in Jobs |-> [status |-> jobs[j].status, attempts |-> jobs[j].attempts,
                   nextRun |-> Sooner(jobs[j]), since |-> Longer(jobs[j])]]
=============================================================================
