------------------------------- MODULE Worker -------------------------------
(***************************************************************************)
(* The processors and reconcilers of several glsync instances that share   *)
(* one jobs table: internal/worker over internal/store, as main.go runs    *)
(* them.  An action is one step between two points where another goroutine *)
(* or another instance can run: a statement of a transaction, a send on    *)
(* the semaphore, a Jira call, an UPDATE, an audit INSERT.                 *)
(*                                                                         *)
(* The environment crashes an instance, signals it, makes a statement fail *)
(* or loses the answer to a COMMIT, at most MaxDisruptions times; Jira     *)
(* errors are not counted.                                                 *)
(***************************************************************************)
EXTENDS JobTable, Executor, FiniteSets

CONSTANTS Instances,
          NoJob,
          Target,            \* the workflow state each job moves its issue to
          Concurrency,       \* worker.concurrency: slots, and LIMIT of Dequeue
          MaxAttempts,       \* worker.max_attempts, copied into each job
          Backoff,           \* nextBackoff in ticks, by attempts
          StuckJobTimeout,   \* reconcile.stuck_job_timeout in ticks
          ReconcileEnabled,  \* reconcile.enabled
          Skew,              \* clock of each host minus clock of the database
          MaxHold,           \* no claim takes longer from BEGIN to its Mark
          MaxDisruptions,
          AuditLossy         \* whether an audit INSERT is among what may fail

ASSUME WorkerAssumption ==
  /\ NoJob \notin Jobs
  /\ Target \in [Jobs -> WorkflowState]
  /\ Concurrency \in Nat /\ MaxAttempts \in Nat /\ MaxDisruptions \in Nat
  /\ StuckJobTimeout \in Nat
  /\ MaxHold \in Nat /\ MaxHold <= MaxAge
  /\ Backoff \in [0..MaxAttempts -> Nat]
  /\ Skew \in [Instances -> Int]
  /\ ReconcileEnabled \in BOOLEAN /\ AuditLossy \in BOOLEAN
  /\ \A i \in Instances : MaxAge > StuckJobTimeout - Skew[i]

\* What keeps the reconciler away from jobs that are still being worked on: the
\* timeout covers the longest claim, on the slowest clock.  Nothing in the code
\* or in Config.Validate enforces it.
WellProvisioned ==
  ReconcileEnabled => \A i \in Instances : MaxHold + Skew[i] <= StuckJobTimeout

Slots == 1..Concurrency

VARIABLES loop,        \* where Processor.Run of each instance is
          ctxDone,     \* whether its context is cancelled
          batch,       \* the rows Dequeue locked or returned, not yet dispatched
          batchAge,    \* ticks since the BEGIN of that Dequeue
          slot,        \* the goroutine that holds each slot of the semaphore
          jira,        \* what Jira decided on the requests for each job
          audit,       \* the audit log: how many rows it has of each entry
          disruptions  \* how many disruptions happened so far

vars == <<jobs, loop, ctxDone, batch, batchAge, slot, jira, audit, disruptions>>

\* The processor waits in its select, is inside Dequeue, or ranges over the jobs
\* it claimed; "returned" is after Run, "down" is no process at all.
Loop == {"down", "select", "tx", "dispatch", "returned"}

\* process: the Jira call, writeAudit(transition_failed), Mark*, last writeAudit.
PC == {"idle", "exec", "report", "mark", "record"}

Idle == [pc |-> "idle", job |-> NoJob, attempts |-> 0, age |-> 0, err |-> "none"]

AuditAction == {"transition_success", "transition_failed", "job_dead",
                "reconcile_stuck_reset"}

\* A row of the audit log, up to its time and wording: of which job, and what.
Entries == (Jobs \cup {NoJob}) \X AuditAction

\* A row as SELECT returned it: Mark decides on this copy, never on the row.
Snapshot(j) == [job |-> j, attempts |-> jobs[j].attempts, nextRun |-> jobs[j].nextRun]

Running(i) == loop[i] \in {"select", "tx", "dispatch"}

JobsOf(b) == {m.job : m \in b}

\* The rows locked by SELECT ... FOR UPDATE in transactions not yet ended.
Locked == UNION {JobsOf(batch[i]) : i \in {k \in Instances : loop[k] = "tx"}}

\* The goroutine in slot w goes on to pc, with the error err from Execute.
GoesOn(w, pc, err) ==
  [pc |-> pc, job |-> w.job, attempts |-> w.attempts, age |-> w.age, err |-> err]

\* The goroutine of slot s of instance i works on a claimed job, before its Mark.
Working(i, s) == slot[i][s].pc \in {"exec", "report", "mark"}

\* Who works on job j: slot s of i, or the batch of i, written as slot 0.
Holders(j) ==
  {<<i, 0>> : i \in {k \in Instances : loop[k] = "dispatch" /\ j \in JobsOf(batch[k])}}
    \cup {h \in Instances \X Slots : Working(h[1], h[2]) /\ slot[h[1]][h[2]].job = j}

Disrupt == disruptions < MaxDisruptions /\ disruptions' = disruptions + 1
Calm    == UNCHANGED disruptions

\* The INSERT of one row into the audit log.  It may fail: writeAudit only logs the
\* error.
Audited(entry) ==
  \/ audit' = [audit EXCEPT ![entry] = @ + 1] /\ Calm
  \/ AuditLossy /\ UNCHANGED audit /\ Disrupt

-----------------------------------------------------------------------------
Init ==
  /\ jobs = [j \in Jobs |-> Absent]
  /\ loop = [i \in Instances |-> "select"]
  /\ ctxDone = [i \in Instances |-> FALSE]
  /\ batch = [i \in Instances |-> {}]
  /\ batchAge = [i \in Instances |-> 0]
  /\ slot = [i \in Instances |-> [s \in Slots |-> Idle]]
  /\ jira = [j \in Jobs |-> {}]
  /\ audit = [e \in Entries |-> 0]
  /\ disruptions = 0

-----------------------------------------------------------------------------
(* The webhook handler of instance i enqueues a job; the HTTP server may still be
   draining after Run returned. *)
Enqueue(i, j) ==
  /\ loop[i] # "down"
  /\ jobs[j].status = "absent"
  /\ jobs' = Inserted(j, Skew[i])
  /\ UNCHANGED <<loop, ctxDone, batch, batchAge, slot, jira, audit, disruptions>>

-----------------------------------------------------------------------------
(* Processor.Run and pgJobRepo.Dequeue *)

\* Faulty: SKIP LOCKED without FOR UPDATE, locked rows are selected again.
SelectableUnlocked(S) ==
  /\ S \subseteq Due
  /\ Cardinality(S) <= Concurrency
  /\ S = Due \/ Cardinality(S) = Concurrency
  /\ \A j \in S, k \in Due \ S : jobs[j].nextRun <= jobs[k].nextRun

\* The rows a SELECT may return and lock: those due and not locked, at most
\* LIMIT of them, and none while a row with an earlier next_run_at is left.
Selectable(S) ==
  LET free == Due \ Locked
  IN  /\ S \subseteq free
      /\ Cardinality(S) <= Concurrency
      /\ S = free \/ Cardinality(S) = Concurrency
      /\ \A j \in S, k \in free \ S : jobs[j].nextRun <= jobs[k].nextRun

\* A tick of the poll: BEGIN and the SELECT.  An empty result ends Dequeue.
DequeueSelect(i) ==
  /\ loop[i] = "select" /\ ~ctxDone[i]
  /\ \E S \in SUBSET Jobs :
       /\ S # {} /\ Selectable(S)
       /\ batch' = [batch EXCEPT ![i] = {Snapshot(j) : j \in S}]
  /\ batchAge' = [batchAge EXCEPT ![i] = 0]
  /\ loop' = [loop EXCEPT ![i] = "tx"]
  /\ UNCHANGED <<jobs, ctxDone, slot, jira, audit, disruptions>>

\* UPDATE and COMMIT take effect; the loop goes on to its range over the jobs.
DequeueCommit(i) ==
  /\ loop[i] = "tx" /\ ~ctxDone[i]
  /\ jobs' = Claimed(JobsOf(batch[i]), batchAge[i])
  /\ loop' = [loop EXCEPT ![i] = "dispatch"]
  /\ UNCHANGED <<ctxDone, batch, batchAge, slot, jira, audit, disruptions>>

\* Dequeue returns an error and the loop drops the batch: a failed statement or
\* a cancelled context rolls the transaction back, or the COMMIT took effect and
\* only its answer was lost.
DequeueError(i) ==
  /\ loop[i] = "tx"
  /\ (ctxDone[i] /\ Calm) \/ Disrupt
  /\ \/ UNCHANGED jobs
     \/ jobs' = Claimed(JobsOf(batch[i]), batchAge[i])
  /\ batch' = [batch EXCEPT ![i] = {}]
  /\ batchAge' = [batchAge EXCEPT ![i] = 0]
  /\ loop' = [loop EXCEPT ![i] = "select"]
  /\ UNCHANGED <<ctxDone, slot, jira, audit>>

\* The loop takes the next job of the batch and a free slot of the semaphore, and
\* starts process on it.  Waiting for the slot does not watch the context.
Dispatch(i, s) ==
  /\ loop[i] = "dispatch" /\ slot[i][s].pc = "idle"
  /\ \E m \in batch[i] :
       /\ \A n \in batch[i] : m.nextRun <= n.nextRun
       /\ slot' = [slot EXCEPT ![i][s] =
                     [pc |-> "exec", job |-> m.job, attempts |-> m.attempts,
                      age |-> batchAge[i], err |-> "none"]]
       /\ batch' = [batch EXCEPT ![i] = @ \ {m}]
       /\ loop' = [loop EXCEPT ![i] = IF batch[i] = {m} THEN "select" ELSE @]
       /\ batchAge' = [batchAge EXCEPT ![i] = IF batch[i] = {m} THEN 0 ELSE @]
  /\ UNCHANGED <<jobs, ctxDone, jira, audit, disruptions>>

\* ctx.Done() is ready, wg.Wait() returns, and so does Run.
Return(i) ==
  /\ loop[i] = "select" /\ ctxDone[i]
  /\ \A s \in Slots : slot[i][s].pc = "idle"
  /\ loop' = [loop EXCEPT ![i] = "returned"]
  /\ UNCHANGED <<jobs, ctxDone, batch, batchAge, slot, jira, audit, disruptions>>

-----------------------------------------------------------------------------
(* Processor.process in its own goroutine *)

Execute(i, s) ==
  /\ slot[i][s].pc = "exec"
  /\ \E o \in Outcomes(Target[slot[i][s].job], ctxDone[i]) :
       /\ jira' = [jira EXCEPT ![slot[i][s].job] = @ \cup ({o.decided} \cap Settling)]
       /\ slot' = [slot EXCEPT ![i][s] =
                     GoesOn(slot[i][s], IF o.err = "none" THEN "mark" ELSE "report", o.err)]
  /\ UNCHANGED <<jobs, loop, ctxDone, batch, batchAge, audit, disruptions>>

\* Faulty: only the first failure of a job is written.
ReportOnce(i, s) ==
  /\ slot[i][s].pc = "report"
  /\ LET entry == <<slot[i][s].job, "transition_failed">>
     IN  IF audit[entry] = 0 THEN Audited(entry) ELSE UNCHANGED audit /\ Calm
  /\ slot' = [slot EXCEPT ![i][s] = GoesOn(slot[i][s], "mark", slot[i][s].err)]
  /\ UNCHANGED <<jobs, loop, ctxDone, batch, batchAge, jira>>

\* writeAudit("transition_failed"), with a context of its own.
Report(i, s) ==
  /\ slot[i][s].pc = "report"
  /\ Audited(<<slot[i][s].job, "transition_failed">>)
  /\ slot' = [slot EXCEPT ![i][s] = GoesOn(slot[i][s], "mark", slot[i][s].err)]
  /\ UNCHANGED <<jobs, loop, ctxDone, batch, batchAge, jira>>

\* Faulty: no error is retried; one attempt too many.
VerdictNoRetry(w) == IF w.err = "none" THEN "completed" ELSE "dead"

VerdictLate(w) ==
  IF w.err = "none" THEN "completed"
  ELSE IF w.err = "permanent" \/ w.attempts >= MaxAttempts THEN "dead"
  ELSE "failed"

\* How process ends a job, from the copy of the row it was started with.
Verdict(w) ==
  IF w.err = "none" THEN "completed"
  ELSE IF w.err = "permanent" \/ w.attempts + 1 >= MaxAttempts THEN "dead"
  ELSE "failed"

\* Faulty: a dead job is marked failed.
MarkedAlive(i, w) ==
  IF Verdict(w) = "completed" THEN MarkCompleted(w.job)
  ELSE MarkFailed(w.job, Backoff[w.attempts] + Skew[i])

Marked(i, w) ==
  IF Verdict(w) = "completed" THEN MarkCompleted(w.job)
  ELSE IF Verdict(w) = "dead" THEN MarkDead(w.job)
  ELSE MarkFailed(w.job, Backoff[w.attempts] + Skew[i])

\* MarkCompleted, MarkFailed or MarkDead with the context of Run: once it is
\* cancelled, or when the statement fails, the row stays as it is and the error is
\* only logged.  The UPDATE waits for a lock on the row.
Mark(i, s) ==
  LET w == slot[i][s]
  IN  /\ w.pc = "mark" /\ w.job \notin Locked
      /\ \/ ~ctxDone[i] /\ jobs' = Marked(i, w) /\ Calm
         \/ ctxDone[i] /\ UNCHANGED jobs /\ Calm
         \/ ~ctxDone[i] /\ UNCHANGED jobs /\ Disrupt
      /\ slot' = [slot EXCEPT ![i][s] =
                    IF Verdict(w) = "failed" THEN Idle ELSE GoesOn(w, "record", w.err)]
      /\ UNCHANGED <<loop, ctxDone, batch, batchAge, jira, audit>>

\* Faulty: the slot is given back with its job still in it.
RecordDirty(i, s) ==
  LET w == slot[i][s]
  IN  /\ w.pc = "record"
      /\ Audited(<<w.job, IF Verdict(w) = "completed" THEN "transition_success"
                                                      ELSE "job_dead">>)
      /\ slot' = [slot EXCEPT ![i][s] = GoesOn(w, "idle", w.err)]
      /\ UNCHANGED <<jobs, loop, ctxDone, batch, batchAge, jira>>

\* Faulty: once the context is cancelled nothing is logged and the slot not given back.
RecordLeaky(i, s) ==
  LET w == slot[i][s]
      entry == <<w.job, IF Verdict(w) = "completed" THEN "transition_success"
                                                    ELSE "job_dead">>
  IN  /\ w.pc = "record"
      /\ IF ctxDone[i] THEN UNCHANGED audit /\ Calm ELSE Audited(entry)
      /\ slot' = [slot EXCEPT ![i][s] = IF ctxDone[i] THEN w ELSE Idle]
      /\ UNCHANGED <<jobs, loop, ctxDone, batch, batchAge, jira>>

\* writeAudit of the end of the job, then the goroutine gives its slot back.
Record(i, s) ==
  LET w == slot[i][s]
  IN  /\ w.pc = "record"
      /\ Audited(<<w.job, IF Verdict(w) = "completed" THEN "transition_success"
                                                      ELSE "job_dead">>)
      /\ slot' = [slot EXCEPT ![i][s] = Idle]
      /\ UNCHANGED <<jobs, loop, ctxDone, batch, batchAge, jira>>

-----------------------------------------------------------------------------
(* Reconciler.resetStuckJobs.  With a cancelled context the UPDATE fails and
   nothing changes, as when no row is stuck. *)
Reconcile(i) ==
  /\ ReconcileEnabled /\ Running(i) /\ ~ctxDone[i]
  /\ Stuck(StuckJobTimeout, Skew[i]) # {}
  /\ jobs' = Reset(Stuck(StuckJobTimeout, Skew[i]))
  /\ Audited(<<NoJob, "reconcile_stuck_reset">>)
  /\ UNCHANGED <<loop, ctxDone, batch, batchAge, slot, jira>>

-----------------------------------------------------------------------------
(* The process: main.go, the signal, the crash and the restart *)

Signal(i) ==
  /\ Running(i) /\ ~ctxDone[i] /\ Disrupt
  /\ ctxDone' = [ctxDone EXCEPT ![i] = TRUE]
  /\ UNCHANGED <<jobs, loop, batch, batchAge, slot, jira, audit>>

\* Everything in memory is gone, and the database rolls the transaction back.
Stop(i) ==
  /\ loop' = [loop EXCEPT ![i] = "down"]
  /\ ctxDone' = [ctxDone EXCEPT ![i] = FALSE]
  /\ batch' = [batch EXCEPT ![i] = {}]
  /\ batchAge' = [batchAge EXCEPT ![i] = 0]
  /\ slot' = [slot EXCEPT ![i] = [s \in Slots |-> Idle]]
  /\ UNCHANGED <<jobs, jira, audit>>

Crash(i) == Running(i) /\ Stop(i) /\ Disrupt
Exit(i)  == loop[i] = "returned" /\ Stop(i) /\ Calm

Start(i) ==
  /\ loop[i] = "down"
  /\ loop' = [loop EXCEPT ![i] = "select"]
  /\ UNCHANGED <<jobs, ctxDone, batch, batchAge, slot, jira, audit, disruptions>>

-----------------------------------------------------------------------------
(* Time passes, but no claim grows older than MaxHold before its Mark. *)
Claiming(i) == loop[i] \in {"tx", "dispatch"}

Older(w) == [pc |-> w.pc, job |-> w.job, attempts |-> w.attempts, age |-> w.age + 1,
             err |-> w.err]

Tick ==
  /\ \A i \in Instances :
       /\ Claiming(i) => batchAge[i] < MaxHold
       /\ \A s \in Slots : Working(i, s) => slot[i][s].age < MaxHold
  /\ jobs' = Aged
  /\ batchAge' = [i \in Instances |-> IF Claiming(i) THEN batchAge[i] + 1 ELSE 0]
  /\ slot' = [i \in Instances |-> [s \in Slots |->
                IF Working(i, s) THEN Older(slot[i][s]) ELSE slot[i][s]]]
  /\ UNCHANGED <<loop, ctxDone, batch, jira, audit, disruptions>>

-----------------------------------------------------------------------------
RunStep(i) ==
  \/ DequeueSelect(i) \/ DequeueCommit(i) \/ DequeueError(i) \/ Return(i)
  \/ \E s \in Slots : Dispatch(i, s)

ProcessStep(i, s) == Execute(i, s) \/ Report(i, s) \/ Mark(i, s) \/ Record(i, s)

Next ==
  \/ \E i \in Instances :
       \/ \E j \in Jobs : Enqueue(i, j)
       \/ RunStep(i)
       \/ \E s \in Slots : ProcessStep(i, s)
       \/ Reconcile(i)
       \/ Signal(i) \/ Crash(i) \/ Exit(i) \/ Start(i)
  \/ Tick

Spec == Init /\ [][Next]_vars
=============================================================================
