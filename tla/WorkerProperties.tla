-------------------------- MODULE WorkerProperties --------------------------
(***************************************************************************)
(* What the processors and reconcilers of Worker promise together.         *)
(***************************************************************************)
EXTENDS Worker

SlotState ==
  {Idle} \cup [pc : PC \ {"idle"}, job : Jobs, attempts : Nat, age : 0..MaxHold,
               err : ErrorKinds]

BatchEntry == [job : Jobs, attempts : Nat, nextRun : Int]

\* Every variable keeps its type; ages stay within the longest claim.
TypeOK ==
  /\ jobs \in [Jobs -> Row]
  /\ loop \in [Instances -> Loop]
  /\ ctxDone \in [Instances -> BOOLEAN]
  /\ batch \in [Instances -> SUBSET BatchEntry]
  /\ batchAge \in [Instances -> 0..MaxHold]
  /\ slot \in [Instances -> [Slots -> SlotState]]
  /\ jira \in [Jobs -> SUBSET Settling]
  /\ audit \in [Entries -> Nat]
  /\ disruptions \in 0..MaxDisruptions

-----------------------------------------------------------------------------
\* A job is never in the hands of two goroutines, of one instance or of two:
\* the row locks of Dequeue, the status it commits and the stuck timeout of the
\* reconciler exclude each other's claims.
ExclusiveClaims == \A j \in Jobs : \A g, h \in Holders(j) : g = h

\* process decides between a retry and the end on the attempts it read when it
\* claimed the row; when it writes, the row is still the one it read.
MarksWhatItClaimed ==
  \A i \in Instances, s \in Slots :
    Working(i, s) => /\ jobs[slot[i][s].job].status = "running"
                     /\ jobs[slot[i][s].job].attempts = slot[i][s].attempts

\* The attempts of a job never exceed max_attempts, a job in backoff still has
\* one left, whatever crashed or was reset in between.  max_attempts of 0 counts
\* as 1.
AttemptsBounded ==
  \A j \in Jobs :
    /\ jobs[j].attempts <= MaxAttempts \/ jobs[j].attempts <= 1
    /\ jobs[j].status = "failed" => jobs[j].attempts < MaxAttempts

\* A completed or dead row is never written again: no late Mark and no reset
\* reaches it.
TerminalIsFinal ==
  [][\A j \in Jobs : jobs[j].status \in Terminal => jobs'[j] = jobs[j]]_vars

\* Completed means that Jira moved the issue, unless no transition is configured.
\* It holds even when two goroutines run the same job.
CompletedWasApplied ==
  \A j \in Jobs :
    jobs[j].status = "completed" => Skipped(Target[j]) \/ 204 \in jira[j]

\* Dead means that the attempts are used up or that Jira refused for good.  It
\* holds even when two goroutines run the same job.
DeadIsEarned ==
  \A j \in Jobs :
    jobs[j].status = "dead" =>
      jobs[j].attempts >= MaxAttempts \/ jira[j] \cap NonRetryable # {}

\* A row is running exactly as long as running_since is set: ResetStuck, which
\* compares running_since, sees every running row and no other.
RunningIsStamped ==
  \A j \in Jobs : (jobs[j].status = "running") <=> (jobs[j].since # NULL)

\* The rows of the audit log that record the end of job j, or a failure of it.
Logged(j, action) == audit[<<j, action>>]

\* Every counted attempt left a transition_failed row of its own, through crashes,
\* shutdowns and resets: process writes it before the row of the job, with a context
\* of its own, and a goroutine whose Mark is late has written one too.
FailuresAreLogged ==
  \A j \in Jobs : jobs[j].attempts <= Logged(j, "transition_failed")

\* What a job may end as completed for, and what it may be given up for.
Applied(j) == Skipped(Target[j]) \/ 204 \in jira[j]

GivenUp(j) ==
  jira[j] \cap NonRetryable # {} \/ Logged(j, "transition_failed") >= MaxAttempts

\* What the audit log says of an end is so, even when the Mark of that end failed,
\* its row was reset and the job runs again: a logged success was applied by Jira,
\* a logged death follows a refusal for good or max_attempts logged failures.
AuditIsTruthful ==
  \A j \in Jobs : /\ Logged(j, "transition_success") > 0 => Applied(j)
                  /\ Logged(j, "job_dead") > 0 => GivenUp(j)

\* An end that the audit log records is the end the row has: as long as nothing
\* disrupts process, the last entry is written after the row.
AuditedEndIsReal ==
  disruptions = 0 => \A j \in Jobs :
    /\ Logged(j, "transition_success") > 0 => jobs[j].status = "completed"
    /\ Logged(j, "job_dead") > 0 => jobs[j].status = "dead"

\* No batch that was claimed and no goroutine has job j: Holders(j) is empty.
Unheld(j) ==
  /\ \A i \in Instances : loop[i] = "dispatch" => \A m \in batch[i] : m.job # j
  /\ \A i \in Instances, s \in Slots : Working(i, s) => slot[i][s].job # j

\* A row that a crash, a shutdown or a lost COMMIT left running, in nobody's hands,
\* stays as it is until a reconciler puts it back, with its attempts: no poll and no
\* goroutine of another instance takes it over.
AbandonedOnlyReset ==
  [][\A j \in Jobs :
       jobs[j].status = "running" /\ Unheld(j) =>
         /\ jobs'[j].attempts = jobs[j].attempts
         /\ \/ jobs'[j].status = "running" /\ Unheld(j)'
            \/ ReconcileEnabled /\ jobs'[j].status = "pending"]_vars

\* processor.go: "All in-flight jobs are completed before Run returns."  A goroutine
\* whose statements do not fail leaves its row ended or waiting for a retry.
InFlightCompleted ==
  [][\A i \in Instances, s \in Slots :
       Working(i, s) /\ ~Working(i, s)' /\ loop'[i] # "down" /\ Calm
         => jobs'[slot[i][s].job].status # "running"]_vars

-----------------------------------------------------------------------------
(* The inductive invariants behind these properties. *)

\* A batch is kept only inside Dequeue and while the loop ranges over it.
BatchesAreBrief == \A i \in Instances : ~Claiming(i) => batch[i] = {}

\* The rows a transaction has locked still wait and are as it read them.
LockedRowsWait ==
  \A i \in Instances : loop[i] = "tx" => \A m \in batch[i] :
    /\ jobs[m.job].status \in Waiting
    /\ jobs[m.job].attempts = m.attempts

\* The rows of a batch are running, since its BEGIN, and as they were read.
BatchRowsRun ==
  \A i \in Instances : loop[i] = "dispatch" => \A m \in batch[i] :
    /\ jobs[m.job].status = "running"
    /\ jobs[m.job].attempts = m.attempts
    /\ jobs[m.job].since = batchAge[i]

\* So is the row of a goroutine before its Mark.
SlotRowsRun ==
  \A i \in Instances, s \in Slots : Working(i, s) =>
    /\ jobs[slot[i][s].job].status = "running"
    /\ jobs[slot[i][s].job].attempts = slot[i][s].attempts
    /\ jobs[slot[i][s].job].since = slot[i][s].age

\* No row is in two batches, in two slots, or claimed by a batch and in a slot.
OneBatchEach ==
  \A i, k \in Instances : \A m \in batch[i], n \in batch[k] :
    m.job = n.job => i = k /\ m = n

OneSlotEach ==
  \A i, k \in Instances, s, t \in Slots :
    Working(i, s) /\ Working(k, t) /\ slot[i][s].job = slot[k][t].job
      => i = k /\ s = t

BatchOrSlot ==
  \A i, k \in Instances, t \in Slots : \A m \in batch[i] :
    loop[i] = "dispatch" /\ Working(k, t) => m.job # slot[k][t].job

\* A row that is not dead has an attempt left, or has used none.
AttemptLeft ==
  \A j \in Jobs :
    /\ jobs[j].status # "dead" => jobs[j].attempts = 0 \/ jobs[j].attempts < MaxAttempts
    /\ jobs[j].status = "failed" => jobs[j].attempts < MaxAttempts
    /\ jobs[j].attempts <= MaxAttempts \/ jobs[j].attempts <= 1

ClaimInv ==
  /\ BatchesAreBrief /\ LockedRowsWait /\ BatchRowsRun /\ SlotRowsRun
  /\ OneBatchEach /\ OneSlotEach /\ BatchOrSlot
  /\ RunningIsStamped /\ AttemptLeft

\* What the row locks ensure by themselves, also when claims overlap: a locked row
\* still waits, and no two transactions have locked it.
LockInv ==
  \A i \in Instances : loop[i] = "tx" => \A m \in batch[i] :
    /\ jobs[m.job].status \in Waiting
    /\ \A k \in Instances : loop[k] = "tx" /\ m.job \in JobsOf(batch[k]) => k = i

\* What a goroutine knows of Jira is so, and the attempts it read are not more
\* than those of the row, also when the row is no longer its own.
Knows(w) ==
  /\ w.attempts <= jobs[w.job].attempts
  /\ w.pc = "report" => w.err # "none"
  /\ w.pc = "mark" /\ w.err = "none" => Skipped(Target[w.job]) \/ 204 \in jira[w.job]
  /\ w.err = "permanent" => jira[w.job] \cap NonRetryable # {}

KnowsJira ==
  \A i \in Instances, s \in Slots : Working(i, s) => Knows(slot[i][s])

BatchAttempts ==
  \A i \in Instances : \A m \in batch[i] : m.attempts <= jobs[m.job].attempts

AbsentRows == \A j \in Jobs : jobs[j].status = "absent" => jobs[j].attempts = 0

EndsInv ==
  KnowsJira /\ BatchAttempts /\ AbsentRows /\ CompletedWasApplied /\ DeadIsEarned

\* The goroutines that are about to count a failure of job j, and how many.
Counting(j) ==
  {h \in Instances \X Slots :
     LET w == slot[h[1]][h[2]]
     IN  w.pc = "mark" /\ w.err # "none" /\ w.job = j}

\* The failures that are counted and those about to be are in the audit log.
FailureLoggedFirst ==
  \A j \in Jobs :
    /\ IsFiniteSet(Counting(j))
    /\ jobs[j].attempts + Cardinality(Counting(j)) <= Logged(j, "transition_failed")

\* A goroutine that has yet to log the end of its job has grounds for it.
EndHasGrounds ==
  \A i \in Instances, s \in Slots : slot[i][s].pc = "record" =>
    IF slot[i][s].err = "none" THEN Applied(slot[i][s].job) ELSE GivenUp(slot[i][s].job)

\* As long as nothing disrupts it, a goroutine that has yet to log the end of its
\* job has given the row that end.
RowEndedFirst ==
  disruptions = 0 =>
    /\ \A i \in Instances : ~ctxDone[i]
    /\ \A i \in Instances, s \in Slots : slot[i][s].pc = "record" =>
         /\ Verdict(slot[i][s]) \in Terminal
         /\ jobs[slot[i][s].job].status = Verdict(slot[i][s])

-----------------------------------------------------------------------------
\* The table and Jira, seen without the instances, live the life of JobLifecycle.
Lifecycle ==
  INSTANCE JobLifecycle WITH status   <- [j \in Jobs |-> jobs[j].status],
                             attempts <- [j \in Jobs |-> jobs[j].attempts]
LifecycleSpec == Lifecycle!Spec

-----------------------------------------------------------------------------
\* The Go scheduler runs every goroutine, the tickers keep ticking, the statements
\* that pool.Close() waits for end, and a process that ended is started again: after
\* a crash by deploy/glsync.service (Restart=on-failure), after a clean exit by whoever
\* stopped it.  Jira may fail every time.
Fairness ==
  /\ \A i \in Instances :
       /\ WF_vars(RunStep(i)) /\ WF_vars(Reconcile(i))
       /\ WF_vars(Exit(i)) /\ WF_vars(Start(i))
       /\ \A s \in Slots : WF_vars(ProcessStep(i, s)) /\ WF_vars(Dispatch(i, s))
  /\ WF_vars(Tick)

FairSpec == Spec /\ Fairness

\* Every enqueued job ends, completed or dead, whatever crashed on the way.
EveryJobSettles ==
  \A j \in Jobs : jobs[j].status = "pending" ~> jobs[j].status \in Terminal

\* After a signal Run returns: neither the semaphore nor wg.Wait() blocks forever.
ShutdownReturns ==
  \A i \in Instances : ctxDone[i] ~> loop[i] \in {"returned", "down"}
=============================================================================
