---------------------------- MODULE WorkerProofs ----------------------------
(***************************************************************************)
(* Theorems about Worker, for every number of instances, slots and jobs,   *)
(* every backoff, every skew and every number of disruptions.              *)
(***************************************************************************)
EXTENDS WorkerProperties, TLAPS

-----------------------------------------------------------------------------
(* The statements of the jobs table keep the type of the table. *)

LEMMA InsertedType ==
  ASSUME jobs \in [Jobs -> Row], NEW j \in Jobs, NEW at \in Int
  PROVE  Inserted(j, at) \in [Jobs -> Row]
BY DEF Inserted, Row, JobStatus, NULL

LEMMA ClaimedType ==
  ASSUME jobs \in [Jobs -> Row], NEW S, NEW age \in Nat
  PROVE  Claimed(S, age) \in [Jobs -> Row]
BY DEF Claimed, Row, JobStatus

LEMMA MarksType ==
  ASSUME jobs \in [Jobs -> Row], NEW j \in Jobs, NEW at \in Int
  PROVE  /\ MarkCompleted(j) \in [Jobs -> Row]
         /\ MarkFailed(j, at) \in [Jobs -> Row]
         /\ MarkDead(j) \in [Jobs -> Row]
BY DEF MarkCompleted, MarkFailed, MarkDead, Row, JobStatus, NULL

LEMMA ResetType ==
  ASSUME jobs \in [Jobs -> Row], NEW S
  PROVE  Reset(S) \in [Jobs -> Row]
BY DEF Reset, Row, JobStatus, NULL

LEMMA AgedType ==
  ASSUME jobs \in [Jobs -> Row]
  PROVE  Aged \in [Jobs -> Row]
BY TableAssumption DEF Aged, Sooner, Longer, Row, JobStatus, NULL, Waiting

\* Only a job that has an attempt left is marked failed, and its backoff is
\* defined: Marked is a table.
LEMMA MarkedType ==
  ASSUME jobs \in [Jobs -> Row], NEW i \in Instances,
         NEW w \in SlotState, w.pc # "idle"
  PROVE  Marked(i, w) \in [Jobs -> Row]
<1>1. w.job \in Jobs /\ w.attempts \in Nat /\ w.err \in ErrorKinds
  BY DEF SlotState, Idle
<1>2. Verdict(w) = "failed" => Backoff[w.attempts] + Skew[i] \in Int
  BY <1>1, WorkerAssumption DEF Verdict
<1>3. Verdict(w) \in {"completed", "dead", "failed"}
  BY DEF Verdict
<1>4. CASE Verdict(w) = "completed"
  BY <1>1, <1>4, MarksType DEF Marked
<1>5. CASE Verdict(w) = "dead"
  BY <1>1, <1>5, MarksType DEF Marked
<1>6. CASE Verdict(w) = "failed"
  BY <1>1, <1>2, <1>6, MarksType DEF Marked
<1> QED
  BY <1>3, <1>4, <1>5, <1>6

-----------------------------------------------------------------------------
\* The types of a snapshot, of an outcome and of a fresh array of slots.
LEMMA SnapshotType ==
  ASSUME jobs \in [Jobs -> Row], NEW S \in SUBSET Jobs
  PROVE  {Snapshot(j) : j \in S} \in SUBSET BatchEntry
BY DEF Snapshot, BatchEntry, Row

\* An execution without an error was skipped or accepted by Jira, and one that is
\* not retried was refused by Jira for good.
LEMMA OutcomeFacts ==
  ASSUME NEW state, NEW cancelled, NEW o \in Outcomes(state, cancelled)
  PROVE  /\ o.err \in ErrorKinds
         /\ o.err = "none" => Skipped(state) \/ o.decided = 204
         /\ o.err = "permanent" => o.decided \in NonRetryable
         /\ Skipped(state) => o.decided = NoAnswer
<1>1. CASE Skipped(state)
  BY <1>1 DEF Outcomes, ErrorKinds
<1>2. CASE ~Skipped(state) /\ state = "in_progress" /\ ~DueDateComputable
  BY <1>2 DEF Outcomes, ErrorKinds
<1>3. CASE ~Skipped(state) /\ o \in Seen
  BY <1>3 DEF Seen, ErrorOf, ErrorKinds
<1>4. CASE ~Skipped(state) /\ o \in Unseen
  BY <1>4 DEF Unseen, ErrorKinds
<1> QED
  BY <1>1, <1>2, <1>3, <1>4 DEF Outcomes, Request

LEMMA IdleType == Idle \in SlotState
BY DEF SlotState

\* A step of one goroutine changes its own slot.
LEMMA SlotUpdate ==
  ASSUME slot \in [Instances -> [Slots -> SlotState]],
         NEW i \in Instances, NEW s \in Slots, NEW w \in SlotState
  PROVE  [slot EXCEPT ![i][s] = w] \in [Instances -> [Slots -> SlotState]]
OBVIOUS

-----------------------------------------------------------------------------
(* Type correctness. *)

LEMMA EntryType ==
  /\ \A j \in Jobs, a \in AuditAction : <<j, a>> \in Entries
  /\ \A a \in AuditAction : <<NoJob, a>> \in Entries
BY DEF Entries

\* An INSERT into the audit log counts its own entry and no other, and uses up at
\* most one disruption.
LEMMA AuditedCounts ==
  ASSUME TypeOK, NEW entry \in Entries, Audited(entry)
  PROVE  /\ audit' \in [Entries -> Nat]
         /\ \A e \in Entries : e # entry => audit'[e] = audit[e]
         /\ audit'[entry] = audit[entry] + 1 \/ (AuditLossy /\ audit' = audit)
         /\ disruptions' \in 0..MaxDisruptions
<1>1. audit \in [Entries -> Nat]
  BY DEF TypeOK
<1>2. disruptions' \in 0..MaxDisruptions
  BY WorkerAssumption DEF TypeOK, Audited, Disrupt, Calm
<1>3. CASE audit' = [audit EXCEPT ![entry] = @ + 1]
  BY <1>1, <1>2, <1>3
<1>4. CASE AuditLossy /\ audit' = audit
  BY <1>1, <1>2, <1>4
<1> QED
  BY <1>3, <1>4 DEF Audited

LEMMA DisruptType ==
  ASSUME TypeOK, Disrupt \/ Calm
  PROVE  disruptions' \in 0..MaxDisruptions
BY WorkerAssumption DEF TypeOK, Disrupt, Calm

\* A goroutine that goes on has a well-typed slot.
LEMMA GoesOnType ==
  ASSUME NEW w \in SlotState, w.pc # "idle",
         NEW to \in PC \ {"idle"}, NEW err \in ErrorKinds
  PROVE  GoesOn(w, to, err) \in SlotState
BY DEF GoesOn, SlotState, Idle

LEMMA TypeInit == Init => TypeOK
BY WorkerAssumption DEF Init, TypeOK, Absent, Row, JobStatus, NULL, Loop, SlotState,
   BatchEntry

LEMMA TypeRun ==
  ASSUME TypeOK, NEW i \in Instances, RunStep(i)
  PROVE  TypeOK'
<1>1. CASE DequeueSelect(i)
  <2>1. PICK S \in SUBSET Jobs : batch' = [batch EXCEPT ![i] = {Snapshot(j) : j \in S}]
    BY <1>1 DEF DequeueSelect
  <2>2. batch' \in [Instances -> SUBSET BatchEntry]
    BY <2>1, SnapshotType DEF TypeOK
  <2> QED
    BY <1>1, <2>2, WorkerAssumption DEF DequeueSelect, TypeOK, Loop
<1>2. CASE DequeueCommit(i)
  <2>1. batchAge[i] \in Int
    BY WorkerAssumption DEF TypeOK
  <2> QED
    BY <1>2, <2>1, ClaimedType DEF DequeueCommit, TypeOK, Loop
<1>3. CASE DequeueError(i)
  <2>1. batchAge[i] \in Int
    BY WorkerAssumption DEF TypeOK
  <2>2. jobs' \in [Jobs -> Row]
    BY <1>3, <2>1, ClaimedType DEF DequeueError, TypeOK
  <2>3. disruptions' \in 0..MaxDisruptions
    BY <1>3, DisruptType DEF DequeueError
  <2> QED
    BY <1>3, <2>2, <2>3, WorkerAssumption DEF DequeueError, TypeOK, Loop
<1>4. CASE Return(i)
  BY <1>4 DEF Return, TypeOK, Loop
<1>5. ASSUME NEW s \in Slots, Dispatch(i, s)
      PROVE  TypeOK'
  <2>1. PICK m \in batch[i] :
          /\ slot' = [slot EXCEPT ![i][s] =
                        [pc |-> "exec", job |-> m.job, attempts |-> m.attempts,
                         age |-> batchAge[i], err |-> "none"]]
          /\ batch' = [batch EXCEPT ![i] = @ \ {m}]
          /\ loop' = [loop EXCEPT ![i] = IF batch[i] = {m} THEN "select" ELSE @]
          /\ batchAge' = [batchAge EXCEPT ![i] = IF batch[i] = {m} THEN 0 ELSE @]
    BY <1>5 DEF Dispatch
  <2>2. m \in BatchEntry
    BY DEF TypeOK
  <2>3. [pc |-> "exec", job |-> m.job, attempts |-> m.attempts,
         age |-> batchAge[i], err |-> "none"] \in SlotState
    BY <2>2 DEF TypeOK, SlotState, BatchEntry, PC, ErrorKinds
  <2>4. slot' \in [Instances -> [Slots -> SlotState]]
    BY <2>1, <2>3, SlotUpdate DEF TypeOK
  <2> QED
    BY <1>5, <2>1, <2>4, WorkerAssumption DEF Dispatch, TypeOK, Loop
<1> QED
  BY <1>1, <1>2, <1>3, <1>4, <1>5 DEF RunStep

LEMMA TypeProcess ==
  ASSUME TypeOK, NEW i \in Instances, NEW s \in Slots, ProcessStep(i, s)
  PROVE  TypeOK'
<1> DEFINE w == slot[i][s]
<1>0. /\ w \in SlotState /\ w.pc # "idle"
      /\ w.job \in Jobs /\ w.err \in ErrorKinds
  <2>1. w \in SlotState
    BY DEF TypeOK
  <2>2. w.pc # "idle"
    BY DEF ProcessStep, Execute, Report, Mark, Record
  <2> QED
    BY <2>1, <2>2 DEF SlotState, Idle
<1>1. CASE Execute(i, s)
  <2>1. PICK o \in Outcomes(Target[w.job], ctxDone[i]) :
          /\ jira' = [jira EXCEPT ![w.job] = @ \cup ({o.decided} \cap Settling)]
          /\ slot' = [slot EXCEPT ![i][s] =
                        GoesOn(w, IF o.err = "none" THEN "mark" ELSE "report", o.err)]
    BY <1>1 DEF Execute
  <2>2. GoesOn(w, IF o.err = "none" THEN "mark" ELSE "report", o.err) \in SlotState
    BY <1>0, GoesOnType, OutcomeFacts DEF PC
  <2>3. slot' \in [Instances -> [Slots -> SlotState]]
    BY <2>1, <2>2, SlotUpdate DEF TypeOK
  <2>4. jira' \in [Jobs -> SUBSET Settling]
    BY <2>1 DEF TypeOK
  <2> QED
    BY <1>1, <2>3, <2>4 DEF Execute, TypeOK
<1>2. CASE Report(i, s)
  <2>1. slot' \in [Instances -> [Slots -> SlotState]]
    BY <1>0, <1>2, GoesOnType, SlotUpdate DEF Report, TypeOK, PC
  <2>2. /\ audit' \in [Entries -> Nat]
        /\ disruptions' \in 0..MaxDisruptions
    <3>1. <<w.job, "transition_failed">> \in Entries
      BY <1>0, EntryType DEF AuditAction
    <3> QED
      BY <1>2, <3>1, AuditedCounts DEF Report
  <2> QED
    BY <1>2, <2>1, <2>2 DEF Report, TypeOK
<1>3. CASE Mark(i, s)
  <2>1. jobs' \in [Jobs -> Row]
    BY <1>0, <1>3, MarkedType DEF Mark, TypeOK
  <2>2. slot' \in [Instances -> [Slots -> SlotState]]
    BY <1>0, <1>3, GoesOnType, IdleType, SlotUpdate DEF Mark, TypeOK, PC
  <2>3. disruptions' \in 0..MaxDisruptions
    BY <1>3, DisruptType DEF Mark
  <2> QED
    BY <1>3, <2>1, <2>2, <2>3 DEF Mark, TypeOK
<1>4. CASE Record(i, s)
  <2>1. slot' \in [Instances -> [Slots -> SlotState]]
    BY <1>4, IdleType, SlotUpdate DEF Record, TypeOK
  <2>2. /\ audit' \in [Entries -> Nat]
        /\ disruptions' \in 0..MaxDisruptions
    <3> DEFINE entry == <<w.job, IF Verdict(w) = "completed" THEN "transition_success"
                                                             ELSE "job_dead">>
    <3>1. entry \in Entries
      BY <1>0, EntryType DEF AuditAction
    <3>2. Audited(entry)
      BY <1>4 DEF Record
    <3> HIDE DEF entry
    <3> QED
      BY <3>1, <3>2, AuditedCounts
  <2> QED
    BY <1>4, <2>1, <2>2 DEF Record, TypeOK
<1> QED
  BY <1>1, <1>2, <1>3, <1>4 DEF ProcessStep

LEMMA TypeStop ==
  ASSUME TypeOK, NEW i \in Instances, Stop(i), Disrupt \/ Calm
  PROVE  TypeOK'
<1>1. slot' \in [Instances -> [Slots -> SlotState]]
  BY IdleType DEF Stop, TypeOK
<1> QED
  BY <1>1, DisruptType, WorkerAssumption DEF Stop, TypeOK, Loop

LEMMA TypeTick ==
  ASSUME TypeOK, Tick
  PROVE  TypeOK'
<1>1. jobs' \in [Jobs -> Row]
  BY AgedType DEF Tick, TypeOK
<1>2. batchAge' \in [Instances -> 0..MaxHold]
  BY WorkerAssumption DEF Tick, TypeOK
<1>3. ASSUME NEW i \in Instances, NEW s \in Slots, Working(i, s)
      PROVE  Older(slot[i][s]) \in SlotState
  <2>1. slot[i][s] \in SlotState /\ slot[i][s].age < MaxHold /\ slot[i][s].pc # "idle"
    BY <1>3 DEF Tick, TypeOK, Working
  <2> QED
    BY <2>1, WorkerAssumption DEF SlotState, Idle, Older
<1>4. slot' \in [Instances -> [Slots -> SlotState]]
  BY <1>3 DEF Tick, TypeOK
<1> QED
  BY <1>1, <1>2, <1>4 DEF Tick, TypeOK

LEMMA TypeNext == TypeOK /\ [Next]_vars => TypeOK'
<1> SUFFICES ASSUME TypeOK, [Next]_vars
             PROVE  TypeOK'
  OBVIOUS
<1>1. ASSUME NEW i \in Instances, NEW j \in Jobs, Enqueue(i, j)
      PROVE  TypeOK'
  BY <1>1, InsertedType, WorkerAssumption DEF Enqueue, TypeOK
<1>2. ASSUME NEW i \in Instances, Reconcile(i)
      PROVE  TypeOK'
  <2>1. <<NoJob, "reconcile_stuck_reset">> \in Entries
    BY EntryType DEF AuditAction
  <2>2. /\ audit' \in [Entries -> Nat]
        /\ disruptions' \in 0..MaxDisruptions
    BY <1>2, <2>1, AuditedCounts DEF Reconcile
  <2>3. jobs' \in [Jobs -> Row]
    BY <1>2, ResetType DEF Reconcile, TypeOK
  <2> QED
    BY <1>2, <2>2, <2>3 DEF Reconcile, TypeOK
<1>3. ASSUME NEW i \in Instances, Signal(i)
      PROVE  TypeOK'
  BY <1>3, DisruptType DEF Signal, TypeOK
<1>4. ASSUME NEW i \in Instances, Crash(i) \/ Exit(i)
      PROVE  TypeOK'
  BY <1>4, TypeStop DEF Crash, Exit
<1>5. ASSUME NEW i \in Instances, Start(i)
      PROVE  TypeOK'
  BY <1>5 DEF Start, TypeOK, Loop
<1>6. CASE Tick
  BY <1>6, TypeTick
<1>7. CASE UNCHANGED vars
  BY <1>7 DEF vars, TypeOK
<1> QED
  BY <1>1, <1>2, <1>3, <1>4, <1>5, <1>6, <1>7, TypeRun, TypeProcess DEF Next

\* Every variable of Worker keeps its type; the age of a claim stays within
\* MaxHold and the disruptions within their bound.
THEOREM TypeCorrect == Spec => []TypeOK
<1>1. Init => TypeOK
  BY TypeInit
<1>2. TypeOK /\ [Next]_vars => TypeOK'
  BY TypeNext
<1> QED
  BY <1>1, <1>2, PTL DEF Spec

-----------------------------------------------------------------------------
(* Ends are earned.  The proof does not assume that the stuck timeout covers the
   longest claim: it follows what a goroutine knows of Jira, and that the attempts
   of a row only grow, whoever owns the row. *)

\* What a slot holds while its goroutine works on a job.
LEMMA WorkingSlot ==
  ASSUME TypeOK, NEW i \in Instances, NEW s \in Slots, Working(i, s)
  PROVE  /\ slot[i][s] \in SlotState /\ slot[i][s].job \in Jobs
         /\ slot[i][s].attempts \in Nat /\ slot[i][s].err \in ErrorKinds
         /\ slot[i][s].age \in 0..MaxHold /\ slot[i][s].pc \in {"exec", "report", "mark"}
<1>1. slot[i][s] \in SlotState
  BY DEF TypeOK
<1> QED
  BY <1>1 DEF Working, SlotState, Idle

\* The attempts of a row do not shrink, and no row becomes terminal or absent.
RowsKept ==
  \A j \in Jobs :
    /\ jobs[j].attempts <= jobs'[j].attempts
    /\ jobs'[j].status \in {"absent", "completed", "dead"} =>
         jobs'[j].status = jobs[j].status /\ jobs'[j].attempts = jobs[j].attempts

\* A goroutine before its Mark was at the same point with the same job before.
SlotsKept ==
  \A i \in Instances, s \in Slots :
    Working(i, s)' =>
      /\ slot'[i][s].pc = slot[i][s].pc
      /\ slot'[i][s].job = slot[i][s].job
      /\ slot'[i][s].attempts = slot[i][s].attempts
      /\ slot'[i][s].err = slot[i][s].err

\* A step that asks Jira nothing, ends no job and gives no goroutine a new job or
\* a new error keeps the invariant.
LEMMA EndsKept ==
  ASSUME TypeOK, TypeOK', EndsInv, UNCHANGED jira, RowsKept, SlotsKept,
         \A i \in Instances : batch'[i] \subseteq batch[i]
  PROVE  EndsInv'
<1>1. \A j \in Jobs : jobs[j].attempts \in Nat /\ jobs'[j].attempts \in Nat
  BY DEF TypeOK, Row
<1>2. KnowsJira'
  <2> SUFFICES ASSUME NEW i \in Instances, NEW s \in Slots, Working(i, s)'
               PROVE  Knows(slot[i][s])'
    BY DEF KnowsJira
  <2>1. Working(i, s)
    BY DEF Working, SlotsKept
  <2>2. slot[i][s].job \in Jobs /\ slot[i][s].attempts \in Nat
    BY <2>1, WorkingSlot
  <2> QED
    BY <1>1, <2>1, <2>2 DEF EndsInv, KnowsJira, Knows, SlotsKept, RowsKept
<1>3. BatchAttempts'
  <2> SUFFICES ASSUME NEW i \in Instances, NEW m \in batch'[i]
               PROVE  m.attempts <= jobs'[m.job].attempts
    BY DEF BatchAttempts
  <2>1. m \in batch[i] /\ m.job \in Jobs /\ m.attempts \in Nat
    BY DEF TypeOK, BatchEntry
  <2> QED
    BY <1>1, <2>1 DEF EndsInv, BatchAttempts, RowsKept
<1>4. AbsentRows'
  BY DEF EndsInv, AbsentRows, RowsKept
<1>5. CompletedWasApplied'
  BY DEF EndsInv, CompletedWasApplied, RowsKept
<1>6. DeadIsEarned'
  BY DEF EndsInv, DeadIsEarned, RowsKept
<1> QED
  BY <1>2, <1>3, <1>4, <1>5, <1>6 DEF EndsInv

\* A row that ends as its goroutine knows it may keeps the invariant.
LEMMA EndsMarked ==
  ASSUME TypeOK, TypeOK', EndsInv, UNCHANGED <<batch, jira>>, SlotsKept,
         NEW j \in Jobs, jobs'[j].attempts >= jobs[j].attempts,
         \A k \in Jobs : k # j => jobs'[k] = jobs[k],
         \/ /\ jobs'[j].status = "completed"
            /\ Skipped(Target[j]) \/ 204 \in jira[j]
         \/ /\ jobs'[j].status = "dead"
            /\ jobs'[j].attempts >= MaxAttempts \/ jira[j] \cap NonRetryable # {}
  PROVE  EndsInv'
<1>1. \A k \in Jobs :
        /\ jobs[k].attempts \in Nat /\ jobs'[k].attempts \in Nat
        /\ jobs[k].attempts <= jobs'[k].attempts
  <2> SUFFICES ASSUME NEW k \in Jobs
               PROVE  /\ jobs[k].attempts \in Nat /\ jobs'[k].attempts \in Nat
                      /\ jobs[k].attempts <= jobs'[k].attempts
    OBVIOUS
  <2>1. jobs[k].attempts \in Nat /\ jobs'[k].attempts \in Nat
    BY DEF TypeOK, Row
  <2> QED
    BY <2>1
<1>2. KnowsJira'
  <2> SUFFICES ASSUME NEW i \in Instances, NEW s \in Slots, Working(i, s)'
               PROVE  Knows(slot[i][s])'
    BY DEF KnowsJira
  <2>1. Working(i, s)
    BY DEF Working, SlotsKept
  <2>2. slot[i][s].job \in Jobs /\ slot[i][s].attempts \in Nat
    BY <2>1, WorkingSlot
  <2> QED
    BY <1>1, <2>1, <2>2 DEF EndsInv, KnowsJira, Knows, SlotsKept
<1>3. BatchAttempts'
  <2> SUFFICES ASSUME NEW i \in Instances, NEW m \in batch[i]
               PROVE  m.attempts <= jobs'[m.job].attempts
    BY DEF BatchAttempts
  <2>1. m.job \in Jobs /\ m.attempts \in Nat
    BY DEF TypeOK, BatchEntry
  <2> QED
    BY <1>1, <2>1 DEF EndsInv, BatchAttempts
<1>4. AbsentRows'
  BY DEF EndsInv, AbsentRows
<1>5. CompletedWasApplied'
  BY DEF EndsInv, CompletedWasApplied
<1>6. DeadIsEarned'
  BY DEF EndsInv, DeadIsEarned
<1> QED
  BY <1>2, <1>3, <1>4, <1>5, <1>6 DEF EndsInv

\* The statements other than the Marks keep the rows.
LEMMA InsertedKeeps ==
  ASSUME TypeOK, EndsInv, NEW j \in Jobs, NEW at,
         jobs[j].status = "absent", jobs' = Inserted(j, at)
  PROVE  RowsKept
<1>1. \A k \in Jobs : jobs[k].attempts \in Nat
  BY DEF TypeOK, Row
<1> QED
  BY <1>1 DEF EndsInv, AbsentRows, RowsKept, Inserted, TypeOK

LEMMA ClaimedKeeps ==
  ASSUME TypeOK, NEW S, NEW age, jobs' = Claimed(S, age)
  PROVE  RowsKept
<1>1. \A k \in Jobs : jobs[k].attempts \in Nat
  BY DEF TypeOK, Row
<1> QED
  BY <1>1 DEF RowsKept, Claimed, TypeOK

LEMMA ResetKeeps ==
  ASSUME TypeOK, NEW S, jobs' = Reset(S)
  PROVE  RowsKept
<1>1. \A k \in Jobs : jobs[k].attempts \in Nat
  BY DEF TypeOK, Row
<1> QED
  BY <1>1 DEF RowsKept, Reset, TypeOK

LEMMA AgedKeeps ==
  ASSUME TypeOK, jobs' = Aged
  PROVE  RowsKept
<1>1. \A k \in Jobs : jobs[k].attempts \in Nat
  BY DEF TypeOK, Row
<1> QED
  BY <1>1 DEF RowsKept, Aged, TypeOK

LEMMA UnchangedKeeps ==
  ASSUME TypeOK, UNCHANGED jobs
  PROVE  RowsKept
<1>1. \A k \in Jobs : jobs[k].attempts \in Nat
  BY DEF TypeOK, Row
<1> QED
  BY <1>1 DEF RowsKept

LEMMA EndsInit == Init => EndsInv
BY DEF Init, EndsInv, KnowsJira, BatchAttempts, AbsentRows, CompletedWasApplied,
   DeadIsEarned, Absent, Working, Idle

\* The processor's loop: only Dispatch gives a goroutine a job, and it copies the
\* attempts of the batch.
LEMMA EndsRun ==
  ASSUME TypeOK, TypeOK', EndsInv, NEW i \in Instances, RunStep(i)
  PROVE  EndsInv'
<1>1. CASE DequeueSelect(i)
  <2>1. PICK S \in SUBSET Jobs : batch' = [batch EXCEPT ![i] = {Snapshot(j) : j \in S}]
    BY <1>1 DEF DequeueSelect
  <2>2. \A j \in Jobs : jobs[j].attempts \in Nat
    BY DEF TypeOK, Row
  <2>3. BatchAttempts'
    <3> SUFFICES ASSUME NEW k \in Instances, NEW m \in batch'[k]
                 PROVE  m.attempts <= jobs'[m.job].attempts
      BY DEF BatchAttempts
    <3>1. CASE k = i
      <4>1. PICK j \in S : m = Snapshot(j)
        BY <2>1, <3>1 DEF TypeOK
      <4> QED
        BY <1>1, <2>2, <4>1 DEF Snapshot, DequeueSelect
    <3>2. CASE k # i
      BY <1>1, <2>1, <3>2 DEF TypeOK, EndsInv, BatchAttempts, DequeueSelect
    <3> QED
      BY <3>1, <3>2
  <2> QED
    BY <1>1, <2>3 DEF DequeueSelect, EndsInv, KnowsJira, Knows, AbsentRows,
       CompletedWasApplied, DeadIsEarned, Working
<1>2. CASE DequeueCommit(i)
  BY <1>2, ClaimedKeeps, EndsKept DEF DequeueCommit, SlotsKept
<1>3. CASE DequeueError(i)
  <2>1. RowsKept
    BY <1>3, ClaimedKeeps, UnchangedKeeps DEF DequeueError
  <2>2. \A k \in Instances : batch'[k] \subseteq batch[k]
    BY <1>3 DEF DequeueError, TypeOK
  <2> QED
    BY <1>3, <2>1, <2>2, EndsKept DEF DequeueError, SlotsKept
<1>4. CASE Return(i)
  BY <1>4, UnchangedKeeps, EndsKept DEF Return, SlotsKept
<1>5. ASSUME NEW s \in Slots, Dispatch(i, s)
      PROVE  EndsInv'
  <2>1. PICK m \in batch[i] :
          /\ slot' = [slot EXCEPT ![i][s] =
                        [pc |-> "exec", job |-> m.job, attempts |-> m.attempts,
                         age |-> batchAge[i], err |-> "none"]]
          /\ batch' = [batch EXCEPT ![i] = @ \ {m}]
    BY <1>5 DEF Dispatch
  <2>2. UNCHANGED <<jobs, jira>>
    BY <1>5 DEF Dispatch
  <2>3. KnowsJira'
    <3> SUFFICES ASSUME NEW k \in Instances, NEW t \in Slots, Working(k, t)'
                 PROVE  Knows(slot[k][t])'
      BY DEF KnowsJira
    <3>1. CASE k = i /\ t = s
      BY <2>1, <2>2, <3>1 DEF TypeOK, EndsInv, BatchAttempts, Knows
    <3>2. CASE ~(k = i /\ t = s)
      <4>1. slot'[k][t] = slot[k][t]
        BY <2>1, <3>2 DEF TypeOK
      <4> QED
        BY <2>2, <4>1 DEF EndsInv, KnowsJira, Knows, Working
    <3> QED
      BY <3>1, <3>2
  <2>4. BatchAttempts'
    BY <2>1, <2>2 DEF TypeOK, EndsInv, BatchAttempts
  <2> QED
    BY <2>2, <2>3, <2>4 DEF EndsInv, AbsentRows, CompletedWasApplied, DeadIsEarned
<1> QED
  BY <1>1, <1>2, <1>3, <1>4, <1>5 DEF RunStep

\* A goroutine learns from Jira what its error says, and writes the row by it.
LEMMA EndsProcess ==
  ASSUME TypeOK, TypeOK', EndsInv, NEW i \in Instances, NEW s \in Slots,
         ProcessStep(i, s)
  PROVE  EndsInv'
<1> DEFINE w == slot[i][s]
<1>0. /\ w.pc # "idle" /\ w.job \in Jobs
      /\ w.attempts \in Nat /\ w.err \in ErrorKinds
      /\ \A j \in Jobs : jobs[j] \in Row /\ jobs[j].attempts \in Nat
  <2>1. w \in SlotState
    BY DEF TypeOK
  <2>2. w.pc # "idle"
    BY DEF ProcessStep, Execute, Report, Mark, Record
  <2>3. \A j \in Jobs : jobs[j] \in Row /\ jobs[j].attempts \in Nat
    BY DEF TypeOK, Row
  <2> QED
    BY <2>1, <2>2, <2>3 DEF SlotState, Idle
<1>1. CASE Execute(i, s)
  <2>1. PICK o \in Outcomes(Target[w.job], ctxDone[i]) :
          /\ jira' = [jira EXCEPT ![w.job] = @ \cup ({o.decided} \cap Settling)]
          /\ slot' = [slot EXCEPT ![i][s] =
                        GoesOn(w, IF o.err = "none" THEN "mark" ELSE "report", o.err)]
    BY <1>1 DEF Execute
  <2>2. \A j \in Jobs : jira[j] \subseteq jira'[j]
    BY <2>1 DEF TypeOK
  <2>3. w.attempts <= jobs[w.job].attempts
    BY <1>1, <1>0 DEF Execute, EndsInv, KnowsJira, Knows, Working
  <2>4. /\ o.err = "none" => Skipped(Target[w.job]) \/ 204 \in jira'[w.job]
        /\ o.err = "permanent" => jira'[w.job] \cap NonRetryable # {}
    BY <1>0, <2>1, OutcomeFacts DEF TypeOK, Settling
  <2>5. KnowsJira'
    <3> SUFFICES ASSUME NEW k \in Instances, NEW t \in Slots, Working(k, t)'
                 PROVE  Knows(slot[k][t])'
      BY DEF KnowsJira
    <3>1. CASE k = i /\ t = s
      <4>1. slot'[k][t] =
              GoesOn(w, IF o.err = "none" THEN "mark" ELSE "report", o.err)
        BY <2>1, <3>1 DEF TypeOK
      <4>2. /\ slot'[k][t].job = w.job /\ slot'[k][t].attempts = w.attempts
            /\ slot'[k][t].err = o.err
            /\ slot'[k][t].pc = "report" => o.err # "none"
        BY <4>1 DEF GoesOn
      <4> QED
        BY <1>1, <2>3, <2>4, <4>2 DEF Execute, Knows
    <3>2. CASE ~(k = i /\ t = s)
      <4>1. slot'[k][t] = slot[k][t] /\ Working(k, t)
        BY <2>1, <3>2 DEF TypeOK, Working
      <4>2. slot[k][t].job \in Jobs
        BY <4>1, WorkingSlot
      <4> QED
        BY <1>1, <2>2, <4>1, <4>2 DEF EndsInv, KnowsJira, Knows, Execute
    <3> QED
      BY <3>1, <3>2
  <2>6. BatchAttempts' /\ AbsentRows'
    BY <1>1 DEF Execute, EndsInv, BatchAttempts, AbsentRows
  <2>7. CompletedWasApplied' /\ DeadIsEarned'
    BY <1>1, <2>2 DEF Execute, EndsInv, CompletedWasApplied, DeadIsEarned
  <2> QED
    BY <2>5, <2>6, <2>7 DEF EndsInv
<1>2. CASE Report(i, s)
  <2>1. slot' = [slot EXCEPT ![i][s] = GoesOn(w, "mark", w.err)]
        /\ UNCHANGED <<jobs, batch, jira>> /\ w.pc = "report"
    BY <1>2 DEF Report
  <2>2. KnowsJira'
    <3> SUFFICES ASSUME NEW k \in Instances, NEW t \in Slots, Working(k, t)'
                 PROVE  Knows(slot[k][t])'
      BY DEF KnowsJira
    <3>1. CASE k = i /\ t = s
      <4>1. /\ slot'[k][t].job = w.job /\ slot'[k][t].attempts = w.attempts
            /\ slot'[k][t].err = w.err
        BY <2>1, <3>1 DEF TypeOK, GoesOn
      <4>2. Working(i, s)
        BY <2>1 DEF Working
      <4> QED
        BY <2>1, <4>1, <4>2 DEF EndsInv, KnowsJira, Knows
    <3>2. CASE ~(k = i /\ t = s)
      <4>1. slot'[k][t] = slot[k][t] /\ Working(k, t)
        BY <2>1, <3>2 DEF TypeOK, Working
      <4> QED
        BY <2>1, <4>1 DEF EndsInv, KnowsJira, Knows
    <3> QED
      BY <3>1, <3>2
  <2> QED
    BY <2>1, <2>2 DEF EndsInv, BatchAttempts, AbsentRows, CompletedWasApplied, DeadIsEarned

<1>3. CASE Mark(i, s)
  <2>1. /\ w.pc = "mark" /\ UNCHANGED <<batch, jira>>
        /\ jobs' = Marked(i, w) \/ UNCHANGED jobs
        /\ slot' = [slot EXCEPT ![i][s] =
                     IF Verdict(w) = "failed" THEN Idle ELSE GoesOn(w, "record", w.err)]
    BY <1>3 DEF Mark
  <2>2. Knows(w)
    BY <2>1 DEF EndsInv, KnowsJira, Working
  <2>3. SlotsKept
    <3> SUFFICES ASSUME NEW k \in Instances, NEW t \in Slots, Working(k, t)'
                 PROVE  slot'[k][t] = slot[k][t]
      BY DEF SlotsKept
    <3>1. CASE k = i /\ t = s
      BY <2>1, <3>1 DEF TypeOK, Working, GoesOn, Idle
    <3>2. CASE ~(k = i /\ t = s)
      BY <2>1, <3>2 DEF TypeOK
    <3> QED
      BY <3>1, <3>2
  <2>4. CASE UNCHANGED jobs
    BY <2>1, <2>3, <2>4, UnchangedKeeps, EndsKept
  <2>5. CASE jobs' = MarkFailed(w.job, Backoff[w.attempts] + Skew[i])
    <3>1. RowsKept
      BY <1>0, <2>5 DEF MarkFailed, RowsKept, TypeOK
    <3> QED
      BY <2>1, <2>3, <3>1, EndsKept
  <2>6. CASE jobs' = MarkCompleted(w.job) /\ Verdict(w) = "completed"
    <3>1. /\ jobs'[w.job].status = "completed" /\ jobs'[w.job].attempts = jobs[w.job].attempts
          /\ \A j \in Jobs : j # w.job => jobs'[j] = jobs[j]
      BY <1>0, <2>6 DEF MarkCompleted, TypeOK
    <3>2. Skipped(Target[w.job]) \/ 204 \in jira[w.job]
      BY <2>1, <2>2, <2>6 DEF Knows, Verdict
    <3> QED
      BY <1>0, <2>1, <2>3, <3>1, <3>2, EndsMarked
  <2>7. CASE jobs' = MarkDead(w.job) /\ Verdict(w) = "dead"
    <3>1. /\ jobs'[w.job].status = "dead" /\ jobs'[w.job].attempts = jobs[w.job].attempts + 1
          /\ \A j \in Jobs : j # w.job => jobs'[j] = jobs[j]
      BY <1>0, <2>7 DEF MarkDead, TypeOK
    <3>2. jobs'[w.job].attempts >= MaxAttempts \/ jira[w.job] \cap NonRetryable # {}
      <4>1. w.err = "permanent" \/ w.attempts + 1 >= MaxAttempts
        BY <2>7 DEF Verdict
      <4>2. w.err = "permanent" => jira[w.job] \cap NonRetryable # {}
        BY <2>2 DEF Knows
      <4>3. /\ w.attempts \in Nat /\ jobs[w.job].attempts \in Nat /\ MaxAttempts \in Nat
            /\ w.attempts <= jobs[w.job].attempts
        BY <1>0, <2>1, <2>2, WorkingSlot, WorkerAssumption DEF Knows, Working, TypeOK, Row
      <4> QED
        BY <3>1, <4>1, <4>2, <4>3
    <3> QED
      BY <1>0, <2>1, <2>3, <3>1, <3>2, EndsMarked
  <2> QED
    BY <2>1, <2>4, <2>5, <2>6, <2>7 DEF Marked
<1>4. CASE Record(i, s)
  <2>1. SlotsKept
    <3> SUFFICES ASSUME NEW k \in Instances, NEW t \in Slots, Working(k, t)'
                 PROVE  slot'[k][t] = slot[k][t]
      BY DEF SlotsKept
    <3> QED
      BY <1>4 DEF Record, TypeOK, Working, Idle
  <2> QED
    BY <1>4, <2>1, UnchangedKeeps, EndsKept DEF Record
<1> QED
  BY <1>1, <1>2, <1>3, <1>4 DEF ProcessStep

LEMMA EndsNext == TypeOK /\ TypeOK' /\ EndsInv /\ [Next]_vars => EndsInv'
<1> SUFFICES ASSUME TypeOK, TypeOK', EndsInv, [Next]_vars
             PROVE  EndsInv'
  OBVIOUS
<1>1. ASSUME NEW i \in Instances, NEW j \in Jobs, Enqueue(i, j)
      PROVE  EndsInv'
  BY <1>1, InsertedKeeps, EndsKept DEF Enqueue, SlotsKept
<1>2. ASSUME NEW i \in Instances, Reconcile(i)
      PROVE  EndsInv'
  BY <1>2, ResetKeeps, EndsKept DEF Reconcile, SlotsKept
<1>3. ASSUME NEW i \in Instances, Signal(i) \/ Start(i)
      PROVE  EndsInv'
  BY <1>3, UnchangedKeeps, EndsKept DEF Signal, Start, SlotsKept
<1>4. ASSUME NEW i \in Instances, Stop(i)
      PROVE  EndsInv'
  <2>1. SlotsKept
    BY <1>4 DEF Stop, SlotsKept, TypeOK, Working, Idle
  <2>2. \A k \in Instances : batch'[k] \subseteq batch[k]
    BY <1>4 DEF Stop, TypeOK
  <2> QED
    BY <1>4, <2>1, <2>2, UnchangedKeeps, EndsKept DEF Stop
<1>5. CASE Tick
  <2>1. SlotsKept
    BY <1>5 DEF Tick, SlotsKept, TypeOK, Working, Older
  <2> QED
    BY <1>5, <2>1, AgedKeeps, EndsKept DEF Tick
<1>6. CASE UNCHANGED vars
  BY <1>6, UnchangedKeeps, EndsKept DEF vars, SlotsKept
<1> QED
  BY <1>1, <1>2, <1>3, <1>4, <1>5, <1>6, EndsRun, EndsProcess DEF Next, Crash, Exit

\* EndsInv is inductive, with the types.
LEMMA EndsHold == Spec => [](CompletedWasApplied /\ DeadIsEarned)
<1>1. Init => EndsInv
  BY EndsInit
<1>2. TypeOK /\ TypeOK' /\ EndsInv /\ [Next]_vars => EndsInv'
  BY EndsNext
<1>3. EndsInv => CompletedWasApplied /\ DeadIsEarned
  BY DEF EndsInv
<1> QED
  BY <1>1, <1>2, <1>3, TypeCorrect, PTL DEF Spec

\* Whatever crashed, was reset or was run twice, completed means that Jira moved the
\* issue or no transition is configured.  No assumption on the stuck timeout is needed.
THEOREM EndsAreEarned == Spec => []CompletedWasApplied
BY EndsHold, PTL

\* In the same way dead means that the attempts are used up or that Jira refused for
\* good, whoever marked the row.
THEOREM DeathsAreEarned == Spec => []DeadIsEarned
BY EndsHold, PTL

-----------------------------------------------------------------------------
(* Claims exclude each other.  ClaimInv follows a row from the lock of Dequeue to
   its Mark: it is in one batch or in one slot, and as it was read. *)

ClaimParts ==
  /\ BatchesAreBrief /\ LockedRowsWait /\ BatchRowsRun /\ SlotRowsRun
  /\ OneBatchEach /\ OneSlotEach /\ BatchOrSlot

SameRow(j) ==
  /\ jobs'[j].status = jobs[j].status
  /\ jobs'[j].attempts = jobs[j].attempts
  /\ jobs'[j].since = jobs[j].since

\* No batch gets a row, and a loop that still has one is where it was.
BatchesKept ==
  \A i \in Instances :
    /\ batch'[i] \subseteq batch[i]
    /\ batch'[i] # {} => loop'[i] = loop[i] /\ batchAge'[i] = batchAge[i]

\* Who still works on a job worked on it before.
ClaimsKept ==
  \A i \in Instances, s \in Slots :
    Working(i, s)' =>
      /\ Working(i, s)
      /\ slot'[i][s].job = slot[i][s].job
      /\ slot'[i][s].attempts = slot[i][s].attempts
      /\ slot'[i][s].age = slot[i][s].age

\* No row in a batch or in the hands of a goroutine changes.
HeldRowsKept ==
  /\ \A i \in Instances : \A m \in batch'[i] : SameRow(m.job)
  /\ \A i \in Instances, s \in Slots : Working(i, s)' => SameRow(slot[i][s].job)

LEMMA ClaimKept ==
  ASSUME TypeOK, TypeOK', ClaimInv, BatchesKept, ClaimsKept, HeldRowsKept
  PROVE  ClaimParts'
<1>1. BatchesAreBrief'
  BY DEF ClaimInv, BatchesAreBrief, BatchesKept, Claiming
<1>2. LockedRowsWait'
  BY DEF ClaimInv, LockedRowsWait, BatchesKept, HeldRowsKept, SameRow
<1>3. BatchRowsRun'
  BY DEF ClaimInv, BatchRowsRun, BatchesKept, HeldRowsKept, SameRow
<1>4. SlotRowsRun'
  BY DEF ClaimInv, SlotRowsRun, ClaimsKept, HeldRowsKept, SameRow
<1>5. OneBatchEach'
  BY DEF ClaimInv, OneBatchEach, BatchesKept
<1>6. OneSlotEach'
  BY DEF ClaimInv, OneSlotEach, ClaimsKept
<1>7. BatchOrSlot'
  BY DEF ClaimInv, BatchOrSlot, BatchesKept, ClaimsKept
<1> QED
  BY <1>1, <1>2, <1>3, <1>4, <1>5, <1>6, <1>7 DEF ClaimParts

LEMMA ClaimInit == Init => ClaimInv
<1> SUFFICES ASSUME Init
             PROVE  ClaimInv
  OBVIOUS
<1>1. /\ \A i \in Instances : batch[i] = {} /\ loop[i] = "select"
      /\ \A i \in Instances, s \in Slots : ~Working(i, s)
      /\ \A j \in Jobs : jobs[j] = Absent
  BY DEF Init, Working, Idle
<1> QED
  BY <1>1, WorkerAssumption DEF ClaimInv, BatchesAreBrief, LockedRowsWait, BatchRowsRun,
     SlotRowsRun, OneBatchEach, OneSlotEach, BatchOrSlot, RunningIsStamped, AttemptLeft,
     Absent

\* A step that leaves the table alone.
LEMMA RowsUntouched ==
  ASSUME ClaimInv, UNCHANGED jobs
  PROVE  RunningIsStamped' /\ AttemptLeft' /\ HeldRowsKept
BY DEF ClaimInv, RunningIsStamped, AttemptLeft, HeldRowsKept, SameRow

LEMMA ClaimSelect ==
  ASSUME TypeOK, ClaimInv, NEW i \in Instances, DequeueSelect(i)
  PROVE  ClaimInv'
<1>1. PICK S \in SUBSET Jobs :
        S \subseteq Due \ Locked /\ batch' = [batch EXCEPT ![i] = {Snapshot(j) : j \in S}]
  BY DEF DequeueSelect, Selectable
<1>2. /\ UNCHANGED <<jobs, slot>> /\ loop[i] = "select"
      /\ loop' = [loop EXCEPT ![i] = "tx"]
      /\ batchAge' = [batchAge EXCEPT ![i] = 0]
  BY DEF DequeueSelect
<1>3. \A m \in batch'[i] :
        /\ m.job \in S /\ m.attempts = jobs[m.job].attempts
        /\ jobs[m.job].status \in Waiting /\ m = Snapshot(m.job)
  BY <1>1 DEF TypeOK, Snapshot, Due
<1>4. \A k \in Instances : k # i =>
        batch'[k] = batch[k] /\ loop'[k] = loop[k] /\ batchAge'[k] = batchAge[k]
  BY <1>1, <1>2 DEF TypeOK
<1>5. loop'[i] = "tx"
  BY <1>2 DEF TypeOK
<1>6. BatchesAreBrief'
  BY <1>4, <1>5 DEF ClaimInv, BatchesAreBrief, Claiming
<1>7. LockedRowsWait'
  BY <1>2, <1>3, <1>4 DEF ClaimInv, LockedRowsWait
<1>8. BatchRowsRun'
  BY <1>2, <1>4, <1>5 DEF ClaimInv, BatchRowsRun
<1>9. SlotRowsRun' /\ OneSlotEach'
  BY <1>2 DEF ClaimInv, SlotRowsRun, OneSlotEach, Working
<1>10. OneBatchEach'
  <2>1. ASSUME NEW k \in Instances, k # i, NEW m \in batch'[i], NEW n \in batch'[k],
               m.job = n.job
        PROVE  FALSE
    <3>1. n \in batch[k] /\ m.job \in S
      BY <1>3, <1>4, <2>1
    <3>2. CASE loop[k] = "tx"
      BY <1>1, <2>1, <3>1, <3>2 DEF Locked, JobsOf
    <3>3. CASE loop[k] = "dispatch"
      BY <1>3, <2>1, <3>1, <3>3 DEF ClaimInv, BatchRowsRun, Waiting
    <3> QED
      BY <3>1, <3>2, <3>3 DEF ClaimInv, BatchesAreBrief, Claiming
  <2> QED
    BY <1>3, <1>4, <2>1 DEF ClaimInv, OneBatchEach
<1>11. BatchOrSlot'
  BY <1>2, <1>4, <1>5 DEF ClaimInv, BatchOrSlot, Working
<1>12. RunningIsStamped' /\ AttemptLeft'
  BY <1>2, RowsUntouched
<1> QED
  BY <1>6, <1>7, <1>8, <1>9, <1>10, <1>11, <1>12 DEF ClaimInv

\* The UPDATE of Dequeue changes exactly the rows its transaction locked.
LEMMA ClaimedRows ==
  ASSUME TypeOK, ClaimInv, NEW i \in Instances, loop[i] = "tx",
         jobs' = Claimed(JobsOf(batch[i]), batchAge[i])
  PROVE  /\ \A m \in batch[i] : /\ jobs'[m.job].status = "running"
                                /\ jobs'[m.job].attempts = m.attempts
                                /\ jobs'[m.job].since = batchAge[i]
         /\ \A k \in Instances : k # i => \A m \in batch[k] : SameRow(m.job)
         /\ \A k \in Instances, s \in Slots : Working(k, s) => SameRow(slot[k][s].job)
         /\ RunningIsStamped' /\ AttemptLeft'
<1>1. \A k \in Instances : \A m \in batch[k] : m.job \in Jobs
  BY DEF TypeOK, BatchEntry
<1>2. \A j \in Jobs : j \notin JobsOf(batch[i]) => SameRow(j)
  BY DEF Claimed, SameRow
<1>3. \A m \in batch[i] :
        /\ jobs'[m.job].status = "running" /\ jobs'[m.job].since = batchAge[i]
        /\ jobs'[m.job].attempts = jobs[m.job].attempts
        /\ jobs[m.job].attempts = m.attempts /\ jobs[m.job].status \in Waiting
  BY <1>1 DEF Claimed, JobsOf, ClaimInv, LockedRowsWait
<1>4. \A k \in Instances : k # i => \A m \in batch[k] : SameRow(m.job)
  BY <1>1, <1>2 DEF JobsOf, ClaimInv, OneBatchEach
<1>5. ASSUME NEW k \in Instances, NEW s \in Slots, Working(k, s)
      PROVE  SameRow(slot[k][s].job)
  <2>1. slot[k][s].job \in Jobs /\ jobs[slot[k][s].job].status = "running"
    BY <1>5, WorkingSlot DEF ClaimInv, SlotRowsRun
  <2> QED
    BY <1>2, <1>3, <2>1 DEF JobsOf, Waiting
<1>6. \A j \in Jobs : \/ SameRow(j)
                      \/ /\ jobs'[j].status = "running" /\ jobs'[j].since # NULL
                         /\ jobs'[j].attempts = jobs[j].attempts
                         /\ jobs[j].status # "dead"
  <2>1. batchAge[i] # NULL
    BY WorkerAssumption DEF TypeOK, NULL
  <2> QED
    BY <1>2, <1>3, <2>1 DEF JobsOf, Waiting
<1>7. RunningIsStamped'
  BY <1>6 DEF ClaimInv, RunningIsStamped, SameRow
<1>8. AttemptLeft'
  BY <1>6 DEF ClaimInv, AttemptLeft, SameRow
<1> QED
  BY <1>3, <1>4, <1>5, <1>7, <1>8

LEMMA ClaimCommit ==
  ASSUME TypeOK, ClaimInv, NEW i \in Instances, DequeueCommit(i)
  PROVE  ClaimInv'
<1>1. /\ loop[i] = "tx" /\ UNCHANGED <<batch, batchAge, slot>>
      /\ jobs' = Claimed(JobsOf(batch[i]), batchAge[i])
      /\ loop'[i] = "dispatch"
      /\ \A k \in Instances : k # i => loop'[k] = loop[k]
  BY DEF DequeueCommit, TypeOK
<1>2. /\ \A m \in batch[i] : /\ jobs'[m.job].status = "running"
                             /\ jobs'[m.job].attempts = m.attempts
                             /\ jobs'[m.job].since = batchAge[i]
      /\ \A k \in Instances : k # i => \A m \in batch[k] : SameRow(m.job)
      /\ \A k \in Instances, s \in Slots : Working(k, s) => SameRow(slot[k][s].job)
      /\ RunningIsStamped' /\ AttemptLeft'
  BY <1>1, ClaimedRows
<1>3. \A k \in Instances, s \in Slots : Working(k, s)' <=> Working(k, s)
  BY <1>1 DEF Working
<1>4. BatchesAreBrief'
  BY <1>1 DEF ClaimInv, BatchesAreBrief, Claiming
<1>5. LockedRowsWait'
  BY <1>1, <1>2 DEF ClaimInv, LockedRowsWait, SameRow
<1>6. BatchRowsRun'
  BY <1>1, <1>2 DEF ClaimInv, BatchRowsRun, SameRow
<1>7. SlotRowsRun'
  BY <1>1, <1>2, <1>3 DEF ClaimInv, SlotRowsRun, SameRow
<1>8. OneBatchEach' /\ OneSlotEach'
  BY <1>1, <1>3 DEF ClaimInv, OneBatchEach, OneSlotEach
<1>9. BatchOrSlot'
  BY <1>1, <1>3 DEF ClaimInv, BatchOrSlot, LockedRowsWait, SlotRowsRun, Waiting
<1> QED
  BY <1>2, <1>4, <1>5, <1>6, <1>7, <1>8, <1>9 DEF ClaimInv

LEMMA ClaimError ==
  ASSUME TypeOK, TypeOK', ClaimInv, NEW i \in Instances, DequeueError(i)
  PROVE  ClaimInv'
<1>1. /\ loop[i] = "tx" /\ UNCHANGED slot
      /\ jobs' = jobs \/ jobs' = Claimed(JobsOf(batch[i]), batchAge[i])
      /\ batch'[i] = {}
      /\ \A k \in Instances : k # i =>
           batch'[k] = batch[k] /\ loop'[k] = loop[k] /\ batchAge'[k] = batchAge[k]
  BY DEF DequeueError, TypeOK
<1>2. BatchesKept /\ ClaimsKept
  BY <1>1 DEF BatchesKept, ClaimsKept, Working
<1>3. HeldRowsKept /\ RunningIsStamped' /\ AttemptLeft'
  <2>1. CASE jobs' = jobs
    BY <2>1, RowsUntouched
  <2>2. CASE jobs' = Claimed(JobsOf(batch[i]), batchAge[i])
    BY <1>1, <2>2, ClaimedRows DEF HeldRowsKept, Working
  <2> QED
    BY <1>1, <2>1, <2>2
<1> QED
  BY <1>2, <1>3, ClaimKept DEF ClaimInv, ClaimParts

\* A row moves from the batch to the slot, and is then in no other place.
LEMMA ClaimDispatch ==
  ASSUME TypeOK, TypeOK', ClaimInv, NEW i \in Instances, NEW s \in Slots, Dispatch(i, s)
  PROVE  ClaimInv'
<1>1. PICK m \in batch[i] :
        /\ slot' = [slot EXCEPT ![i][s] =
                      [pc |-> "exec", job |-> m.job, attempts |-> m.attempts,
                       age |-> batchAge[i], err |-> "none"]]
        /\ batch' = [batch EXCEPT ![i] = @ \ {m}]
        /\ loop' = [loop EXCEPT ![i] = IF batch[i] = {m} THEN "select" ELSE @]
        /\ batchAge' = [batchAge EXCEPT ![i] = IF batch[i] = {m} THEN 0 ELSE @]
  BY DEF Dispatch
<1>2. loop[i] = "dispatch" /\ slot[i][s].pc = "idle" /\ UNCHANGED jobs
  BY DEF Dispatch
<1>3. /\ slot'[i][s].pc = "exec" /\ slot'[i][s].job = m.job
      /\ slot'[i][s].attempts = m.attempts /\ slot'[i][s].age = batchAge[i]
      /\ \A k \in Instances, t \in Slots : ~(k = i /\ t = s) => slot'[k][t] = slot[k][t]
  BY <1>1 DEF TypeOK
<1>4. BatchesKept
  BY <1>1 DEF BatchesKept, TypeOK
<1>5. batch'[i] = batch[i] \ {m} /\ \A k \in Instances : batch'[k] \subseteq batch[k]
  BY <1>1 DEF TypeOK
<1>6. BatchesAreBrief'
  BY <1>1, <1>2, <1>4 DEF ClaimInv, BatchesAreBrief, BatchesKept, Claiming, TypeOK
<1>7. LockedRowsWait' /\ BatchRowsRun' /\ OneBatchEach'
  BY <1>2, <1>4 DEF ClaimInv, LockedRowsWait, BatchRowsRun, OneBatchEach, BatchesKept
<1>8. SlotRowsRun'
  BY <1>2, <1>3 DEF ClaimInv, SlotRowsRun, BatchRowsRun, Working
<1>9. OneSlotEach'
  BY <1>2, <1>3 DEF ClaimInv, OneSlotEach, BatchOrSlot, Working
<1>10. BatchOrSlot'
  <2> SUFFICES ASSUME NEW k \in Instances, NEW l \in Instances, NEW t \in Slots,
                      NEW n \in batch'[k], loop'[k] = "dispatch", Working(l, t)'
               PROVE  n.job # slot'[l][t].job
    BY DEF BatchOrSlot
  <2>1. n \in batch[k] /\ loop[k] = "dispatch"
    BY <1>4 DEF BatchesKept
  <2>2. CASE l = i /\ t = s
    BY <1>3, <1>5, <2>1, <2>2 DEF ClaimInv, OneBatchEach
  <2>3. CASE ~(l = i /\ t = s)
    BY <1>3, <2>1, <2>3 DEF ClaimInv, BatchOrSlot, Working
  <2> QED
    BY <2>2, <2>3
<1>11. RunningIsStamped' /\ AttemptLeft'
  BY <1>2, RowsUntouched
<1> QED
  BY <1>6, <1>7, <1>8, <1>9, <1>10, <1>11 DEF ClaimInv

\* A goroutine that goes on with the same claim, or gives it up.
LEMMA SlotKept ==
  ASSUME TypeOK, NEW i \in Instances, NEW s \in Slots, NEW w,
         slot' = [slot EXCEPT ![i][s] = w],
         w.pc \in {"exec", "report", "mark"} =>
           /\ Working(i, s)
           /\ w.job = slot[i][s].job
           /\ w.attempts = slot[i][s].attempts
           /\ w.age = slot[i][s].age
  PROVE  ClaimsKept
<1> SUFFICES ASSUME NEW k \in Instances, NEW t \in Slots, Working(k, t)'
             PROVE  /\ Working(k, t)
                    /\ slot'[k][t].job = slot[k][t].job
                    /\ slot'[k][t].attempts = slot[k][t].attempts
                    /\ slot'[k][t].age = slot[k][t].age
  BY DEF ClaimsKept
<1>1. CASE k = i /\ t = s
  BY <1>1 DEF TypeOK, Working
<1>2. CASE ~(k = i /\ t = s)
  BY <1>2 DEF TypeOK, Working
<1> QED
  BY <1>1, <1>2

\* Marked writes one row, and only as far as max_attempts allows.
LEMMA MarkedRow ==
  ASSUME TypeOK, ClaimInv, NEW i \in Instances, NEW s \in Slots, Working(i, s),
         jobs' = Marked(i, slot[i][s])
  PROVE  /\ \A j \in Jobs : j # slot[i][s].job => jobs'[j] = jobs[j]
         /\ RunningIsStamped' /\ AttemptLeft'
<1> DEFINE w == slot[i][s]
<1>1. /\ w.job \in Jobs /\ w.attempts \in Nat
      /\ jobs[w.job].status = "running" /\ jobs[w.job].attempts = w.attempts
  BY WorkingSlot DEF ClaimInv, SlotRowsRun, SlotState, Idle, TypeOK, Working
<1>2. w.attempts = 0 \/ w.attempts < MaxAttempts
  BY <1>1 DEF ClaimInv, AttemptLeft
<1>3. CASE jobs' = MarkCompleted(w.job)
  <2>1. /\ \A j \in Jobs : j # w.job => jobs'[j] = jobs[j]
        /\ jobs'[w.job].status = "completed" /\ jobs'[w.job].since = NULL
        /\ jobs'[w.job].attempts = w.attempts
    BY <1>1, <1>3 DEF MarkCompleted, TypeOK
  <2>2. RunningIsStamped'
    BY <1>1, <2>1 DEF ClaimInv, RunningIsStamped
  <2>3. AttemptLeft'
    BY <1>1, <1>2, <2>1, WorkerAssumption DEF ClaimInv, AttemptLeft
  <2> QED
    BY <2>1, <2>2, <2>3
<1>4. CASE jobs' = MarkDead(w.job)
  <2>1. /\ \A j \in Jobs : j # w.job => jobs'[j] = jobs[j]
        /\ jobs'[w.job].status = "dead" /\ jobs'[w.job].since = NULL
        /\ jobs'[w.job].attempts = w.attempts + 1
    BY <1>1, <1>4 DEF MarkDead, TypeOK
  <2>2. RunningIsStamped'
    BY <1>1, <2>1 DEF ClaimInv, RunningIsStamped
  <2>3. w.attempts + 1 <= MaxAttempts \/ w.attempts + 1 <= 1
    BY <1>1, <1>2, WorkerAssumption
  <2>4. AttemptLeft'
    BY <1>1, <2>1, <2>3 DEF ClaimInv, AttemptLeft
  <2> QED
    BY <2>1, <2>2, <2>4
<1>5. CASE jobs' = MarkFailed(w.job, Backoff[w.attempts] + Skew[i]) /\ Verdict(w) = "failed"
  <2>1. /\ \A j \in Jobs : j # w.job => jobs'[j] = jobs[j]
        /\ jobs'[w.job].status = "failed" /\ jobs'[w.job].since = NULL
        /\ jobs'[w.job].attempts = w.attempts + 1
    BY <1>1, <1>5 DEF MarkFailed, TypeOK
  <2>2. w.attempts + 1 < MaxAttempts
    <3>1. ~(w.attempts + 1 >= MaxAttempts)
      BY <1>5 DEF Verdict
    <3>2. MaxAttempts \in Int
      BY WorkerAssumption
    <3> QED
      BY <1>1, <3>1, <3>2
  <2>3. RunningIsStamped'
    BY <1>1, <2>1 DEF ClaimInv, RunningIsStamped
  <2>4. jobs'[w.job].attempts < MaxAttempts /\ jobs'[w.job].attempts <= MaxAttempts
    BY <1>1, <2>1, <2>2, WorkerAssumption
  <2>5. AttemptLeft'
    BY <2>1, <2>4 DEF ClaimInv, AttemptLeft
  <2> QED
    BY <2>1, <2>3, <2>5
<1> QED
  BY <1>3, <1>4, <1>5 DEF Marked, Verdict

LEMMA ClaimProcess ==
  ASSUME TypeOK, TypeOK', ClaimInv, NEW i \in Instances, NEW s \in Slots, ProcessStep(i, s)
  PROVE  ClaimInv'
<1> DEFINE w == slot[i][s]
<1>1. BatchesKept
  BY DEF ProcessStep, Execute, Report, Mark, Record, BatchesKept
<1>2. CASE Execute(i, s)
  <2>1. PICK o \in Outcomes(Target[w.job], ctxDone[i]) :
          slot' = [slot EXCEPT ![i][s] =
                     GoesOn(w, IF o.err = "none" THEN "mark" ELSE "report", o.err)]
    BY <1>2 DEF Execute
  <2>2. Working(i, s) /\ UNCHANGED jobs
    BY <1>2 DEF Execute, Working
  <2>3. ClaimsKept
    BY <2>1, <2>2, SlotKept DEF GoesOn
  <2> QED
    BY <1>1, <2>2, <2>3, RowsUntouched, ClaimKept DEF ClaimInv, ClaimParts
<1>3. CASE Report(i, s)
  <2>1. /\ slot' = [slot EXCEPT ![i][s] = GoesOn(w, "mark", w.err)]
        /\ Working(i, s) /\ UNCHANGED jobs
    BY <1>3 DEF Report, Working
  <2>2. ClaimsKept
    BY <2>1, SlotKept DEF GoesOn
  <2> QED
    BY <1>1, <2>1, <2>2, RowsUntouched, ClaimKept DEF ClaimInv, ClaimParts
<1>4. CASE Mark(i, s)
  <2>1. /\ w.pc = "mark" /\ UNCHANGED <<batch, loop>>
        /\ jobs' = Marked(i, w) \/ UNCHANGED jobs
        /\ slot' = [slot EXCEPT ![i][s] =
                     IF Verdict(w) = "failed" THEN Idle ELSE GoesOn(w, "record", w.err)]
    BY <1>4 DEF Mark
  <2>2. Working(i, s)
    BY <2>1 DEF Working
  <2>3. ClaimsKept /\ ~Working(i, s)'
    <3>1. ClaimsKept
      <4>1. CASE Verdict(w) = "failed"
        BY <2>1, <4>1, SlotKept DEF Idle
      <4>2. CASE Verdict(w) # "failed"
        BY <2>1, <4>2, SlotKept DEF GoesOn
      <4> QED
        BY <4>1, <4>2
    <3>2. ~Working(i, s)'
      BY <2>1 DEF GoesOn, Idle, TypeOK, Working
    <3> QED
      BY <3>1, <3>2
  <2>4. CASE UNCHANGED jobs
    BY <1>1, <2>3, <2>4, RowsUntouched, ClaimKept DEF ClaimInv, ClaimParts
  <2>5. CASE jobs' = Marked(i, w)
    <3>1. /\ \A j \in Jobs : j # w.job => jobs'[j] = jobs[j]
          /\ RunningIsStamped' /\ AttemptLeft'
      BY <2>2, <2>5, MarkedRow
    <3>2. ASSUME NEW k \in Instances, NEW m \in batch'[k]
          PROVE  SameRow(m.job)
      <4>1. m \in batch[k] /\ m.job \in Jobs
        BY <2>1, <3>2 DEF TypeOK, BatchEntry
      <4>2. jobs[w.job].status = "running"
        BY <2>2 DEF ClaimInv, SlotRowsRun
      <4>3. m.job # w.job
        BY <2>2, <4>1, <4>2 DEF ClaimInv, BatchesAreBrief, Claiming, LockedRowsWait,
           BatchOrSlot, Waiting
      <4> QED
        BY <3>1, <4>1, <4>3 DEF SameRow
    <3>3. ASSUME NEW k \in Instances, NEW t \in Slots, Working(k, t)'
          PROVE  SameRow(slot[k][t].job)
      <4>1. Working(k, t) /\ ~(k = i /\ t = s)
        BY <2>3, <3>3 DEF ClaimsKept
      <4>2. slot[k][t].job \in Jobs /\ slot[k][t].job # w.job
        BY <2>2, <4>1, WorkingSlot DEF ClaimInv, OneSlotEach
      <4> QED
        BY <3>1, <4>2 DEF SameRow
    <3>4. HeldRowsKept
      BY <3>2, <3>3 DEF HeldRowsKept
    <3> QED
      BY <1>1, <2>3, <3>1, <3>4, ClaimKept DEF ClaimInv, ClaimParts
  <2> QED
    BY <2>1, <2>4, <2>5
<1>5. CASE Record(i, s)
  <2>1. slot' = [slot EXCEPT ![i][s] = Idle] /\ UNCHANGED jobs
    BY <1>5 DEF Record
  <2>2. ClaimsKept
    BY <2>1, SlotKept DEF Idle
  <2> QED
    BY <1>1, <2>1, <2>2, RowsUntouched, ClaimKept DEF ClaimInv, ClaimParts
<1> QED
  BY <1>2, <1>3, <1>4, <1>5 DEF ProcessStep

\* Nobody works on a row that is not inserted yet.
LEMMA ClaimEnqueue ==
  ASSUME TypeOK, TypeOK', ClaimInv, NEW i \in Instances, NEW j \in Jobs, Enqueue(i, j)
  PROVE  ClaimInv'
<1>1. /\ jobs[j].status = "absent" /\ UNCHANGED <<loop, batch, batchAge, slot>>
      /\ jobs'[j].status = "pending" /\ jobs'[j].attempts = 0 /\ jobs'[j].since = NULL
      /\ \A k \in Jobs : k # j => jobs'[k] = jobs[k]
  BY DEF Enqueue, Inserted, TypeOK
<1>2. BatchesKept /\ ClaimsKept
  BY <1>1 DEF BatchesKept, ClaimsKept, Working
<1>3. ASSUME NEW k \in Instances, NEW m \in batch'[k]
      PROVE  SameRow(m.job)
  <2>1. m \in batch[k] /\ m.job \in Jobs
    BY <1>1, <1>3 DEF TypeOK, BatchEntry
  <2>2. jobs[m.job].status \in {"pending", "failed", "running"}
    BY <2>1 DEF ClaimInv, BatchesAreBrief, Claiming, LockedRowsWait, BatchRowsRun, Waiting
  <2> QED
    BY <1>1, <2>1, <2>2 DEF SameRow
<1>4. ASSUME NEW k \in Instances, NEW t \in Slots, Working(k, t)'
      PROVE  SameRow(slot[k][t].job)
  <2>1. Working(k, t)
    BY <1>2, <1>4 DEF ClaimsKept
  <2>2. slot[k][t].job \in Jobs /\ jobs[slot[k][t].job].status = "running"
    BY <2>1, WorkingSlot DEF ClaimInv, SlotRowsRun
  <2> QED
    BY <1>1, <2>2 DEF SameRow
<1>5. RunningIsStamped'
  BY <1>1 DEF ClaimInv, RunningIsStamped
<1>6. AttemptLeft'
  <2>1. \A k \in Jobs : k # j =>
          jobs'[k].status = jobs[k].status /\ jobs'[k].attempts = jobs[k].attempts
    BY <1>1
  <2>2. /\ jobs'[j].attempts <= 1 /\ jobs'[j].attempts = 0
        /\ jobs'[j].status # "failed"
    BY <1>1
  <2> QED
    BY <2>1, <2>2 DEF ClaimInv, AttemptLeft
<1> QED
  BY <1>2, <1>3, <1>4, <1>5, <1>6, ClaimKept DEF ClaimInv, ClaimParts, HeldRowsKept

\* A held row has been running for as long as its claim lasts, which is less than
\* the reconciler waits: it resets only rows that nobody holds.
LEMMA ClaimReconcile ==
  ASSUME WellProvisioned, TypeOK, TypeOK', ClaimInv, NEW i \in Instances, Reconcile(i)
  PROVE  ClaimInv'
<1> DEFINE S == Stuck(StuckJobTimeout, Skew[i])
<1>1. jobs' = Reset(S) /\ UNCHANGED <<loop, batch, batchAge, slot>> /\ ReconcileEnabled
  BY DEF Reconcile
<1>2. MaxHold + Skew[i] <= StuckJobTimeout
  BY <1>1 DEF WellProvisioned
<1>3. BatchesKept /\ ClaimsKept
  BY <1>1 DEF BatchesKept, ClaimsKept, Working
<1>4. \A j \in Jobs : j \notin S => SameRow(j)
  BY <1>1 DEF Reset, SameRow
<1>5. \A j \in Jobs : jobs[j].status = "running" /\ jobs[j].since \in 0..MaxHold => j \notin S
  BY <1>2, WorkerAssumption DEF Stuck
<1>6. ASSUME NEW k \in Instances, NEW m \in batch'[k]
      PROVE  SameRow(m.job)
  <2>1. m \in batch[k] /\ m.job \in Jobs
    BY <1>1, <1>6 DEF TypeOK, BatchEntry
  <2>2. CASE loop[k] = "tx"
    BY <1>4, <2>1, <2>2 DEF ClaimInv, LockedRowsWait, Stuck, Waiting
  <2>3. CASE loop[k] = "dispatch"
    BY <1>4, <1>5, <2>1, <2>3 DEF ClaimInv, BatchRowsRun, TypeOK
  <2> QED
    BY <2>1, <2>2, <2>3 DEF ClaimInv, BatchesAreBrief, Claiming
<1>7. ASSUME NEW k \in Instances, NEW t \in Slots, Working(k, t)'
      PROVE  SameRow(slot[k][t].job)
  <2>1. Working(k, t)
    BY <1>3, <1>7 DEF ClaimsKept
  <2> QED
    BY <1>4, <1>5, <2>1, WorkingSlot DEF ClaimInv, SlotRowsRun
<1>8. \A j \in Jobs : \/ SameRow(j)
                      \/ /\ jobs[j].status = "running" /\ jobs'[j].status = "pending"
                         /\ jobs'[j].attempts = jobs[j].attempts /\ jobs'[j].since = NULL
  BY <1>1, <1>4 DEF Reset, Stuck
<1>9. RunningIsStamped'
  BY <1>8 DEF ClaimInv, RunningIsStamped, SameRow
<1>10. AttemptLeft'
  BY <1>8 DEF ClaimInv, AttemptLeft, SameRow
<1> QED
  BY <1>3, <1>6, <1>7, <1>9, <1>10, ClaimKept DEF ClaimInv, ClaimParts, HeldRowsKept

\* The rows of a claim and the claim itself grow older together.
LEMMA ClaimTick ==
  ASSUME TypeOK, TypeOK', ClaimInv, Tick
  PROVE  ClaimInv'
<1>1. /\ UNCHANGED <<loop, batch>> /\ jobs' = Aged
      /\ \A i \in Instances : Claiming(i) =>
           batchAge[i] < MaxHold /\ batchAge'[i] = batchAge[i] + 1
  BY DEF Tick
<1>2. ASSUME NEW i \in Instances, NEW s \in Slots
      PROVE  /\ Working(i, s)' <=> Working(i, s)
             /\ Working(i, s) =>
                  /\ slot'[i][s].job = slot[i][s].job
                  /\ slot'[i][s].attempts = slot[i][s].attempts
                  /\ slot'[i][s].age = slot[i][s].age + 1
                  /\ slot[i][s].age < MaxHold
  BY DEF Tick, Working, Older
<1>3. \A j \in Jobs :
        /\ jobs'[j].status = jobs[j].status /\ jobs'[j].attempts = jobs[j].attempts
        /\ jobs'[j].since = Longer(jobs[j])
  BY <1>1 DEF Aged
<1>4. \A j \in Jobs : jobs[j].since \in 0..(MaxHold - 1) =>
        jobs'[j].since = jobs[j].since + 1
  BY <1>3, WorkerAssumption, TableAssumption DEF Longer, NULL
<1>5. BatchesAreBrief'
  BY <1>1 DEF ClaimInv, BatchesAreBrief, Claiming
<1>6. \A i \in Instances : \A m \in batch[i] : m.job \in Jobs
  BY DEF TypeOK, BatchEntry
<1>7. LockedRowsWait'
  BY <1>1, <1>3, <1>6 DEF ClaimInv, LockedRowsWait
<1>8. BatchRowsRun'
  <2> SUFFICES ASSUME NEW i \in Instances, loop[i] = "dispatch", NEW m \in batch[i]
               PROVE  /\ jobs'[m.job].status = "running"
                      /\ jobs'[m.job].attempts = m.attempts
                      /\ jobs'[m.job].since = batchAge'[i]
    BY <1>1 DEF BatchRowsRun
  <2>1. /\ jobs[m.job].status = "running" /\ jobs[m.job].attempts = m.attempts
        /\ jobs[m.job].since = batchAge[i]
    BY DEF ClaimInv, BatchRowsRun
  <2>2. batchAge[i] \in 0..(MaxHold - 1) /\ batchAge'[i] = batchAge[i] + 1
    BY <1>1, WorkerAssumption DEF TypeOK, Claiming
  <2> QED
    BY <1>3, <1>4, <1>6, <2>1, <2>2
<1>9. SlotRowsRun'
  <2> SUFFICES ASSUME NEW i \in Instances, NEW s \in Slots, Working(i, s)'
               PROVE  /\ jobs'[slot'[i][s].job].status = "running"
                      /\ jobs'[slot'[i][s].job].attempts = slot'[i][s].attempts
                      /\ jobs'[slot'[i][s].job].since = slot'[i][s].age
    BY DEF SlotRowsRun
  <2>1. Working(i, s) /\ slot[i][s].job \in Jobs /\ slot[i][s].age \in 0..(MaxHold - 1)
    BY <1>2, WorkingSlot, WorkerAssumption
  <2>2. /\ jobs[slot[i][s].job].status = "running"
        /\ jobs[slot[i][s].job].attempts = slot[i][s].attempts
        /\ jobs[slot[i][s].job].since = slot[i][s].age
    BY <2>1 DEF ClaimInv, SlotRowsRun
  <2> QED
    BY <1>2, <1>3, <1>4, <2>1, <2>2
<1>10. OneBatchEach'
  BY <1>1 DEF ClaimInv, OneBatchEach
<1>11. OneSlotEach'
  BY <1>2 DEF ClaimInv, OneSlotEach
<1>12. BatchOrSlot'
  BY <1>1, <1>2 DEF ClaimInv, BatchOrSlot
<1>13. RunningIsStamped'
  <2>1. \A j \in Jobs : jobs[j] \in Row
    BY DEF TypeOK
  <2>2. \A j \in Jobs : Longer(jobs[j]) # NULL <=> jobs[j].since # NULL
    BY <2>1, TableAssumption DEF Longer, NULL, Row
  <2> QED
    BY <1>3, <2>2 DEF ClaimInv, RunningIsStamped
<1>14. AttemptLeft'
  BY <1>3 DEF ClaimInv, AttemptLeft
<1> QED
  BY <1>5, <1>7, <1>8, <1>9, <1>10, <1>11, <1>12, <1>13, <1>14 DEF ClaimInv

LEMMA ClaimNext ==
  ASSUME WellProvisioned, TypeOK, TypeOK', ClaimInv, [Next]_vars
  PROVE  ClaimInv'
<1>1. ASSUME NEW i \in Instances, NEW j \in Jobs, Enqueue(i, j)
      PROVE  ClaimInv'
  BY <1>1, ClaimEnqueue
<1>2. ASSUME NEW i \in Instances, Return(i) \/ Signal(i) \/ Start(i)
      PROVE  ClaimInv'
  <2>1. BatchesKept
    BY <1>2 DEF Return, Signal, Start, BatchesKept, TypeOK, ClaimInv, BatchesAreBrief, Claiming
  <2>2. ClaimsKept /\ UNCHANGED jobs
    BY <1>2 DEF Return, Signal, Start, ClaimsKept, Working
  <2> QED
    BY <2>1, <2>2, RowsUntouched, ClaimKept DEF ClaimInv, ClaimParts
<1>3. ASSUME NEW i \in Instances, RunStep(i)
      PROVE  ClaimInv'
  BY <1>2, <1>3, ClaimSelect, ClaimCommit, ClaimError, ClaimDispatch DEF RunStep
<1>4. ASSUME NEW i \in Instances, NEW s \in Slots, ProcessStep(i, s)
      PROVE  ClaimInv'
  BY <1>4, ClaimProcess
<1>5. ASSUME NEW i \in Instances, Reconcile(i)
      PROVE  ClaimInv'
  BY <1>5, ClaimReconcile
<1>6. ASSUME NEW i \in Instances, Stop(i)
      PROVE  ClaimInv'
  <2>1. BatchesKept
    BY <1>6 DEF Stop, BatchesKept, TypeOK
  <2>2. ClaimsKept
    BY <1>6 DEF Stop, ClaimsKept, TypeOK, Working, Idle
  <2>3. UNCHANGED jobs
    BY <1>6 DEF Stop
  <2> QED
    BY <2>1, <2>2, <2>3, RowsUntouched, ClaimKept DEF ClaimInv, ClaimParts
<1>7. CASE UNCHANGED vars
  <2>1. BatchesKept /\ ClaimsKept /\ UNCHANGED jobs
    BY <1>7 DEF vars, BatchesKept, ClaimsKept, Working
  <2> QED
    BY <2>1, RowsUntouched, ClaimKept DEF ClaimInv, ClaimParts
<1> QED
  BY <1>1, <1>2, <1>3, <1>4, <1>5, <1>6, <1>7, ClaimTick DEF Next, Crash, Exit

LEMMA ClaimsHold ==
  ASSUME WellProvisioned
  PROVE  Spec => [](TypeOK /\ ClaimInv)
<1>1. Init => TypeOK /\ ClaimInv
  BY TypeInit, ClaimInit
<1>2. TypeOK /\ ClaimInv /\ [Next]_vars => (TypeOK /\ ClaimInv)'
  BY TypeNext, ClaimNext
<1> QED
  BY <1>1, <1>2, PTL DEF Spec

\* ClaimInv leaves a job at most one holder.
LEMMA OneHolder == TypeOK /\ ClaimInv => ExclusiveClaims
<1> SUFFICES ASSUME TypeOK, ClaimInv, NEW j \in Jobs, NEW g \in Holders(j), NEW h \in Holders(j)
             PROVE  g = h
  BY DEF ExclusiveClaims
<1> DEFINE InBatch(i) == loop[i] = "dispatch" /\ \E m \in batch[i] : m.job = j
<1>1. \A x \in Holders(j) :
        \/ \E i \in Instances : x = <<i, 0>> /\ InBatch(i)
        \/ \E i \in Instances, s \in Slots :
             x = <<i, s>> /\ Working(i, s) /\ slot[i][s].job = j
  BY DEF Holders, JobsOf
<1>2. \A i, k \in Instances : InBatch(i) /\ InBatch(k) => i = k
  BY DEF ClaimInv, OneBatchEach
<1>3. \A i, k \in Instances, t \in Slots :
        InBatch(i) /\ Working(k, t) => slot[k][t].job # j
  BY DEF ClaimInv, BatchOrSlot
<1>4. \A i, k \in Instances, s, t \in Slots :
        Working(i, s) /\ Working(k, t) /\ slot[i][s].job = j /\ slot[k][t].job = j
          => i = k /\ s = t
  BY DEF ClaimInv, OneSlotEach
<1> HIDE DEF InBatch
<1> QED
  BY <1>1, <1>2, <1>3, <1>4

\* No job is ever in the hands of two goroutines, of any instances: Dequeue, the
\* semaphore, Mark* and ResetStuck together, provided the stuck timeout covers the
\* longest claim.
THEOREM ClaimsAreExclusive ==
  ASSUME WellProvisioned
  PROVE  Spec => []ExclusiveClaims
BY OneHolder, ClaimsHold, PTL

\* The row a goroutine marks is still the one it claimed, under the same condition.
THEOREM MarksAreOfOwnClaims ==
  ASSUME WellProvisioned
  PROVE  Spec => []MarksWhatItClaimed
<1>1. ClaimInv => MarksWhatItClaimed
  BY DEF ClaimInv, SlotRowsRun, MarksWhatItClaimed
<1> QED
  BY <1>1, ClaimsHold, PTL

\* No job is tried more often than max_attempts allows, under the same condition.
THEOREM AttemptsAreBounded ==
  ASSUME WellProvisioned
  PROVE  Spec => []AttemptsBounded
<1>1. ClaimInv => AttemptsBounded
  BY DEF ClaimInv, AttemptLeft, AttemptsBounded
<1> QED
  BY <1>1, ClaimsHold, PTL

\* A step keeps running_since set on the running rows and on no other, whoever holds
\* them.
LEMMA StampsKept ==
  ASSUME TypeOK, RunningIsStamped, [Next]_vars
  PROVE  RunningIsStamped'
<1>1. ASSUME NEW i \in Instances, NEW j \in Jobs, Enqueue(i, j)
      PROVE  RunningIsStamped'
  BY <1>1 DEF Enqueue, Inserted, RunningIsStamped, TypeOK
<1>2. ASSUME NEW i \in Instances, RunStep(i)
      PROVE  RunningIsStamped'
  <2>1. UNCHANGED jobs \/ jobs' = Claimed(JobsOf(batch[i]), batchAge[i])
    BY <1>2 DEF RunStep, DequeueSelect, DequeueCommit, DequeueError, Dispatch, Return
  <2>2. batchAge[i] # NULL
    BY WorkerAssumption DEF TypeOK, NULL
  <2> QED
    BY <2>1, <2>2 DEF Claimed, RunningIsStamped
<1>3. ASSUME NEW i \in Instances, NEW s \in Slots, ProcessStep(i, s)
      PROVE  RunningIsStamped'
  <2>1. UNCHANGED jobs \/ jobs' = Marked(i, slot[i][s])
    BY <1>3 DEF ProcessStep, Execute, Report, Mark, Record
  <2> QED
    BY <2>1 DEF Marked, MarkCompleted, MarkDead, MarkFailed, RunningIsStamped, TypeOK
<1>4. ASSUME NEW i \in Instances, Reconcile(i)
      PROVE  RunningIsStamped'
  BY <1>4 DEF Reconcile, Reset, RunningIsStamped
<1>5. ASSUME NEW i \in Instances, Signal(i) \/ Crash(i) \/ Exit(i) \/ Start(i)
      PROVE  RunningIsStamped'
  BY <1>5 DEF Signal, Crash, Exit, Start, Stop, RunningIsStamped
<1>6. CASE Tick
  <2>1. \A j \in Jobs : Longer(jobs[j]) = NULL <=> jobs[j].since = NULL
    BY DEF Longer, NULL, TypeOK, Row
  <2> QED
    BY <1>6, <2>1 DEF Tick, Aged, RunningIsStamped
<1>7. CASE UNCHANGED vars
  BY <1>7 DEF vars, RunningIsStamped
<1> QED
  BY <1>1, <1>2, <1>3, <1>4, <1>5, <1>6, <1>7 DEF Next

\* running_since says which rows are running, whatever the stuck timeout: the
\* reconciler sees them all.
THEOREM RunningRowsAreStamped == Spec => []RunningIsStamped
<1>1. Init => RunningIsStamped
  <2>1. Absent.status # "running" /\ Absent.since = NULL
    BY DEF Absent
  <2>2. Init => \A j \in Jobs : jobs[j] = Absent
    BY DEF Init
  <2> QED
    BY <2>1, <2>2 DEF RunningIsStamped
<1>2. TypeOK /\ RunningIsStamped /\ [Next]_vars => RunningIsStamped'
  BY StampsKept
<1> QED
  BY <1>1, <1>2, TypeCorrect, PTL DEF Spec

-----------------------------------------------------------------------------
(* Abandoned rows: what the row locks and the status ensure by themselves. *)

\* A step after which the transactions still open have their rows as before.
LEMMA LocksKept ==
  ASSUME LockInv,
         \A k \in Instances : loop'[k] = "tx" =>
           /\ loop[k] = "tx" /\ batch'[k] = batch[k]
           /\ \A m \in batch[k] : jobs'[m.job].status \in Waiting
  PROVE  LockInv'
BY DEF LockInv, JobsOf

\* The steps that lock nothing and leave the waiting rows waiting.
LEMMA LocksStand ==
  ASSUME LockInv, UNCHANGED batch,
         \A k \in Instances : loop'[k] = "tx" => loop[k] = "tx",
         \A j \in Locked : jobs[j].status \in Waiting => jobs'[j].status \in Waiting
  PROVE  LockInv'
<1>1. \A k \in Instances : loop[k] = "tx" => \A m \in batch[k] : m.job \in Locked
  BY DEF Locked, JobsOf
<1> QED
  BY <1>1, LocksKept DEF LockInv

LEMMA LocksRun ==
  ASSUME TypeOK, LockInv, NEW i \in Instances, RunStep(i)
  PROVE  LockInv'
<1>1. CASE DequeueSelect(i)
  <2>1. PICK S \in SUBSET Jobs :
          /\ S \subseteq Due \ Locked
          /\ batch' = [batch EXCEPT ![i] = {Snapshot(j) : j \in S}]
          /\ loop' = [loop EXCEPT ![i] = "tx"]
          /\ loop[i] = "select" /\ UNCHANGED jobs
    BY <1>1 DEF DequeueSelect, Selectable
  <2>2. /\ batch'[i] = {Snapshot(j) : j \in S}
        /\ \A k \in Instances \ {i} : batch'[k] = batch[k] /\ loop'[k] = loop[k]
    BY <2>1 DEF TypeOK
  <2>3. \A k \in Instances \ {i} : loop[k] = "tx" => JobsOf(batch[k]) \cap S = {}
    BY <2>1 DEF Locked
  <2>4. \A j \in S : jobs[j].status \in Waiting
    BY <2>1 DEF Due
  <2>5. \A m \in batch'[i] : m.job \in S
    BY <2>2 DEF Snapshot
  <2>6. ASSUME NEW k \in Instances, loop'[k] = "tx", NEW m \in batch'[k]
        PROVE  jobs'[m.job].status \in Waiting
    BY <2>1, <2>2, <2>4, <2>5, <2>6 DEF LockInv
  <2>7. ASSUME NEW k \in Instances, NEW l \in Instances, loop'[k] = "tx", loop'[l] = "tx",
               NEW m \in batch'[k], m.job \in JobsOf(batch'[l])
        PROVE  k = l
    <3>1. CASE k # i /\ l # i
      BY <2>2, <2>7, <3>1 DEF LockInv
    <3>2. CASE k = i /\ l # i
      BY <2>2, <2>3, <2>5, <2>7, <3>2
    <3>3. CASE k # i /\ l = i
      BY <2>2, <2>3, <2>5, <2>7, <3>3 DEF JobsOf
    <3> QED
      BY <3>1, <3>2, <3>3
  <2> QED
    BY <2>6, <2>7 DEF LockInv, JobsOf
<1>2. CASE DequeueCommit(i) \/ DequeueError(i)
  <2>1. /\ loop[i] = "tx" /\ loop'[i] # "tx"
        /\ jobs' \in {jobs, Claimed(JobsOf(batch[i]), batchAge[i])}
        /\ \A k \in Instances \ {i} : batch'[k] = batch[k] /\ loop'[k] = loop[k]
    BY <1>2 DEF DequeueCommit, DequeueError, TypeOK
  <2>2. ASSUME NEW k \in Instances \ {i}, loop[k] = "tx", NEW m \in batch[k]
        PROVE  jobs'[m.job].status \in Waiting
    <3>1. m.job \notin JobsOf(batch[i]) /\ jobs[m.job].status \in Waiting
      BY <2>1, <2>2 DEF LockInv, JobsOf
    <3>2. m.job \in Jobs
      BY <2>2 DEF TypeOK, BatchEntry
    <3> QED
      BY <2>1, <3>1, <3>2 DEF Claimed
  <2> QED
    BY <2>1, <2>2, LocksKept
<1>3. ASSUME NEW s \in Slots, Dispatch(i, s)
      PROVE  LockInv'
  <2>1. /\ loop[i] = "dispatch" /\ loop'[i] # "tx" /\ UNCHANGED jobs
        /\ \A k \in Instances \ {i} : batch'[k] = batch[k] /\ loop'[k] = loop[k]
    BY <1>3 DEF Dispatch, TypeOK
  <2> QED
    BY <2>1, LocksKept DEF LockInv
<1>4. CASE Return(i)
  <2>1. UNCHANGED <<jobs, batch>> /\ \A k \in Instances : loop'[k] = "tx" => loop[k] = "tx"
    BY <1>4 DEF Return, TypeOK
  <2> QED
    BY <2>1, LocksStand
<1> QED
  BY <1>1, <1>2, <1>3, <1>4 DEF RunStep

LEMMA LockNext ==
  ASSUME TypeOK, LockInv, [Next]_vars
  PROVE  LockInv'
<1>0. Locked \subseteq Jobs
  BY DEF Locked, JobsOf, TypeOK, BatchEntry
<1>1. ASSUME NEW i \in Instances, NEW j \in Jobs, Enqueue(i, j)
      PROVE  LockInv'
  <2>1. \A k \in Jobs : jobs[k].status \in Waiting => jobs'[k].status \in Waiting
    BY <1>1 DEF Enqueue, Inserted, Waiting, TypeOK
  <2> QED
    BY <1>0, <1>1, <2>1, LocksStand DEF Enqueue
<1>2. ASSUME NEW i \in Instances, NEW s \in Slots, ProcessStep(i, s)
      PROVE  LockInv'
  <2>1. UNCHANGED <<loop, batch>>
    BY <1>2 DEF ProcessStep, Execute, Report, Mark, Record
  <2>2. UNCHANGED jobs \/ (slot[i][s].job \notin Locked /\ jobs' = Marked(i, slot[i][s]))
    BY <1>2 DEF ProcessStep, Execute, Report, Mark, Record
  <2>3. \A k \in Locked : jobs'[k] = jobs[k]
    BY <1>0, <2>2 DEF Marked, MarkCompleted, MarkDead, MarkFailed, TypeOK
  <2> QED
    BY <2>1, <2>3, LocksStand
<1>3. ASSUME NEW i \in Instances, Reconcile(i)
      PROVE  LockInv'
  <2>1. \A k \in Jobs : jobs[k].status \in Waiting => jobs'[k].status \in Waiting
    BY <1>3 DEF Reconcile, Reset, Stuck, Waiting
  <2> QED
    BY <1>0, <1>3, <2>1, LocksStand DEF Reconcile
<1>4. ASSUME NEW i \in Instances, Signal(i) \/ Start(i)
      PROVE  LockInv'
  <2>1. UNCHANGED <<jobs, batch>> /\ \A k \in Instances : loop'[k] = "tx" => loop[k] = "tx"
    BY <1>4 DEF Signal, Start, TypeOK
  <2> QED
    BY <2>1, LocksStand
<1>5. ASSUME NEW i \in Instances, Crash(i) \/ Exit(i)
      PROVE  LockInv'
  <2>1. /\ loop'[i] # "tx" /\ UNCHANGED jobs
        /\ \A k \in Instances \ {i} : batch'[k] = batch[k] /\ loop'[k] = loop[k]
    BY <1>5 DEF Crash, Exit, Stop, TypeOK
  <2> QED
    BY <2>1, LocksKept DEF LockInv
<1>6. CASE Tick
  <2>1. \A k \in Jobs : jobs'[k].status = jobs[k].status
    BY <1>6 DEF Tick, Aged
  <2> QED
    BY <1>0, <1>6, <2>1, LocksStand DEF Tick
<1>7. CASE UNCHANGED vars
  BY <1>7, LocksStand DEF vars
<1> QED
  BY <1>1, <1>2, <1>3, <1>4, <1>5, <1>6, <1>7, LocksRun DEF Next

\* A step of the loop claims rows that waited, and hands on rows it had.
LEMMA UnheldRun ==
  ASSUME TypeOK, LockInv, NEW j \in Jobs, jobs[j].status = "running", Unheld(j),
         NEW i \in Instances, RunStep(i)
  PROVE  jobs'[j].status = "running" /\ jobs'[j].attempts = jobs[j].attempts /\ Unheld(j)'
<1>1. UNCHANGED jobs \/ jobs' = Claimed(JobsOf(batch[i]), batchAge[i])
  BY DEF RunStep, DequeueSelect, DequeueCommit, DequeueError, Dispatch, Return
<1>2. jobs'[j].status = "running" /\ jobs'[j].attempts = jobs[j].attempts
  BY <1>1 DEF Claimed
<1>3. CASE DequeueSelect(i) \/ DequeueError(i) \/ Return(i)
  <2>1. /\ loop'[i] # "dispatch" /\ UNCHANGED slot
        /\ \A k \in Instances \ {i} : batch'[k] = batch[k] /\ loop'[k] = loop[k]
    BY <1>3 DEF DequeueSelect, DequeueError, Return, TypeOK
  <2> QED
    BY <1>2, <2>1 DEF Unheld, Working
<1>4. CASE DequeueCommit(i)
  <2>1. /\ loop[i] = "tx" /\ UNCHANGED <<batch, slot>>
        /\ \A k \in Instances \ {i} : loop'[k] = loop[k]
    BY <1>4 DEF DequeueCommit, TypeOK
  <2>2. \A m \in batch[i] : m.job # j
    BY <2>1 DEF LockInv, Waiting
  <2> QED
    BY <1>2, <2>1, <2>2 DEF Unheld, Working
<1>5. ASSUME NEW s \in Slots, Dispatch(i, s)
      PROVE  Unheld(j)'
  <2>1. PICK m \in batch[i] :
          /\ slot' = [slot EXCEPT ![i][s] =
                        [pc |-> "exec", job |-> m.job, attempts |-> m.attempts,
                         age |-> batchAge[i], err |-> "none"]]
          /\ batch' = [batch EXCEPT ![i] = @ \ {m}]
    BY <1>5 DEF Dispatch
  <2>2. m.job # j /\ loop[i] = "dispatch"
    BY <1>5 DEF Dispatch, Unheld
  <2>3. \A k \in Instances : batch'[k] \subseteq batch[k] /\ (loop'[k] = "dispatch" => loop[k] = "dispatch")
    BY <1>5, <2>1 DEF Dispatch, TypeOK
  <2>4. \A k \in Instances, t \in Slots :
          slot'[k][t] = slot[k][t] \/ slot'[k][t].job = m.job
    BY <2>1 DEF TypeOK
  <2> QED
    BY <2>2, <2>3, <2>4 DEF Unheld, Working
<1> QED
  BY <1>2, <1>3, <1>4, <1>5 DEF RunStep

\* A goroutine writes the row it works on, and keeps it until it has written it.
LEMMA UnheldProcess ==
  ASSUME TypeOK, NEW j \in Jobs, Unheld(j), NEW i \in Instances, NEW s \in Slots,
         ProcessStep(i, s)
  PROVE  jobs'[j] = jobs[j] /\ Unheld(j)'
<1>1. UNCHANGED <<loop, batch>>
  BY DEF ProcessStep, Execute, Report, Mark, Record
<1>2. \/ UNCHANGED jobs
      \/ Working(i, s) /\ jobs' = Marked(i, slot[i][s])
  BY DEF ProcessStep, Execute, Report, Mark, Record, Working
<1>3. jobs'[j] = jobs[j]
  BY <1>2 DEF Unheld, Marked, MarkCompleted, MarkDead, MarkFailed, TypeOK
<1>4. \A k \in Instances, t \in Slots :
        Working(k, t)' => Working(k, t) /\ slot'[k][t].job = slot[k][t].job
  <2>1. PICK w : slot' = [slot EXCEPT ![i][s] = w]
    BY DEF ProcessStep, Execute, Report, Mark, Record
  <2>2. slot'[i][s] = w /\ \A k \in Instances, t \in Slots :
          <<k, t>> # <<i, s>> => slot'[k][t] = slot[k][t]
    BY <2>1 DEF TypeOK
  <2>3. w.pc \in {"exec", "report", "mark"} =>
          Working(i, s) /\ w.job = slot[i][s].job
    <3>1. CASE Execute(i, s)
      BY <3>1, <2>2 DEF Execute, Working, GoesOn, TypeOK
    <3>2. CASE Report(i, s)
      BY <3>2, <2>2 DEF Report, Working, GoesOn, TypeOK
    <3>3. CASE Mark(i, s)
      BY <3>3, <2>2 DEF Mark, Working, GoesOn, Idle, TypeOK
    <3>4. CASE Record(i, s)
      BY <3>4, <2>2 DEF Record, Idle, TypeOK
    <3> QED
      BY <3>1, <3>2, <3>3, <3>4 DEF ProcessStep
  <2>4. \A k \in Instances, t \in Slots : <<k, t>> = <<i, s>> =>
          (Working(k, t)' => Working(k, t) /\ slot'[k][t].job = slot[k][t].job)
    BY <2>2, <2>3 DEF Working
  <2> QED
    BY <2>2, <2>4 DEF Working
<1> QED
  BY <1>1, <1>3, <1>4 DEF Unheld

LEMMA AbandonedStep ==
  ASSUME TypeOK, LockInv, [Next]_vars, NEW j \in Jobs,
         jobs[j].status = "running", Unheld(j)
  PROVE  /\ jobs'[j].attempts = jobs[j].attempts
         /\ \/ jobs'[j].status = "running" /\ Unheld(j)'
            \/ ReconcileEnabled /\ jobs'[j].status = "pending"
<1> DEFINE Left == /\ jobs'[j].attempts = jobs[j].attempts
                   /\ jobs'[j].status = "running" /\ Unheld(j)'
<1>1. ASSUME NEW i \in Instances, NEW k \in Jobs, Enqueue(i, k)
      PROVE  Left
  BY <1>1 DEF Enqueue, Inserted, TypeOK, Unheld, Working
<1>2. ASSUME NEW i \in Instances, RunStep(i)
      PROVE  Left
  BY <1>2, UnheldRun
<1>3. ASSUME NEW i \in Instances, NEW s \in Slots, ProcessStep(i, s)
      PROVE  Left
  BY <1>3, UnheldProcess
<1>4. ASSUME NEW i \in Instances, Reconcile(i)
      PROVE  Left \/ (/\ jobs'[j].attempts = jobs[j].attempts
                      /\ ReconcileEnabled /\ jobs'[j].status = "pending")
  BY <1>4 DEF Reconcile, Reset, Unheld, Working
<1>5. ASSUME NEW i \in Instances, Signal(i) \/ Start(i)
      PROVE  Left
  BY <1>5 DEF Signal, Start, TypeOK, Unheld, Working
<1>6. ASSUME NEW i \in Instances, Crash(i) \/ Exit(i)
      PROVE  Left
  <2>1. Stop(i)
    BY <1>6 DEF Crash, Exit
  <2>2. /\ loop'[i] # "dispatch" /\ UNCHANGED jobs
        /\ \A s \in Slots : ~Working(i, s)'
        /\ \A k \in Instances \ {i} :
             loop'[k] = loop[k] /\ batch'[k] = batch[k] /\ slot'[k] = slot[k]
    BY <2>1 DEF Stop, TypeOK, Working, Idle
  <2> QED
    BY <2>2 DEF Unheld, Working
<1>7. ASSUME Tick
      PROVE  Left
  <2>1. \A k \in Instances, t \in Slots :
          Working(k, t)' => Working(k, t) /\ slot'[k][t].job = slot[k][t].job
    BY <1>7 DEF Tick, Working, Older
  <2> QED
    BY <1>7, <2>1 DEF Tick, Aged, Unheld
<1>8. ASSUME UNCHANGED vars
      PROVE  Left
  BY <1>8 DEF vars, Unheld, Working
<1>9. Left \/ (/\ jobs'[j].attempts = jobs[j].attempts
               /\ ReconcileEnabled /\ jobs'[j].status = "pending")
  BY <1>1, <1>2, <1>3, <1>4, <1>5, <1>6, <1>7, <1>8 DEF Next
<1> QED
  BY <1>9

\* A row left running by a crash, a shutdown or a lost COMMIT is put back by a
\* reconciler or stays so, whatever the stuck timeout: without reconcile.enabled it
\* stays so for good.
THEOREM AbandonedRowsWaitForReset == Spec => AbandonedOnlyReset
<1>1. Init => LockInv
  BY DEF Init, LockInv
<1>2. TypeOK /\ LockInv /\ [Next]_vars => LockInv'
  BY LockNext
<1>3. TypeOK /\ LockInv /\ [Next]_vars =>
        [\A j \in Jobs :
           jobs[j].status = "running" /\ Unheld(j) =>
             /\ jobs'[j].attempts = jobs[j].attempts
             /\ \/ jobs'[j].status = "running" /\ Unheld(j)'
                \/ ReconcileEnabled /\ jobs'[j].status = "pending"]_vars
  BY AbandonedStep
<1> QED
  BY <1>1, <1>2, <1>3, TypeCorrect, PTL DEF Spec, AbandonedOnlyReset

-----------------------------------------------------------------------------
(* Terminal rows, and the refinement. *)

\* What a step does to the table, whatever else it does.
LEMMA TableSteps ==
  ASSUME TypeOK, ClaimInv, [Next]_vars
  PROVE  \/ UNCHANGED jobs
         \/ \E j \in Jobs, at \in Int : jobs[j].status = "absent" /\ jobs' = Inserted(j, at)
         \/ \E S \in SUBSET Jobs, age \in Nat :
              (\A j \in S : jobs[j].status \in Waiting) /\ jobs' = Claimed(S, age)
         \/ \E i \in Instances, s \in Slots : Mark(i, s) /\ jobs' = Marked(i, slot[i][s])
         \/ \E S \in SUBSET Jobs :
              (\A j \in S : jobs[j].status = "running") /\ jobs' = Reset(S)
         \/ jobs' = Aged
<1>1. ASSUME NEW i \in Instances, NEW j \in Jobs, Enqueue(i, j)
      PROVE  jobs[j].status = "absent" /\ jobs' = Inserted(j, Skew[i]) /\ Skew[i] \in Int
  BY <1>1, WorkerAssumption DEF Enqueue
<1>2. ASSUME NEW i \in Instances, RunStep(i)
      PROVE  \/ UNCHANGED jobs
             \/ loop[i] = "tx" /\ jobs' = Claimed(JobsOf(batch[i]), batchAge[i])
  BY <1>2 DEF RunStep, DequeueSelect, DequeueCommit, DequeueError, Dispatch, Return
<1>3. ASSUME NEW i \in Instances, loop[i] = "tx"
      PROVE  /\ JobsOf(batch[i]) \in SUBSET Jobs /\ batchAge[i] \in Nat
             /\ \A j \in JobsOf(batch[i]) : jobs[j].status \in Waiting
  BY <1>3, WorkerAssumption DEF TypeOK, BatchEntry, JobsOf, ClaimInv, LockedRowsWait
<1>4. ASSUME NEW i \in Instances, NEW s \in Slots, ProcessStep(i, s)
      PROVE  UNCHANGED jobs \/ (Mark(i, s) /\ jobs' = Marked(i, slot[i][s]))
  BY <1>4 DEF ProcessStep, Execute, Report, Mark, Record
<1>5. ASSUME NEW i \in Instances, Reconcile(i)
      PROVE  /\ jobs' = Reset(Stuck(StuckJobTimeout, Skew[i]))
             /\ Stuck(StuckJobTimeout, Skew[i]) \in SUBSET Jobs
             /\ \A j \in Stuck(StuckJobTimeout, Skew[i]) : jobs[j].status = "running"
  BY <1>5 DEF Reconcile, Stuck
<1>6. ASSUME NEW i \in Instances, Signal(i) \/ Crash(i) \/ Exit(i) \/ Start(i)
      PROVE  UNCHANGED jobs
  BY <1>6 DEF Signal, Crash, Exit, Start, Stop
<1>7. Tick => jobs' = Aged
  BY DEF Tick
<1>8. UNCHANGED vars => UNCHANGED jobs
  BY DEF vars
<1> QED
  BY <1>1, <1>2, <1>3, <1>4, <1>5, <1>6, <1>7, <1>8 DEF Next

\* A goroutine marks a row that is running, and no other row.
LEMMA MarkedJob ==
  ASSUME TypeOK, ClaimInv, NEW i \in Instances, NEW s \in Slots, Mark(i, s)
  PROVE  /\ slot[i][s].job \in Jobs /\ slot[i][s].attempts \in Nat
         /\ Working(i, s)
         /\ jobs[slot[i][s].job].status = "running"
         /\ jobs[slot[i][s].job].attempts = slot[i][s].attempts
<1>1. Working(i, s)
  BY DEF Mark, Working
<1> QED
  BY <1>1, WorkingSlot DEF ClaimInv, SlotRowsRun

\* No step changes a completed or dead row.
LEMMA TerminalStays ==
  ASSUME TypeOK, ClaimInv, [Next]_vars, NEW j \in Jobs, jobs[j].status \in Terminal
  PROVE  jobs'[j] = jobs[j]
<1>1. /\ jobs[j].status \notin Waiting /\ jobs[j].status # "running"
      /\ jobs[j].status # "absent" /\ jobs[j].since = NULL
  BY DEF Terminal, Waiting, ClaimInv, RunningIsStamped
<1>2. ASSUME NEW k \in Jobs, NEW at \in Int, jobs[k].status = "absent",
             jobs' = Inserted(k, at)
      PROVE  jobs'[j] = jobs[j]
  BY <1>1, <1>2 DEF Inserted, TypeOK
<1>3. ASSUME NEW S \in SUBSET Jobs, NEW age \in Nat,
             \A k \in S : jobs[k].status \in Waiting, jobs' = Claimed(S, age)
      PROVE  jobs'[j] = jobs[j]
  BY <1>1, <1>3 DEF Claimed
<1>4. ASSUME NEW i \in Instances, NEW s \in Slots, Mark(i, s),
             jobs' = Marked(i, slot[i][s])
      PROVE  jobs'[j] = jobs[j]
  <2>1. Working(i, s) /\ slot[i][s].job # j
    BY <1>1, <1>4, MarkedJob
  <2> QED
    BY <1>4, <2>1, MarkedRow
<1>5. ASSUME NEW S \in SUBSET Jobs, \A k \in S : jobs[k].status = "running",
             jobs' = Reset(S)
      PROVE  jobs'[j] = jobs[j]
  BY <1>1, <1>5 DEF Reset
<1>6. CASE jobs' = Aged
  <2>1. jobs[j] \in Row
    BY DEF TypeOK
  <2>2. Sooner(jobs[j]) = jobs[j].nextRun /\ Longer(jobs[j]) = jobs[j].since
    BY <1>1 DEF Sooner, Longer
  <2> QED
    BY <1>6, <2>1, <2>2 DEF Aged, Row
<1> QED
  BY <1>2, <1>3, <1>4, <1>5, <1>6, TableSteps

\* Once completed or dead a row is never written again, as data.md draws it: no
\* goroutine marks it late and no reconciler brings it back, provided the stuck
\* timeout covers the longest claim.
THEOREM TerminalRowsAreFinal ==
  ASSUME WellProvisioned
  PROVE  Spec => TerminalIsFinal
<1>1. TypeOK /\ ClaimInv /\ [Next]_vars
        => [\A j \in Jobs : jobs[j].status \in Terminal => jobs'[j] = jobs[j]]_vars
  BY TerminalStays
<1> QED
  BY <1>1, ClaimsHold, PTL DEF Spec, TerminalIsFinal

\* Jira's decisions change only when a job is executed, and then the table does not.
LEMMA JiraSteps ==
  ASSUME [Next]_vars
  PROVE  UNCHANGED jira \/ \E i \in Instances, s \in Slots : Execute(i, s)
BY DEF Next, Enqueue, RunStep, DequeueSelect, DequeueCommit, DequeueError, Dispatch, Return,
   ProcessStep, Report, Mark, Record, Reconcile, Signal, Crash, Exit, Stop, Start, Tick, vars

\* The table and Jira after a step that changes the status of one row.
LEMMA LifeOfRow ==
  ASSUME TypeOK, NEW j \in Jobs, NEW st, NEW n,
         jobs'[j].status = st, jobs'[j].attempts = n,
         \A k \in Jobs : k # j => jobs'[k] = jobs[k],
         jobs' \in [Jobs -> Row]
  PROVE  /\ [k \in Jobs |-> jobs'[k].status]
              = [[k \in Jobs |-> jobs[k].status] EXCEPT ![j] = st]
         /\ [k \in Jobs |-> jobs'[k].attempts]
              = [[k \in Jobs |-> jobs[k].attempts] EXCEPT ![j] = n]
OBVIOUS

LEMMA LifeInit == Init => Lifecycle!Init
BY DEF Init, Lifecycle!Init, Absent

LEMMA LifeExecute ==
  ASSUME TypeOK, ClaimInv, NEW i \in Instances, NEW s \in Slots, Execute(i, s)
  PROVE  Lifecycle!Next \/ UNCHANGED Lifecycle!vars
<1> DEFINE j == slot[i][s].job
<1>1. PICK o \in Outcomes(Target[j], ctxDone[i]) :
        jira' = [jira EXCEPT ![j] = @ \cup ({o.decided} \cap Settling)]
  BY DEF Execute
<1>2. UNCHANGED jobs /\ Working(i, s)
  BY DEF Execute, Working
<1>3. j \in Jobs /\ jobs[j].status = "running"
  BY <1>2, WorkingSlot DEF ClaimInv, SlotRowsRun
<1>4. CASE o.decided \in Settling
  <2>1. ~Skipped(Target[j])
    BY <1>1, <1>4 DEF Outcomes, Settling, NonRetryable, NoAnswer
  <2>2. jira' = [jira EXCEPT ![j] = @ \cup {o.decided}]
    BY <1>1, <1>4 DEF TypeOK
  <2>3. Lifecycle!Decide(j, o.decided)
    BY <1>2, <1>3, <2>1, <2>2 DEF Lifecycle!Decide, Lifecycle!Skipped, Skipped
  <2> QED
    BY <1>3, <1>4, <2>3 DEF Lifecycle!Next, Lifecycle!Settling, Settling,
       Lifecycle!NonRetryable, NonRetryable
<1>5. CASE o.decided \notin Settling
  <2>1. jira' = jira
    BY <1>1, <1>3, <1>5 DEF TypeOK
  <2> QED
    BY <1>2, <2>1 DEF Lifecycle!vars
<1> QED
  BY <1>4, <1>5

LEMMA LifeMark ==
  ASSUME TypeOK, TypeOK', ClaimInv, EndsInv, NEW i \in Instances, NEW s \in Slots,
         NEW j \in Jobs, j = slot[i][s].job,
         Mark(i, s), jobs' = Marked(i, slot[i][s]), UNCHANGED jira
  PROVE  Lifecycle!Next
<1> DEFINE w == slot[i][s]
<1>1. /\ w.job = j /\ w.attempts \in Nat /\ Working(i, s)
      /\ jobs[j].status = "running" /\ jobs[j].attempts = w.attempts
  BY MarkedJob
<1>2. w.pc = "mark" /\ Knows(w)
  BY <1>1 DEF Mark, EndsInv, KnowsJira
<1>3. /\ \A k \in Jobs : k # j => jobs'[k] = jobs[k]
      /\ jobs' \in [Jobs -> Row]
  BY <1>1, MarkedRow DEF TypeOK
<1>4. CASE Verdict(w) = "completed"
  <2>1. jobs'[j].status = "completed" /\ jobs'[j].attempts = w.attempts
    BY <1>1, <1>4 DEF Marked, MarkCompleted, TypeOK
  <2>2. Skipped(Target[j]) \/ 204 \in jira[j]
    BY <1>2, <1>4 DEF Knows, Verdict
  <2>3. [k \in Jobs |-> jobs[k].attempts]
          = [[k \in Jobs |-> jobs[k].attempts] EXCEPT ![j] = w.attempts]
    BY <1>1
  <2>4. /\ [k \in Jobs |-> jobs'[k].status]
             = [[k \in Jobs |-> jobs[k].status] EXCEPT ![j] = "completed"]
        /\ [k \in Jobs |-> jobs'[k].attempts] = [k \in Jobs |-> jobs[k].attempts]
    BY <1>1, <1>3, <2>1, <2>3, LifeOfRow
  <2>5. Lifecycle!Complete(j)
    BY <1>1, <2>2, <2>4 DEF Lifecycle!Complete, Lifecycle!Skipped, Skipped
  <2> QED
    BY <2>5 DEF Lifecycle!Next
<1>5. CASE Verdict(w) = "dead"
  <2>1. jobs'[j].status = "dead" /\ jobs'[j].attempts = w.attempts + 1
    BY <1>1, <1>5 DEF Marked, MarkDead, TypeOK
  <2>2. w.attempts + 1 >= MaxAttempts \/ jira[j] \cap NonRetryable # {}
    BY <1>2, <1>5 DEF Knows, Verdict
  <2>3. /\ [k \in Jobs |-> jobs'[k].status]
             = [[k \in Jobs |-> jobs[k].status] EXCEPT ![j] = "dead"]
        /\ [k \in Jobs |-> jobs'[k].attempts]
             = [[k \in Jobs |-> jobs[k].attempts] EXCEPT ![j] = w.attempts + 1]
    BY <1>1, <1>3, <2>1, LifeOfRow
  <2>4. \/ [k \in Jobs |-> jobs[k].attempts][j] + 1 >= MaxAttempts
        \/ jira[j] \cap Lifecycle!NonRetryable # {}
    BY <1>1, <2>2 DEF Lifecycle!NonRetryable, NonRetryable
  <2>5. [k \in Jobs |-> jobs[k].attempts][j] = w.attempts
    BY <1>1
  <2>6. Lifecycle!Die(j)
    BY <1>1, <2>3, <2>4, <2>5 DEF Lifecycle!Die
  <2> QED
    BY <2>6 DEF Lifecycle!Next
<1>6. CASE Verdict(w) = "failed"
  <2>1. jobs'[j].status = "failed" /\ jobs'[j].attempts = w.attempts + 1
    BY <1>1, <1>6 DEF Marked, MarkFailed, TypeOK
  <2>2. w.attempts + 1 < MaxAttempts
    BY <1>1, <1>6, WorkerAssumption DEF Verdict
  <2>3. /\ [k \in Jobs |-> jobs'[k].status]
             = [[k \in Jobs |-> jobs[k].status] EXCEPT ![j] = "failed"]
        /\ [k \in Jobs |-> jobs'[k].attempts]
             = [[k \in Jobs |-> jobs[k].attempts] EXCEPT ![j] = w.attempts + 1]
    BY <1>1, <1>3, <2>1, LifeOfRow
  <2>4. Lifecycle!Retry(j)
    BY <1>1, <2>2, <2>3 DEF Lifecycle!Retry
  <2> QED
    BY <2>4 DEF Lifecycle!Next
<1> QED
  BY <1>4, <1>5, <1>6 DEF Verdict

\* A row that is inserted begins its life.
LEMMA LifeInserted ==
  ASSUME TypeOK, TypeOK', AbsentRows, NEW j \in Jobs, NEW at,
         jobs[j].status = "absent", jobs' = Inserted(j, at), UNCHANGED jira
  PROVE  Lifecycle!Enqueue(j)
<1>1. /\ jobs'[j].status = "pending" /\ jobs'[j].attempts = 0
      /\ \A k \in Jobs : k # j => jobs'[k] = jobs[k]
      /\ jobs[j].attempts = 0
  BY DEF Inserted, TypeOK, AbsentRows
<1>2. [k \in Jobs |-> jobs[k].attempts]
        = [[k \in Jobs |-> jobs[k].attempts] EXCEPT ![j] = 0]
  BY <1>1
<1>3. jobs' \in [Jobs -> Row]
  BY DEF TypeOK
<1>4. /\ [k \in Jobs |-> jobs'[k].status]
           = [[k \in Jobs |-> jobs[k].status] EXCEPT ![j] = "pending"]
      /\ [k \in Jobs |-> jobs'[k].attempts]
           = [[k \in Jobs |-> jobs[k].attempts] EXCEPT ![j] = 0]
  BY <1>1, <1>3, LifeOfRow
<1> QED
  BY <1>2, <1>4 DEF Lifecycle!Enqueue

LEMMA LifeStep ==
  ASSUME TypeOK, TypeOK', ClaimInv, EndsInv, [Next]_vars
  PROVE  Lifecycle!Next \/ UNCHANGED Lifecycle!vars
<1>1. ASSUME UNCHANGED jira
      PROVE  Lifecycle!Next \/ UNCHANGED Lifecycle!vars
  <2>1. CASE UNCHANGED jobs
    BY <1>1, <2>1 DEF Lifecycle!vars
  <2>2. ASSUME NEW j \in Jobs, NEW at \in Int, jobs[j].status = "absent",
               jobs' = Inserted(j, at)
        PROVE  Lifecycle!Next
    <3>1. AbsentRows
      BY DEF EndsInv
    <3> QED
      BY <1>1, <2>2, <3>1, LifeInserted DEF Lifecycle!Next
  <2>3. ASSUME NEW S \in SUBSET Jobs, NEW age \in Nat,
               \A k \in S : jobs[k].status \in Waiting, jobs' = Claimed(S, age)
        PROVE  Lifecycle!Next
    <3>1. Lifecycle!Claim(S)
      BY <1>1, <2>3 DEF Lifecycle!Claim, Claimed, Waiting
    <3> QED
      BY <3>1 DEF Lifecycle!Next
  <2>4. ASSUME NEW S \in SUBSET Jobs, \A k \in S : jobs[k].status = "running",
               jobs' = Reset(S)
        PROVE  Lifecycle!Next
    <3>1. Lifecycle!Release(S)
      BY <1>1, <2>4 DEF Lifecycle!Release, Reset
    <3> QED
      BY <3>1 DEF Lifecycle!Next
  <2>5. CASE jobs' = Aged
    BY <1>1, <2>5 DEF Aged, Lifecycle!vars
  <2> QED
    BY <1>1, <2>1, <2>2, <2>3, <2>4, <2>5, MarkedJob, LifeMark, TableSteps
<1> QED
  BY <1>1, LifeExecute, JiraSteps

\* The jobs table, the processors and reconcilers of every instance and Jira
\* together implement the life cycle of data.md, with batches claimed atomically and
\* ends decided by Jira, provided the stuck timeout covers the longest claim.
THEOREM WorkersImplementLifecycle ==
  ASSUME WellProvisioned
  PROVE  Spec => LifecycleSpec
<1>1. Init => Lifecycle!Init
  BY LifeInit
<1>2. TypeOK /\ TypeOK' /\ ClaimInv /\ EndsInv /\ [Next]_vars
        => [Lifecycle!Next]_(Lifecycle!vars)
  BY LifeStep
<1>3. Init => EndsInv
  BY EndsInit
<1>4. TypeOK /\ TypeOK' /\ EndsInv /\ [Next]_vars => EndsInv'
  BY EndsNext
<1> QED
  BY <1>1, <1>2, <1>3, <1>4, ClaimsHold, PTL DEF Spec, LifecycleSpec, Lifecycle!Spec
=============================================================================
