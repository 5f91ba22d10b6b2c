---------------------------- MODULE AuditProofs ----------------------------
(***************************************************************************)
(* What the audit log of Worker says of the jobs: each counted failure, and*)
(* only ends for which there are grounds.                                  *)
(***************************************************************************)
EXTENDS WorkerProofs, FiniteSetTheorems

Failed  == "transition_failed"
Success == "transition_success"
Death   == "job_dead"

\* The rows of the log that are about a job.
LEMMA JobEntries ==
  /\ \A j \in Jobs, a \in {Failed, Success, Death} : <<j, a>> \in Entries
  /\ TypeOK => \A j \in Jobs, a \in {Failed, Success, Death} : audit[<<j, a>>] \in Nat
BY DEF Entries, AuditAction, Failed, Success, Death, TypeOK

\* The step logs nothing of a job.
JobsUnlogged ==
  \A j \in Jobs, a \in {Failed, Success, Death} : audit'[<<j, a>>] = audit[<<j, a>>]

LEMMA ResetLogged ==
  ASSUME TypeOK, Audited(<<NoJob, "reconcile_stuck_reset">>)
  PROVE  JobsUnlogged
<1>1. <<NoJob, "reconcile_stuck_reset">> \in Entries
  BY EntryType DEF AuditAction
<1>2. \A j \in Jobs, a \in {Failed, Success, Death} :
        <<j, a>> # <<NoJob, "reconcile_stuck_reset">>
  BY WorkerAssumption
<1> QED
  BY <1>1, <1>2, AuditedCounts, JobEntries DEF JobsUnlogged

\* The row of a goroutine counts one entry of its job.
LEMMA JobLogged ==
  ASSUME TypeOK, NEW j \in Jobs, NEW a \in {Failed, Success, Death}, Audited(<<j, a>>)
  PROVE  /\ \A k \in Jobs, b \in {Failed, Success, Death} :
              <<k, b>> # <<j, a>> => audit'[<<k, b>>] = audit[<<k, b>>]
         /\ audit'[<<j, a>>] \in {audit[<<j, a>>], audit[<<j, a>>] + 1}
         /\ ~AuditLossy => audit'[<<j, a>>] = audit[<<j, a>>] + 1
<1>1. <<j, a>> \in Entries
  BY JobEntries
<1> QED
  BY <1>1, AuditedCounts, JobEntries

-----------------------------------------------------------------------------
(* Counted failures are logged. *)

\* A step that logs and counts no failure and lets no goroutine reach its Mark.
LEMMA LogKept ==
  ASSUME TypeOK, FailureLoggedFirst,
         \A j \in Jobs : audit'[<<j, Failed>>] = audit[<<j, Failed>>],
         \A j \in Jobs : jobs'[j].attempts = jobs[j].attempts \/ jobs'[j].attempts = 0,
         \A i \in Instances, s \in Slots :
           slot'[i][s].pc = "mark" =>
             \/ slot'[i][s].err = "none"
             \/ /\ slot[i][s].pc = "mark" /\ slot'[i][s].job = slot[i][s].job
                /\ slot'[i][s].err = slot[i][s].err
  PROVE  FailureLoggedFirst'
<1> SUFFICES ASSUME NEW j \in Jobs
             PROVE  /\ IsFiniteSet(Counting(j)')
                    /\ jobs'[j].attempts + Cardinality(Counting(j)')
                         <= audit'[<<j, Failed>>]
  BY DEF FailureLoggedFirst, Logged, Failed
<1>1. Counting(j)' \in SUBSET Counting(j)
  BY DEF Counting
<1>2. /\ IsFiniteSet(Counting(j))
      /\ jobs[j].attempts + Cardinality(Counting(j)) <= audit[<<j, Failed>>]
  BY DEF FailureLoggedFirst, Logged, Failed
<1>3. /\ IsFiniteSet(Counting(j)') /\ Cardinality(Counting(j)') <= Cardinality(Counting(j))
  BY <1>1, <1>2, FS_Subset
<1>4. Cardinality(Counting(j)') \in Nat /\ Cardinality(Counting(j)) \in Nat
  BY <1>2, <1>3, FS_CardinalityType
<1>5. jobs[j].attempts \in Nat /\ audit[<<j, Failed>>] \in Nat
  BY JobEntries DEF TypeOK, Row
<1> QED
  BY <1>2, <1>3, <1>4, <1>5

LEMMA LogProcess ==
  ASSUME TypeOK, TypeOK', FailureLoggedFirst, ~AuditLossy,
         NEW i \in Instances, NEW s \in Slots, ProcessStep(i, s)
  PROVE  FailureLoggedFirst'
<1> DEFINE w == slot[i][s]
<1>1. \A k \in Instances, t \in Slots : ~(k = i /\ t = s) => slot'[k][t] = slot[k][t]
  BY DEF ProcessStep, Execute, Report, Mark, Record, TypeOK
<1>2. w \in SlotState /\ w.pc # "idle" /\ w.job \in Jobs
  BY DEF ProcessStep, Execute, Report, Mark, Record, TypeOK, SlotState, Idle
<1>3. CASE Execute(i, s)
  <2>1. UNCHANGED <<jobs, audit>>
    BY <1>3 DEF Execute
  <2>2. slot'[i][s].pc = "mark" => slot'[i][s].err = "none"
    BY <1>3 DEF Execute, GoesOn, TypeOK
  <2> QED
    BY <1>1, <2>1, <2>2, LogKept
<1>4. CASE Report(i, s)
  <2>1. UNCHANGED jobs /\ slot'[i][s].job = w.job
    BY <1>4 DEF Report, GoesOn, TypeOK
  <2>2. Audited(<<w.job, Failed>>)
    BY <1>4 DEF Report, Failed
  <2>3. /\ audit'[<<w.job, Failed>>] = audit[<<w.job, Failed>>] + 1
        /\ \A j \in Jobs : j # w.job => audit'[<<j, Failed>>] = audit[<<j, Failed>>]
    BY <1>2, <2>2, JobLogged
  <2> SUFFICES ASSUME NEW j \in Jobs
               PROVE  /\ IsFiniteSet(Counting(j)')
                      /\ jobs'[j].attempts + Cardinality(Counting(j)')
                           <= audit'[<<j, Failed>>]
    BY DEF FailureLoggedFirst, Logged, Failed
  <2>4. /\ IsFiniteSet(Counting(j)) /\ Cardinality(Counting(j)) \in Nat
        /\ jobs[j].attempts + Cardinality(Counting(j)) <= audit[<<j, Failed>>]
    BY FS_CardinalityType DEF FailureLoggedFirst, Logged, Failed
  <2>5. jobs[j].attempts \in Nat /\ audit[<<j, Failed>>] \in Nat
    BY JobEntries DEF TypeOK, Row
  <2>6. CASE j = w.job
    <3>1. Counting(j)' \in SUBSET (Counting(j) \cup {<<i, s>>})
      BY <1>1 DEF Counting
    <3>2. /\ IsFiniteSet(Counting(j) \cup {<<i, s>>})
          /\ Cardinality(Counting(j) \cup {<<i, s>>}) =
               IF <<i, s>> \in Counting(j) THEN Cardinality(Counting(j))
                                           ELSE Cardinality(Counting(j)) + 1
      BY <2>4, FS_AddElement
    <3>3. /\ IsFiniteSet(Counting(j)')
          /\ Cardinality(Counting(j)') <= Cardinality(Counting(j) \cup {<<i, s>>})
      BY <3>1, <3>2, FS_Subset
    <3>4. /\ Cardinality(Counting(j)') \in Nat
          /\ Cardinality(Counting(j) \cup {<<i, s>>}) \in Nat
      BY <3>2, <3>3, FS_CardinalityType
    <3> QED
      BY <2>1, <2>3, <2>4, <2>5, <2>6, <3>2, <3>3, <3>4
  <2>7. CASE j # w.job
    <3>1. Counting(j)' \in SUBSET Counting(j)
      BY <1>1, <2>1, <2>7 DEF Counting
    <3>2. IsFiniteSet(Counting(j)') /\ Cardinality(Counting(j)') <= Cardinality(Counting(j))
      BY <2>4, <3>1, FS_Subset
    <3>3. Cardinality(Counting(j)') \in Nat
      BY <3>2, FS_CardinalityType
    <3> QED
      BY <2>1, <2>3, <2>4, <2>5, <2>7, <3>2, <3>3
  <2> QED
    BY <2>6, <2>7
<1>5. CASE Mark(i, s)
  <2>1. /\ w.pc = "mark" /\ UNCHANGED audit
        /\ jobs' = Marked(i, w) \/ UNCHANGED jobs
        /\ slot'[i][s].pc # "mark"
    BY <1>5 DEF Mark, GoesOn, Idle, TypeOK
  <2>2. CASE w.err = "none"
    <3>1. \A j \in Jobs : jobs'[j].attempts = jobs[j].attempts
      BY <1>2, <2>1, <2>2 DEF Marked, Verdict, MarkCompleted, TypeOK
    <3> QED
      BY <1>1, <2>1, <3>1, LogKept
  <2>3. CASE w.err # "none"
    <3>1. /\ \A j \in Jobs : j # w.job => jobs'[j] = jobs[j]
          /\ jobs'[w.job].attempts \in {jobs[w.job].attempts, jobs[w.job].attempts + 1}
      BY <1>2, <2>1, <2>3 DEF Marked, Verdict, MarkDead, MarkFailed, TypeOK
    <3> SUFFICES ASSUME NEW j \in Jobs
                 PROVE  /\ IsFiniteSet(Counting(j)')
                        /\ jobs'[j].attempts + Cardinality(Counting(j)')
                             <= audit'[<<j, Failed>>]
      BY DEF FailureLoggedFirst, Logged, Failed
    <3>2. /\ IsFiniteSet(Counting(j)) /\ Cardinality(Counting(j)) \in Nat
          /\ jobs[j].attempts + Cardinality(Counting(j)) <= audit[<<j, Failed>>]
      BY FS_CardinalityType DEF FailureLoggedFirst, Logged, Failed
    <3>3. jobs[j].attempts \in Nat /\ audit[<<j, Failed>>] \in Nat
      BY JobEntries DEF TypeOK, Row
    <3>4. Counting(j)' \in SUBSET (Counting(j) \ {<<i, s>>})
      BY <1>1, <2>1 DEF Counting
    <3>5. j = w.job => <<i, s>> \in Counting(j)
      BY <2>1, <2>3 DEF Counting
    <3>6. /\ IsFiniteSet(Counting(j) \ {<<i, s>>})
          /\ Cardinality(Counting(j) \ {<<i, s>>}) =
               IF <<i, s>> \in Counting(j) THEN Cardinality(Counting(j)) - 1
                                           ELSE Cardinality(Counting(j))
      BY <3>2, FS_RemoveElement
    <3>7. /\ IsFiniteSet(Counting(j)')
          /\ Cardinality(Counting(j)') <= Cardinality(Counting(j) \ {<<i, s>>})
      BY <3>4, <3>6, FS_Subset
    <3>8. Cardinality(Counting(j)') \in Nat
      BY <3>7, FS_CardinalityType
    <3> QED
      BY <2>1, <3>1, <3>2, <3>3, <3>5, <3>6, <3>7, <3>8
  <2> QED
    BY <2>2, <2>3
<1>6. CASE Record(i, s)
  <2>1. UNCHANGED jobs /\ slot'[i][s] = Idle
    BY <1>6 DEF Record, TypeOK
  <2>2. \A j \in Jobs : audit'[<<j, Failed>>] = audit[<<j, Failed>>]
    <3> DEFINE end == IF Verdict(w) = "completed" THEN Success ELSE Death
    <3>1. Audited(<<w.job, end>>)
      BY <1>6 DEF Record, Success, Death
    <3>2. end \in {Success, Death} /\ end # Failed
      BY DEF Success, Death, Failed
    <3> HIDE DEF end
    <3>3. \A j \in Jobs : <<j, Failed>> # <<w.job, end>>
      BY <3>2
    <3>4. /\ w.job \in Jobs /\ end \in {Failed, Success, Death}
          /\ Failed \in {Failed, Success, Death}
      BY <1>2, <3>2
    <3>5. \A k \in Jobs, b \in {Failed, Success, Death} :
            <<k, b>> # <<w.job, end>> => audit'[<<k, b>>] = audit[<<k, b>>]
      BY <3>1, <3>4, JobLogged
    <3> QED
      BY <3>3, <3>4, <3>5
  <2> QED
    BY <1>1, <2>1, <2>2, LogKept DEF Idle
<1> QED
  BY <1>3, <1>4, <1>5, <1>6 DEF ProcessStep

LEMMA LogNext ==
  ASSUME TypeOK, TypeOK', FailureLoggedFirst, ~AuditLossy, [Next]_vars
  PROVE  FailureLoggedFirst'
<1>1. ASSUME NEW i \in Instances, NEW j \in Jobs, Enqueue(i, j)
      PROVE  FailureLoggedFirst'
  <2>1. \A k \in Jobs : jobs'[k].attempts = jobs[k].attempts \/ jobs'[k].attempts = 0
    BY <1>1 DEF Enqueue, Inserted, TypeOK
  <2> QED
    BY <1>1, <2>1, LogKept DEF Enqueue
<1>2. ASSUME NEW i \in Instances, RunStep(i)
      PROVE  FailureLoggedFirst'
  <2>1. \A j \in Jobs : jobs'[j].attempts = jobs[j].attempts
    BY <1>2 DEF RunStep, DequeueSelect, DequeueCommit, DequeueError, Dispatch, Return, Claimed
  <2>2. UNCHANGED audit
    BY <1>2 DEF RunStep, DequeueSelect, DequeueCommit, DequeueError, Dispatch, Return
  <2>3. \A k \in Instances, t \in Slots :
          slot'[k][t] = slot[k][t] \/ slot'[k][t].pc = "exec"
    BY <1>2 DEF RunStep, DequeueSelect, DequeueCommit, DequeueError, Dispatch, Return, TypeOK
  <2> QED
    BY <2>1, <2>2, <2>3, LogKept
<1>3. ASSUME NEW i \in Instances, Reconcile(i)
      PROVE  FailureLoggedFirst'
  <2>1. JobsUnlogged
    BY <1>3, ResetLogged DEF Reconcile
  <2> QED
    BY <1>3, <2>1, LogKept DEF Reconcile, Reset, JobsUnlogged
<1>4. ASSUME NEW i \in Instances, Signal(i) \/ Crash(i) \/ Exit(i) \/ Start(i)
      PROVE  FailureLoggedFirst'
  <2>1. UNCHANGED <<jobs, audit>>
    BY <1>4 DEF Signal, Crash, Exit, Start, Stop
  <2>2. \A k \in Instances, t \in Slots : slot'[k][t] = slot[k][t] \/ slot'[k][t] = Idle
    <3>1. CASE Signal(i) \/ Start(i)
      BY <3>1 DEF Signal, Start
    <3>2. CASE Stop(i)
      BY <3>2 DEF Stop, TypeOK
    <3> QED
      BY <1>4, <3>1, <3>2 DEF Crash, Exit
  <2> QED
    BY <2>1, <2>2, LogKept DEF Idle
<1>5. CASE Tick
  BY <1>5, LogKept DEF Tick, Aged, Older
<1>6. CASE UNCHANGED vars
  BY <1>6, LogKept DEF vars
<1> QED
  BY <1>1, <1>2, <1>3, <1>4, <1>5, <1>6, LogProcess DEF Next

LEMMA FailuresLoggedFirst ==
  ASSUME ~AuditLossy
  PROVE  Spec => []FailureLoggedFirst
<1>1. Init => FailureLoggedFirst
  <2> SUFFICES ASSUME Init, NEW j \in Jobs
               PROVE  /\ IsFiniteSet(Counting(j))
                      /\ jobs[j].attempts + Cardinality(Counting(j)) <= audit[<<j, Failed>>]
    BY DEF FailureLoggedFirst, Logged, Failed
  <2>1. Counting(j) = {}
    BY DEF Init, Counting, Idle
  <2>2. jobs[j].attempts = 0 /\ audit[<<j, Failed>>] = 0
    BY JobEntries DEF Init, Absent
  <2> QED
    BY <2>1, <2>2, FS_EmptySet
<1>2. TypeOK /\ TypeOK' /\ FailureLoggedFirst /\ [Next]_vars => FailureLoggedFirst'
  BY LogNext
<1> QED
  BY <1>1, <1>2, TypeCorrect, PTL DEF Spec

\* Each counted attempt has a row of its own in the audit log, through crashes,
\* resets and late marks, as long as no INSERT into the log fails: process writes the
\* row first, and a goroutine whose Mark is still to come has written one more.
THEOREM CountedFailuresAreLogged ==
  ASSUME ~AuditLossy
  PROVE  Spec => []FailuresAreLogged
<1>1. TypeOK /\ FailureLoggedFirst => FailuresAreLogged
  <2> SUFFICES ASSUME TypeOK, FailureLoggedFirst, NEW j \in Jobs
               PROVE  jobs[j].attempts <= audit[<<j, Failed>>]
    BY DEF FailuresAreLogged, Logged, Failed
  <2>1. /\ Cardinality(Counting(j)) \in Nat
        /\ jobs[j].attempts + Cardinality(Counting(j)) <= audit[<<j, Failed>>]
    BY FS_CardinalityType DEF FailureLoggedFirst, Logged, Failed
  <2>2. jobs[j].attempts \in Nat /\ audit[<<j, Failed>>] \in Nat
    BY JobEntries DEF TypeOK, Row
  <2> QED
    BY <2>1, <2>2
<1> QED
  BY <1>1, FailuresLoggedFirst, TypeCorrect, PTL

-----------------------------------------------------------------------------
(* Logged ends have grounds. *)

\* The grounds for an end are not taken back.
LEMMA GroundsKept ==
  ASSUME TypeOK, TypeOK', NEW j \in Jobs, jira[j] \subseteq jira'[j],
         audit'[<<j, Failed>>] \in {audit[<<j, Failed>>], audit[<<j, Failed>>] + 1}
  PROVE  (Applied(j) => Applied(j)') /\ (GivenUp(j) => GivenUp(j)')
<1>1. Applied(j) => Applied(j)'
  BY DEF Applied
<1>2. /\ audit[<<j, Failed>>] \in Nat /\ audit'[<<j, Failed>>] \in Nat
      /\ MaxAttempts \in Nat
  <2>1. <<j, Failed>> \in Entries
    BY JobEntries
  <2> QED
    BY <2>1, WorkerAssumption DEF TypeOK
<1>3. GivenUp(j) => GivenUp(j)'
  <2>1. CASE jira[j] \cap NonRetryable # {}
    BY <2>1 DEF GivenUp
  <2>2. CASE audit[<<j, Failed>>] >= MaxAttempts
    <3>1. audit'[<<j, Failed>>] >= MaxAttempts
      BY <1>2, <2>2
    <3> QED
      BY <3>1 DEF GivenUp, Logged, Failed
  <2> QED
    BY <2>1, <2>2 DEF GivenUp, Logged, Failed
<1> QED
  BY <1>1, <1>3

\* A step that logs no end and starts no goroutine that would log one.
LEMMA TruthKept ==
  ASSUME TypeOK, TypeOK', AuditIsTruthful, EndHasGrounds,
         \A j \in Jobs : /\ jira[j] \subseteq jira'[j]
                         /\ audit'[<<j, Failed>>] \in
                              {audit[<<j, Failed>>], audit[<<j, Failed>>] + 1}
                         /\ audit'[<<j, Success>>] = audit[<<j, Success>>]
                         /\ audit'[<<j, Death>>] = audit[<<j, Death>>],
         \A i \in Instances, s \in Slots :
           slot'[i][s].pc = "record" => slot'[i][s] = slot[i][s]
  PROVE  AuditIsTruthful' /\ EndHasGrounds'
<1>1. \A j \in Jobs : (Applied(j) => Applied(j)') /\ (GivenUp(j) => GivenUp(j)')
  BY GroundsKept
<1>2. AuditIsTruthful'
  BY <1>1 DEF AuditIsTruthful, Logged, Success, Death
<1>3. EndHasGrounds'
  <2> SUFFICES ASSUME NEW i \in Instances, NEW s \in Slots, slot'[i][s].pc = "record"
               PROVE  IF slot'[i][s].err = "none" THEN Applied(slot[i][s].job)'
                                                  ELSE GivenUp(slot[i][s].job)'
    BY DEF EndHasGrounds
  <2>1. slot'[i][s] = slot[i][s]
    OBVIOUS
  <2>2. PICK j \in Jobs : slot[i][s].job = j
    BY <2>1 DEF TypeOK, SlotState, Idle
  <2>3. IF slot[i][s].err = "none" THEN Applied(j) ELSE GivenUp(j)
    BY <2>1, <2>2 DEF EndHasGrounds
  <2> QED
    BY <1>1, <2>1, <2>2, <2>3 DEF Applied, GivenUp, Logged
<1> QED
  BY <1>2, <1>3

\* A goroutine marks with grounds for the end that it then logs.
LEMMA MarkHasGrounds ==
  ASSUME TypeOK, EndsInv, FailureLoggedFirst, NEW i \in Instances, NEW s \in Slots,
         slot[i][s].pc = "mark", Verdict(slot[i][s]) # "failed"
  PROVE  IF slot[i][s].err = "none" THEN Applied(slot[i][s].job)
                                    ELSE GivenUp(slot[i][s].job)
<1> DEFINE w == slot[i][s]
<1>1. Working(i, s)
  BY DEF Working
<1>2. w.job \in Jobs /\ w.attempts \in Nat
  BY <1>1, WorkingSlot
<1>3. Knows(w)
  BY <1>1 DEF EndsInv, KnowsJira
<1>4. CASE w.err = "none"
  BY <1>3, <1>4 DEF Knows, Applied
<1>5. CASE w.err = "permanent"
  BY <1>3, <1>5 DEF Knows, GivenUp
<1>6. CASE w.err # "none" /\ w.err # "permanent"
  <2>1. w.attempts + 1 >= MaxAttempts
    BY <1>6 DEF Verdict
  <2>2. /\ IsFiniteSet(Counting(w.job))
        /\ jobs[w.job].attempts + Cardinality(Counting(w.job)) <= audit[<<w.job, Failed>>]
    BY <1>2 DEF FailureLoggedFirst, Logged, Failed
  <2>3. <<i, s>> \in Counting(w.job)
    BY <1>6 DEF Counting
  <2>4. Cardinality(Counting(w.job)) \in Nat /\ Cardinality(Counting(w.job)) # 0
    BY <2>2, <2>3, FS_CardinalityType, FS_EmptySet
  <2>5. /\ jobs[w.job].attempts \in Nat /\ audit[<<w.job, Failed>>] \in Nat
        /\ MaxAttempts \in Nat
    BY <1>2, JobEntries, WorkerAssumption DEF TypeOK, Row
  <2>6. w.attempts <= jobs[w.job].attempts
    BY <1>3 DEF Knows
  <2>7. audit[<<w.job, Failed>>] >= MaxAttempts
    BY <1>2, <2>1, <2>2, <2>4, <2>5, <2>6
  <2> QED
    BY <1>6, <2>7 DEF GivenUp, Logged, Failed
<1> QED
  BY <1>4, <1>5, <1>6

LEMMA TruthProcess ==
  ASSUME TypeOK, TypeOK', EndsInv, FailureLoggedFirst, AuditIsTruthful, EndHasGrounds,
         NEW i \in Instances, NEW s \in Slots, ProcessStep(i, s)
  PROVE  AuditIsTruthful' /\ EndHasGrounds'
<1> DEFINE w == slot[i][s]
<1>1. \A k \in Instances, t \in Slots : ~(k = i /\ t = s) => slot'[k][t] = slot[k][t]
  BY DEF ProcessStep, Execute, Report, Mark, Record, TypeOK
<1>2. w \in SlotState /\ w.pc # "idle" /\ w.job \in Jobs
  BY DEF ProcessStep, Execute, Report, Mark, Record, TypeOK, SlotState, Idle
<1>3. CASE Execute(i, s)
  <2>1. slot'[i][s].pc # "record" /\ UNCHANGED audit
    BY <1>3 DEF Execute, GoesOn, TypeOK
  <2>2. \A j \in Jobs : jira[j] \subseteq jira'[j]
    BY <1>3 DEF Execute, TypeOK
  <2> QED
    BY <1>1, <2>1, <2>2, TruthKept
<1>4. CASE Report(i, s)
  <2>1. slot'[i][s].pc # "record" /\ UNCHANGED jira
    BY <1>4 DEF Report, GoesOn, TypeOK
  <2>2. Audited(<<w.job, Failed>>)
    BY <1>4 DEF Report, Failed
  <2>3. \A j \in Jobs : /\ audit'[<<j, Success>>] = audit[<<j, Success>>]
                        /\ audit'[<<j, Death>>] = audit[<<j, Death>>]
    BY <1>2, <2>2, JobLogged DEF Failed, Success, Death
  <2>4. \A j \in Jobs :
          audit'[<<j, Failed>>] \in {audit[<<j, Failed>>], audit[<<j, Failed>>] + 1}
    BY <1>2, <2>2, JobLogged
  <2> QED
    BY <1>1, <2>1, <2>3, <2>4, TruthKept
<1>5. CASE Mark(i, s)
  <2>1. /\ w.pc = "mark" /\ UNCHANGED <<audit, jira>>
        /\ slot'[i][s] = IF Verdict(w) = "failed" THEN Idle ELSE GoesOn(w, "record", w.err)
    BY <1>5 DEF Mark, TypeOK
  <2>2. AuditIsTruthful'
    BY <2>1 DEF AuditIsTruthful, Logged, Applied, GivenUp
  <2>3. EndHasGrounds'
    <3> SUFFICES ASSUME NEW k \in Instances, NEW t \in Slots, slot'[k][t].pc = "record"
                 PROVE  IF slot'[k][t].err = "none" THEN Applied(slot[k][t].job)'
                                                    ELSE GivenUp(slot[k][t].job)'
      BY DEF EndHasGrounds
    <3>1. CASE k = i /\ t = s
      <4>1. /\ Verdict(w) # "failed"
            /\ slot'[k][t].job = w.job /\ slot'[k][t].err = w.err
        BY <2>1, <3>1 DEF GoesOn, Idle
      <4>2. IF w.err = "none" THEN Applied(w.job) ELSE GivenUp(w.job)
        BY <2>1, <4>1, MarkHasGrounds
      <4> QED
        BY <2>1, <4>1, <4>2 DEF Applied, GivenUp, Logged
    <3>2. CASE ~(k = i /\ t = s)
      <4>1. slot'[k][t] = slot[k][t]
        BY <1>1, <3>2
      <4> QED
        BY <2>1, <4>1 DEF EndHasGrounds, Applied, GivenUp, Logged
    <3> QED
      BY <3>1, <3>2
  <2> QED
    BY <2>2, <2>3
<1>6. CASE Record(i, s)
  <2> DEFINE end == IF w.err = "none" THEN Success ELSE Death
  <2>1. /\ w.pc = "record" /\ UNCHANGED jira /\ slot'[i][s] = Idle
    BY <1>6 DEF Record, TypeOK
  <2>2. Audited(<<w.job, end>>)
    BY <1>6 DEF Record, Verdict, Success, Death
  <2>3. IF w.err = "none" THEN Applied(w.job) ELSE GivenUp(w.job)
    BY <2>1 DEF EndHasGrounds
  <2>4. end \in {Failed, Success, Death} /\ end # Failed
    BY DEF Failed, Success, Death
  <2>5. /\ end = Success => w.err = "none"
        /\ end = Death => w.err # "none"
    BY DEF Success, Death
  <2> HIDE DEF end
  <2>6. \A k \in Jobs, b \in {Failed, Success, Death} :
          <<k, b>> # <<w.job, end>> => audit'[<<k, b>>] = audit[<<k, b>>]
    BY <1>2, <2>2, <2>4, JobLogged
  <2>7. \A j \in Jobs : audit'[<<j, Failed>>] = audit[<<j, Failed>>]
    <3>1. \A j \in Jobs : <<j, Failed>> # <<w.job, end>>
      BY <2>4
    <3> QED
      BY <2>6, <3>1
  <2>8. \A j \in Jobs : (Applied(j) <=> Applied(j)') /\ (GivenUp(j) <=> GivenUp(j)')
    BY <2>1, <2>7 DEF Applied, GivenUp, Logged, Failed
  <2>9. AuditIsTruthful'
    <3> SUFFICES ASSUME NEW j \in Jobs
                 PROVE  /\ audit'[<<j, Success>>] > 0 => Applied(j)'
                        /\ audit'[<<j, Death>>] > 0 => GivenUp(j)'
      BY DEF AuditIsTruthful, Logged, Success, Death
    <3>1. /\ audit[<<j, Success>>] > 0 => Applied(j)
          /\ audit[<<j, Death>>] > 0 => GivenUp(j)
      BY DEF AuditIsTruthful, Logged, Success, Death
    <3>2. audit'[<<j, Success>>] > 0 => Applied(j)
      <4>1. CASE <<j, Success>> = <<w.job, end>>
        BY <2>3, <2>5, <4>1
      <4>2. CASE <<j, Success>> # <<w.job, end>>
        BY <2>6, <3>1, <4>2
      <4> QED
        BY <4>1, <4>2
    <3>3. audit'[<<j, Death>>] > 0 => GivenUp(j)
      <4>1. CASE <<j, Death>> = <<w.job, end>>
        BY <2>3, <2>5, <4>1
      <4>2. CASE <<j, Death>> # <<w.job, end>>
        BY <2>6, <3>1, <4>2
      <4> QED
        BY <4>1, <4>2
    <3> QED
      BY <2>8, <3>2, <3>3
  <2>10. EndHasGrounds'
    <3> SUFFICES ASSUME NEW k \in Instances, NEW t \in Slots, slot'[k][t].pc = "record"
                 PROVE  IF slot'[k][t].err = "none" THEN Applied(slot[k][t].job)'
                                                    ELSE GivenUp(slot[k][t].job)'
      BY DEF EndHasGrounds
    <3>1. slot'[k][t] = slot[k][t]
      BY <1>1, <2>1 DEF Idle
    <3>2. PICK j \in Jobs : slot[k][t].job = j
      <4>1. slot[k][t] \in SlotState /\ slot[k][t].pc = "record"
        BY <3>1 DEF TypeOK
      <4> QED
        BY <4>1 DEF SlotState, Idle
    <3>3. IF slot[k][t].err = "none" THEN Applied(j) ELSE GivenUp(j)
      BY <3>1, <3>2 DEF EndHasGrounds
    <3> QED
      BY <2>1, <2>7, <3>1, <3>2, <3>3 DEF Applied, GivenUp, Logged, Failed
  <2> QED
    BY <2>9, <2>10
<1> QED
  BY <1>3, <1>4, <1>5, <1>6 DEF ProcessStep

LEMMA TruthNext ==
  ASSUME TypeOK, TypeOK', EndsInv, FailureLoggedFirst, AuditIsTruthful, EndHasGrounds,
         [Next]_vars
  PROVE  AuditIsTruthful' /\ EndHasGrounds'
<1>1. ASSUME NEW i \in Instances, NEW j \in Jobs, Enqueue(i, j)
      PROVE  AuditIsTruthful' /\ EndHasGrounds'
  BY <1>1, TruthKept DEF Enqueue
<1>2. ASSUME NEW i \in Instances, RunStep(i)
      PROVE  AuditIsTruthful' /\ EndHasGrounds'
  <2>1. UNCHANGED <<audit, jira>>
    BY <1>2 DEF RunStep, DequeueSelect, DequeueCommit, DequeueError, Dispatch, Return
  <2>2. \A k \in Instances, t \in Slots :
          slot'[k][t] = slot[k][t] \/ slot'[k][t].pc = "exec"
    BY <1>2 DEF RunStep, DequeueSelect, DequeueCommit, DequeueError, Dispatch, Return, TypeOK
  <2> QED
    BY <2>1, <2>2, TruthKept
<1>3. ASSUME NEW i \in Instances, Reconcile(i)
      PROVE  AuditIsTruthful' /\ EndHasGrounds'
  <2>1. JobsUnlogged /\ UNCHANGED <<jira, slot>>
    BY <1>3, ResetLogged DEF Reconcile
  <2> QED
    BY <2>1, TruthKept DEF JobsUnlogged
<1>4. ASSUME NEW i \in Instances, Signal(i) \/ Start(i)
      PROVE  AuditIsTruthful' /\ EndHasGrounds'
  BY <1>4, TruthKept DEF Signal, Start
<1>5. ASSUME NEW i \in Instances, Stop(i)
      PROVE  AuditIsTruthful' /\ EndHasGrounds'
  <2>1. UNCHANGED <<audit, jira>>
    BY <1>5 DEF Stop
  <2>2. \A k \in Instances, t \in Slots : slot'[k][t] = slot[k][t] \/ slot'[k][t] = Idle
    BY <1>5 DEF Stop, TypeOK
  <2> QED
    BY <2>1, <2>2, TruthKept DEF Idle
<1>6. CASE Tick
  <2>1. UNCHANGED <<audit, jira>>
    BY <1>6 DEF Tick
  <2>2. \A k \in Instances, t \in Slots :
          slot'[k][t].pc = "record" => slot'[k][t] = slot[k][t]
    BY <1>6 DEF Tick, Older, Working
  <2> QED
    BY <2>1, <2>2, TruthKept
<1>7. CASE UNCHANGED vars
  BY <1>7, TruthKept DEF vars
<1> QED
  BY <1>1, <1>2, <1>3, <1>4, <1>5, <1>6, <1>7, TruthProcess DEF Next, Crash, Exit

\* An end that the audit log records has its grounds, whether or not the row ever got
\* that end: no assumption on timeouts, clocks or failing Marks, only on the INSERTs.
THEOREM LoggedEndsHaveGrounds ==
  ASSUME ~AuditLossy
  PROVE  Spec => []AuditIsTruthful
<1>1. Init => EndsInv /\ AuditIsTruthful /\ EndHasGrounds
  <2>1. Init => AuditIsTruthful
    <3> SUFFICES ASSUME Init, NEW j \in Jobs
                 PROVE  /\ audit[<<j, Success>>] > 0 => Applied(j)
                        /\ audit[<<j, Death>>] > 0 => GivenUp(j)
      BY DEF AuditIsTruthful, Logged, Success, Death
    <3>1. <<j, Success>> \in Entries /\ <<j, Death>> \in Entries
      BY JobEntries
    <3>2. audit[<<j, Success>>] = 0 /\ audit[<<j, Death>>] = 0
      BY <3>1 DEF Init
    <3> QED
      BY <3>2
  <2> QED
    BY <2>1, EndsInit DEF Init, EndHasGrounds, Idle
<1>2. TypeOK /\ TypeOK' /\ EndsInv /\ [Next]_vars => EndsInv'
  BY EndsNext
<1>3. TypeOK /\ TypeOK' /\ EndsInv /\ FailureLoggedFirst /\ AuditIsTruthful
        /\ EndHasGrounds /\ [Next]_vars => AuditIsTruthful' /\ EndHasGrounds'
  BY TruthNext
<1> QED
  BY <1>1, <1>2, <1>3, FailuresLoggedFirst, TypeCorrect, PTL DEF Spec

-----------------------------------------------------------------------------
(* Logged ends are the ends of the rows, undisrupted. *)

\* The step logs no end of a job.
EndsUnlogged ==
  \A j \in Jobs : /\ audit'[<<j, Success>>] = audit[<<j, Success>>]
                  /\ audit'[<<j, Death>>] = audit[<<j, Death>>]

\* A step that logs no end and starts no goroutine that would, undisrupted.
LEMMA LoggedEndsKept ==
  ASSUME TypeOK, ClaimInv, [Next]_vars, disruptions = 0,
         RowEndedFirst, AuditedEndIsReal, ctxDone' = ctxDone,
         EndsUnlogged,
         \A i \in Instances, s \in Slots :
           slot'[i][s].pc = "record" => slot'[i][s] = slot[i][s]
  PROVE  RowEndedFirst' /\ AuditedEndIsReal'
<1>1. ASSUME NEW j \in Jobs, jobs[j].status \in Terminal
      PROVE  jobs'[j] = jobs[j]
  BY <1>1, TerminalStays
<1>2. AuditedEndIsReal'
  <2> SUFFICES ASSUME NEW j \in Jobs
               PROVE  /\ audit'[<<j, Success>>] > 0 => jobs'[j].status = "completed"
                      /\ audit'[<<j, Death>>] > 0 => jobs'[j].status = "dead"
    BY DEF AuditedEndIsReal, Logged, Success, Death
  <2>1. /\ audit[<<j, Success>>] > 0 => jobs[j].status = "completed"
        /\ audit[<<j, Death>>] > 0 => jobs[j].status = "dead"
    BY DEF AuditedEndIsReal, Logged, Success, Death
  <2>2. /\ audit'[<<j, Success>>] = audit[<<j, Success>>]
        /\ audit'[<<j, Death>>] = audit[<<j, Death>>]
    BY DEF EndsUnlogged
  <2> QED
    BY <1>1, <2>1, <2>2 DEF Terminal
<1>3. ASSUME NEW i \in Instances, NEW s \in Slots, slot'[i][s].pc = "record"
      PROVE  /\ Verdict(slot'[i][s]) \in Terminal
             /\ jobs'[slot'[i][s].job].status = Verdict(slot'[i][s])
  <2>1. slot'[i][s] = slot[i][s] /\ slot[i][s].pc = "record"
    BY <1>3
  <2>2. slot[i][s].job \in Jobs
    BY <2>1 DEF TypeOK, SlotState, Idle
  <2>3. Verdict(slot[i][s]) \in Terminal /\ jobs[slot[i][s].job].status = Verdict(slot[i][s])
    BY <2>1 DEF RowEndedFirst
  <2> QED
    BY <1>1, <2>1, <2>2, <2>3
<1>4. RowEndedFirst'
  BY <1>3 DEF RowEndedFirst
<1> QED
  BY <1>2, <1>4

\* Disruptions are never taken back.
LEMMA CalmBefore ==
  ASSUME TypeOK, [Next]_vars, disruptions' = 0
  PROVE  disruptions = 0 /\ ~Disrupt
<1>1. disruptions \in Nat
  BY WorkerAssumption DEF TypeOK
<1>2. Disrupt \/ Calm
  <2>1. ASSUME NEW i \in Instances, RunStep(i)
        PROVE  Disrupt \/ Calm
    BY <2>1 DEF RunStep, DequeueSelect, DequeueCommit, DequeueError, Dispatch, Return, Calm
  <2>2. ASSUME NEW i \in Instances, NEW s \in Slots, ProcessStep(i, s)
        PROVE  Disrupt \/ Calm
    BY <2>2 DEF ProcessStep, Execute, Report, Mark, Record, Audited, Calm
  <2>3. ASSUME NEW i \in Instances, Reconcile(i) \/ Signal(i) \/ Crash(i) \/ Exit(i) \/ Start(i)
        PROVE  Disrupt \/ Calm
    BY <2>3 DEF Reconcile, Audited, Signal, Crash, Exit, Start, Calm
  <2>4. ASSUME NEW i \in Instances, NEW j \in Jobs, Enqueue(i, j)
        PROVE  Disrupt \/ Calm
    BY <2>4 DEF Enqueue, Calm
  <2>5. CASE Tick \/ UNCHANGED vars
    BY <2>5 DEF Tick, vars, Calm
  <2> QED
    BY <2>1, <2>2, <2>3, <2>4, <2>5 DEF Next
<1> QED
  BY <1>1, <1>2 DEF Disrupt, Calm

LEMMA EndsProcessed ==
  ASSUME TypeOK, ClaimInv, disruptions = 0, ~Disrupt, RowEndedFirst, AuditedEndIsReal,
         NEW i \in Instances, NEW s \in Slots, ProcessStep(i, s)
  PROVE  RowEndedFirst' /\ AuditedEndIsReal'
<1> DEFINE w == slot[i][s]
<1>1. \A k \in Instances, t \in Slots : ~(k = i /\ t = s) => slot'[k][t] = slot[k][t]
  BY DEF ProcessStep, Execute, Report, Mark, Record, TypeOK
<1>2. [Next]_vars
  BY DEF Next
<1>3. w \in SlotState /\ UNCHANGED ctxDone /\ ~ctxDone[i]
  BY DEF TypeOK, ProcessStep, Execute, Report, Mark, Record, RowEndedFirst
<1>4. CASE Execute(i, s) \/ Report(i, s)
  <2>1. slot'[i][s].pc # "record"
    BY <1>4 DEF Execute, Report, GoesOn, TypeOK
  <2>2. EndsUnlogged
    <3>1. CASE Execute(i, s)
      BY <3>1 DEF Execute, EndsUnlogged
    <3>2. CASE Report(i, s)
      <4>1. w.job \in Jobs /\ Audited(<<w.job, Failed>>)
        BY <3>2, <1>3 DEF Report, SlotState, Idle, Failed
      <4> QED
        BY <4>1, JobLogged DEF EndsUnlogged, Failed, Success, Death
    <3> QED
      BY <1>4, <3>1, <3>2
  <2> QED
    BY <1>1, <1>2, <1>3, <2>1, <2>2, LoggedEndsKept
<1>5. CASE Mark(i, s)
  <2>1. /\ w.pc = "mark" /\ UNCHANGED audit /\ jobs' = Marked(i, w)
        /\ slot'[i][s] = IF Verdict(w) = "failed" THEN Idle ELSE GoesOn(w, "record", w.err)
    BY <1>3, <1>5 DEF Mark, TypeOK
  <2>2. w.job \in Jobs /\ jobs[w.job].status = "running"
    BY <1>5, MarkedJob
  <2>3. \A j \in Jobs : jobs[j].status \in Terminal => jobs'[j] = jobs[j]
    BY <1>2, TerminalStays
  <2>4. AuditedEndIsReal'
    BY <2>1, <2>3 DEF AuditedEndIsReal, Logged, Terminal
  <2>5. Verdict(w) # "failed" => Verdict(w) \in Terminal /\ jobs'[w.job].status = Verdict(w)
    BY <2>1, <2>2 DEF Verdict, Terminal, Marked, MarkCompleted, MarkDead, TypeOK
  <2>6. RowEndedFirst'
    <3> SUFFICES ASSUME NEW k \in Instances, NEW t \in Slots, slot'[k][t].pc = "record"
                 PROVE  /\ Verdict(slot'[k][t]) \in Terminal
                        /\ jobs'[slot'[k][t].job].status = Verdict(slot'[k][t])
      BY <1>3 DEF RowEndedFirst
    <3>1. CASE k = i /\ t = s
      <4>1. Verdict(w) # "failed" /\ slot'[i][s] = GoesOn(w, "record", w.err)
        BY <2>1, <3>1 DEF Idle
      <4>2. Verdict(GoesOn(w, "record", w.err)) = Verdict(w)
        BY DEF Verdict, GoesOn
      <4>3. GoesOn(w, "record", w.err).job = w.job
        BY DEF GoesOn
      <4> QED
        BY <2>5, <3>1, <4>1, <4>2, <4>3
    <3>2. CASE ~(k = i /\ t = s)
      <4>1. slot'[k][t] = slot[k][t]
        BY <1>1, <3>2
      <4>2. slot[k][t].job \in Jobs
        BY <4>1 DEF TypeOK, SlotState, Idle
      <4> QED
        BY <2>3, <4>1, <4>2 DEF RowEndedFirst
    <3> QED
      BY <3>1, <3>2
  <2> QED
    BY <2>4, <2>6
<1>6. CASE Record(i, s)
  <2> DEFINE end == IF Verdict(w) = "completed" THEN Success ELSE Death
  <2>1. /\ w.pc = "record" /\ UNCHANGED jobs /\ slot'[i][s] = Idle
        /\ Audited(<<w.job, end>>)
    BY <1>6 DEF Record, TypeOK, Success, Death
  <2>2. Verdict(w) \in Terminal /\ jobs[w.job].status = Verdict(w)
    BY <2>1 DEF RowEndedFirst
  <2>3. AuditedEndIsReal'
    <3>1. w.job \in Jobs /\ end \in {Failed, Success, Death}
      BY <1>3, <2>1 DEF SlotState, Idle
    <3>2. /\ end = Success => jobs[w.job].status = "completed"
          /\ end = Death => jobs[w.job].status = "dead"
      BY <2>2 DEF Success, Death, Terminal
    <3> HIDE DEF end
    <3>3. \A k \in Jobs, b \in {Failed, Success, Death} :
            <<k, b>> # <<w.job, end>> => audit'[<<k, b>>] = audit[<<k, b>>]
      BY <2>1, <3>1, JobLogged
    <3> SUFFICES ASSUME NEW j \in Jobs
                 PROVE  /\ audit'[<<j, Success>>] > 0 => jobs[j].status = "completed"
                        /\ audit'[<<j, Death>>] > 0 => jobs[j].status = "dead"
      BY <2>1 DEF AuditedEndIsReal, Logged, Success, Death
    <3>4. /\ audit[<<j, Success>>] > 0 => jobs[j].status = "completed"
          /\ audit[<<j, Death>>] > 0 => jobs[j].status = "dead"
      BY DEF AuditedEndIsReal, Logged, Success, Death
    <3>5. \/ <<j, Success>> = <<w.job, end>>
          \/ audit'[<<j, Success>>] = audit[<<j, Success>>]
      BY <3>3
    <3>6. \/ <<j, Death>> = <<w.job, end>>
          \/ audit'[<<j, Death>>] = audit[<<j, Death>>]
      BY <3>3
    <3> QED
      BY <3>2, <3>4, <3>5, <3>6
  <2>4. RowEndedFirst'
    BY <1>1, <1>3, <2>1 DEF RowEndedFirst, Idle
  <2> QED
    BY <2>3, <2>4
<1> QED
  BY <1>4, <1>5, <1>6 DEF ProcessStep

LEMMA EndsLogged ==
  ASSUME TypeOK, ClaimInv, RowEndedFirst, AuditedEndIsReal, [Next]_vars
  PROVE  RowEndedFirst' /\ AuditedEndIsReal'
<1> SUFFICES ASSUME disruptions' = 0
             PROVE  RowEndedFirst' /\ AuditedEndIsReal'
  BY DEF RowEndedFirst, AuditedEndIsReal
<1>1. disruptions = 0 /\ ~Disrupt
  BY CalmBefore
<1>2. ASSUME NEW i \in Instances, NEW j \in Jobs, Enqueue(i, j)
      PROVE  RowEndedFirst' /\ AuditedEndIsReal'
  BY <1>1, <1>2, LoggedEndsKept DEF Enqueue, EndsUnlogged
<1>3. ASSUME NEW i \in Instances, RunStep(i)
      PROVE  RowEndedFirst' /\ AuditedEndIsReal'
  <2>1. UNCHANGED <<audit, ctxDone>>
    BY <1>3 DEF RunStep, DequeueSelect, DequeueCommit, DequeueError, Dispatch, Return
  <2>2. \A k \in Instances, t \in Slots :
          slot'[k][t] = slot[k][t] \/ slot'[k][t].pc = "exec"
    BY <1>3 DEF RunStep, DequeueSelect, DequeueCommit, DequeueError, Dispatch, Return, TypeOK
  <2> QED
    BY <1>1, <2>1, <2>2, LoggedEndsKept DEF EndsUnlogged
<1>4. ASSUME NEW i \in Instances, Reconcile(i)
      PROVE  RowEndedFirst' /\ AuditedEndIsReal'
  <2>1. JobsUnlogged /\ UNCHANGED <<slot, ctxDone>>
    BY <1>4, ResetLogged DEF Reconcile
  <2> QED
    BY <1>1, <2>1, LoggedEndsKept DEF JobsUnlogged, EndsUnlogged
<1>5. ASSUME NEW i \in Instances, Signal(i) \/ Crash(i) \/ Exit(i) \/ Start(i)
      PROVE  RowEndedFirst' /\ AuditedEndIsReal'
  <2>1. CASE Signal(i) \/ Crash(i)
    BY <1>1, <2>1 DEF Signal, Crash
  <2>2. CASE Exit(i) \/ Start(i)
    <3>1. ctxDone \in [Instances -> BOOLEAN] /\ ~ctxDone[i]
      BY <1>1 DEF RowEndedFirst, TypeOK
    <3>2. ctxDone' = ctxDone \/ ctxDone' = [ctxDone EXCEPT ![i] = FALSE]
      BY <2>2 DEF Exit, Start, Stop
    <3>3. audit' = audit /\ ctxDone' = ctxDone
      BY <2>2, <3>1, <3>2 DEF Exit, Start, Stop
    <3>4. \A k \in Instances, t \in Slots : slot'[k][t] = slot[k][t] \/ slot'[k][t] = Idle
      BY <2>2 DEF Exit, Start, Stop, TypeOK
    <3> QED
      BY <1>1, <3>3, <3>4, LoggedEndsKept DEF Idle, EndsUnlogged
  <2> QED
    BY <1>5, <2>1, <2>2
<1>6. CASE Tick
  <2>1. \A k \in Instances, t \in Slots :
          slot'[k][t].pc = "record" => slot'[k][t] = slot[k][t]
    BY <1>6 DEF Tick, Older, Working
  <2> QED
    BY <1>1, <1>6, <2>1, LoggedEndsKept DEF Tick, EndsUnlogged
<1>7. CASE UNCHANGED vars
  BY <1>1, <1>7, LoggedEndsKept DEF vars, EndsUnlogged
<1> QED
  BY <1>1, <1>2, <1>3, <1>4, <1>5, <1>6, <1>7, EndsProcessed DEF Next

\* As long as nothing disrupts the service, the end that the audit log records of a
\* job is the end of its row, provided the stuck timeout covers the longest claim.
THEOREM LoggedEndsAreReal ==
  ASSUME WellProvisioned
  PROVE  Spec => []AuditedEndIsReal
<1>1. Init => RowEndedFirst /\ AuditedEndIsReal
  <2> SUFFICES ASSUME Init
               PROVE  RowEndedFirst /\ AuditedEndIsReal
    OBVIOUS
  <2>1. RowEndedFirst
    BY DEF Init, RowEndedFirst, Idle
  <2>2. ASSUME NEW j \in Jobs
        PROVE  audit[<<j, Success>>] = 0 /\ audit[<<j, Death>>] = 0
    <3>1. <<j, Success>> \in Entries /\ <<j, Death>> \in Entries
      BY JobEntries
    <3> QED
      BY <3>1 DEF Init
  <2>3. AuditedEndIsReal
    <3> SUFFICES ASSUME NEW j \in Jobs
                 PROVE  /\ audit[<<j, Success>>] > 0 => jobs[j].status = "completed"
                        /\ audit[<<j, Death>>] > 0 => jobs[j].status = "dead"
      BY DEF AuditedEndIsReal, Logged, Success, Death
    <3> QED
      BY <2>2
  <2> QED
    BY <2>1, <2>3
<1>2. TypeOK /\ ClaimInv /\ RowEndedFirst /\ AuditedEndIsReal /\ [Next]_vars
        => RowEndedFirst' /\ AuditedEndIsReal'
  BY EndsLogged
<1> QED
  BY <1>1, <1>2, ClaimsHold, PTL DEF Spec
=============================================================================
