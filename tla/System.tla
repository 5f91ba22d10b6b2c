------------------------------- MODULE System -------------------------------
(***************************************************************************)
(* The whole service: glsync instances on one database, each with an HTTP  *)
(* server whose handlers are those of Webhook and with the processor and   *)
(* the reconciler of Worker.  The two sides share the jobs table, and a    *)
(* process: what a handler inserts a processor of any instance may claim   *)
(* at once, and a crash or an exit ends both sides of its instance.        *)
(*                                                                         *)
(* What GitLab sends as each delivery is fixed in Sent.                    *)
(***************************************************************************)
EXTENDS Integers, FiniteSets

CONSTANTS Deliveries, Sent, MaxFaults,                          \* of Webhook
          Matches, Upper, NoText, DevelopBranch, MasterBranch, DoneEmoji, ZeroSHA,
          Instances, NoJob, Lag, MaxAge, Concurrency, MaxAttempts, Backoff, \* of Worker
          StuckJobTimeout, ReconcileEnabled, Skew, MaxHold, MaxDisruptions,
          AuditLossy, Configured, DueDateComputable, JiraCodes,
          NoInstance,
          Routes        \* the instances that each delivery may be sent to

VARIABLES pc, event, payload, todo, answer, cancelled, events, faults,
          jobs, loop, ctxDone, batch, batchAge, slot, jira, audit, disruptions,
          host          \* the instance that handles each delivery, while it does

GL == INSTANCE GitLab

Received(r) == GL!Parse(Sent[r])

\* The jobs there may be: one for each place of a delivery that asks for a move.
Jobs ==
  UNION {{<<r, n>> : n \in GL!Places(Received(r))} :
           r \in {d \in Deliveries : GL!Actionable(Received(d))}}

\* NewJob copies the target state into the row.
Target == [j \in Jobs |-> GL!TargetState(Received(j[1]))]

\* Each side is instantiated with its proofs, so that its theorems hold here.
W == INSTANCE AuditProofs

\* The handlers see of the table which rows are in it.
Rows == {j \in Jobs : jobs[j].status # "absent"}

H == INSTANCE WebhookProofs WITH Payloads <- {Sent[r] : r \in Deliveries}, jobs <- Rows

ASSUME SystemAssumption ==
  /\ H!GitLabAssumption /\ H!WebhookAssumption
  /\ W!TableAssumption /\ W!ExecutorAssumption /\ W!WorkerAssumption
  /\ Routes \in [Deliveries -> SUBSET Instances]

handlers == <<pc, event, payload, todo, answer, cancelled, events, faults>>
workers  == <<jobs, loop, ctxDone, batch, batchAge, slot, jira, audit, disruptions>>
vars     == <<handlers, workers, host>>

Init == W!Init /\ H!Init /\ host = [r \in Deliveries |-> NoInstance]

-----------------------------------------------------------------------------
\* The handlers that are done have no host.
Housed(hosts) ==
  host' = [r \in Deliveries |-> IF pc'[r] \in {"new", "done"} THEN NoInstance ELSE hosts[r]]

\* Instance i gets a delivery; its listener is open at most until it is down.
Receive(i, r) ==
  /\ i \in Routes[r] /\ loop[i] # "down"
  /\ UNCHANGED workers
  /\ H!Refuse(r) \/ H!Receive(r, Sent[r])
  /\ Housed([host EXCEPT ![r] = i])

Handle(r) ==
  /\ UNCHANGED workers
  /\ \/ H!Check(r) \/ H!Insert(r) \/ H!StatementError(r) \/ H!Plugins(r)
     \/ H!Respond(r)
  /\ Housed(host)

Disconnect(r) == UNCHANGED <<workers, host>> /\ H!Disconnect(r)

\* The INSERT of a handler is the row the processors see; or it fails.
Enqueue(r) ==
  \E n \in todo[r] :
    /\ W!Enqueue(host[r], <<r, n>>) \/ UNCHANGED workers
    /\ H!Enqueue(r, n)
    /\ UNCHANGED host

-----------------------------------------------------------------------------
Work(i) ==
  /\ \/ W!RunStep(i)
     \/ \E s \in W!Slots : W!ProcessStep(i, s)
     \/ W!Reconcile(i) \/ W!Signal(i) \/ W!Start(i)
  /\ UNCHANGED <<handlers, host>>

Tick == W!Tick /\ UNCHANGED <<handlers, host>>

\* The handlers of instance i end with it.
Cut(i) ==
  LET S == {r \in H!InFlight : host[r] = i}
  IN  \/ S = {} /\ UNCHANGED <<handlers, host>>
      \/ S # {} /\ H!Killed(S) /\ H!Fault /\ Housed(host)

\* main returns while handlers are in flight only when Shutdown timed out.
End(i) ==
  /\ W!Crash(i) \/ W!Exit(i)
  /\ Cut(i)

-----------------------------------------------------------------------------
Next ==
  \/ \E r \in Deliveries :
       \/ \E i \in Instances : Receive(i, r)
       \/ Handle(r) \/ Disconnect(r) \/ Enqueue(r)
  \/ \E i \in Instances : Work(i) \/ End(i)
  \/ Tick

Spec == Init /\ [][Next]_vars

\* That of Webhook and that of Worker: the Go scheduler runs every goroutine, the
\* tickers keep ticking, a signalled process exits, and one that ended is started again.
Rest == UNCHANGED <<handlers, host>>

Fairness ==
  /\ \A r \in Deliveries : WF_vars(Handle(r) \/ Enqueue(r))
  /\ \A i \in Instances :
       /\ WF_vars(Rest /\ W!RunStep(i)) /\ WF_vars(Rest /\ W!Reconcile(i))
       /\ WF_vars((W!Exit(i) /\ Cut(i)) \/ (Rest /\ W!Start(i)))
       /\ \A s \in W!Slots : WF_vars(Rest /\ W!ProcessStep(i, s))
  /\ WF_vars(Tick)

FairSpec == Spec /\ Fairness

-----------------------------------------------------------------------------
\* Jira is asked to move an issue through at most one job of a webhook, however many
\* instances receive it, race for its row and claim its jobs.
OneMovePerWebhook ==
  \A x, y \in Jobs :
    /\ jira[x] # {} /\ jira[y] # {}
    /\ event[x[1]].key = event[y[1]].key /\ H!IssueOf(x) = H!IssueOf(y)
    => x = y

\* The two sides together, seen without handlers and workers, are the service that
\* Service promises: what is enqueued once is claimed by one at a time, ends as it
\* should, and the row that a handler inserts is the job that the workers find.
Promised ==
  INSTANCE Service WITH
    Keys   <- {H!Parse(Sent[r]).key : r \in Deliveries},
    Issues <- {Upper[s] : s \in DOMAIN Upper},
    stored <- H!StoredKeys, queue <- H!QueuedJobs, told <- H!ToldTaken,
    status   <- [j \in Jobs |-> jobs[j].status],
    attempts <- [j \in Jobs |-> jobs[j].attempts]
ServiceSpec == Promised!Spec

\* A webhook that GitLab was told is taken moves each of its issues, or a job for it
\* is dead: through crashes of either side, shutdowns, restarts and redeliveries.
\* The one way out is a stored webhook that lost a job before its handler was done.
TakenIsSettled ==
  \A r \in Deliveries :
    answer[r] \in H!Taken ~>
      \/ \A n \in H!Places(event[r]) :
           \E x \in Jobs :
             /\ jobs[x].status \in W!Terminal
             /\ event[x[1]].key = event[r].key
             /\ H!IssueOf(x) = H!IssueKeysFromEvent(event[r])[n]
      \/ ~H!OneRowPerKey
=============================================================================
