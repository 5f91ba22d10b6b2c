---------------------------- MODULE SystemProofs ----------------------------
(***************************************************************************)
(* Theorems about System: the whole service is an execution of Worker and, *)
(* seen through the rows of its table, one of Webhook, so that what is     *)
(* proved of either holds of the service; Jira is asked only for rows of   *)
(* the table; and the two sides together implement Service.                *)
(***************************************************************************)
EXTENDS System, TLAPS

\* GitLab is instantiated twice, by the service and within Webhook.
LEMMA OneGitLab ==
  ASSUME NEW p, NEW e
  PROVE  /\ GL!Parse(p) = H!Parse(p) /\ GL!Places(e) = H!Places(e)
         /\ GL!Actionable(e) = H!Actionable(e)
<1>1. GL!Parse(p) = H!Parse(p)
  BY DEF GL!Parse, H!Parse, GL!ParsePush, H!ParsePush, GL!ParseMR, H!ParseMR,
         GL!ParseEmoji, H!ParseEmoji, GL!Event, H!Event, GL!ClassifyMR, H!ClassifyMR,
         GL!Unrecognized, H!Unrecognized
<1>2. GL!Places(e) = H!Places(e)
  BY DEF GL!Places, H!Places, GL!IssueKeysFromEvent, H!IssueKeysFromEvent,
         GL!IssueKeys, H!IssueKeys, GL!FirstMentions, H!FirstMentions,
         GL!Mentions, H!Mentions
<1>3. GL!TargetState(e) = H!TargetState(e)
  BY DEF GL!TargetState, H!TargetState, GL!NoState, H!NoState, GL!NotNewBranch,
         H!NotNewBranch, GL!IsNewBranch, H!IsNewBranch, GL!Classify, H!Classify,
         GL!ClassifyMerge, H!ClassifyMerge, GL!ClassifyPush, H!ClassifyPush
<1> QED
  BY <1>1, <1>2, <1>3 DEF GL!Actionable, H!Actionable, GL!NoState, H!NoState

-----------------------------------------------------------------------------
\* A worker holds only rows that were inserted, and Jira was asked only for those.
WorkerDomains ==
  /\ DOMAIN jobs = Jobs /\ DOMAIN jira = Jobs
  /\ DOMAIN batch = Instances /\ DOMAIN slot = Instances
  /\ \A i \in Instances : DOMAIN slot[i] = W!Slots

BatchInserted == \A i \in Instances : \A m \in batch[i] : m.job \in Rows

SlotInserted ==
  \A i \in Instances, s \in W!Slots : W!Working(i, s) => slot[i][s].job \in Rows

JiraInserted == \A j \in Jobs : jira[j] # {} => j \in Rows

WorkersInv == WorkerDomains /\ BatchInserted /\ SlotInserted /\ JiraInserted

\* A handler works on what was sent to it, in an instance, and enqueues only jobs
\* there may be.
HandlerDomains ==
  /\ DOMAIN pc = Deliveries /\ DOMAIN event = Deliveries /\ DOMAIN todo = Deliveries
  /\ DOMAIN host = Deliveries

HandlerInv(r) ==
  /\ pc[r] \notin {"new", "done"} => event[r] = Received(r) /\ host[r] \in Instances
  /\ pc[r] \in {"insert", "plugins", "enqueue"} => GL!Actionable(Received(r))
  /\ todo[r] # {} => pc[r] = "enqueue" /\ todo[r] \subseteq GL!Places(Received(r))

HandlersInv == HandlerDomains /\ \A r \in Deliveries : HandlerInv(r)

Inv == WorkersInv /\ HandlersInv

LEMMA InvInit == Init => Inv
<1> SUFFICES ASSUME Init
             PROVE  Inv
  OBVIOUS
<1>1. WorkersInv
  BY DEF Init, W!Init, WorkersInv, WorkerDomains, BatchInserted, SlotInserted,
         JiraInserted, W!Working, W!Idle
<1>2. HandlersInv
  BY DEF Init, H!Init, HandlersInv, HandlerDomains, HandlerInv
<1> QED
  BY <1>1, <1>2 DEF Inv

-----------------------------------------------------------------------------
\* A handler that enqueues is in an instance, and its next row is a job.
LEMMA NextRowIsJob ==
  ASSUME Inv, NEW r \in Deliveries, NEW n \in todo[r]
  PROVE  <<r, n>> \in Jobs /\ host[r] \in Instances
BY DEF Inv, HandlersInv, HandlerInv, Jobs

\* Every step is one of Worker, or leaves its variables alone.
LEMMA StepOfWorker == Inv /\ [Next]_vars => [W!Next]_(W!vars)
<1> SUFFICES ASSUME Inv, [Next]_vars
             PROVE  [W!Next]_(W!vars)
  OBVIOUS
<1>1. ASSUME NEW r \in Deliveries,
             (\E i \in Instances : Receive(i, r)) \/ Handle(r) \/ Disconnect(r)
      PROVE  UNCHANGED W!vars
  BY <1>1 DEF Receive, Handle, Disconnect, workers, W!vars
<1>2. ASSUME NEW r \in Deliveries, Enqueue(r)
      PROVE  [W!Next]_(W!vars)
  <2>1. PICK n \in todo[r] : W!Enqueue(host[r], <<r, n>>) \/ UNCHANGED workers
    BY <1>2 DEF Enqueue
  <2> QED
    BY <2>1, NextRowIsJob DEF W!Next, W!vars, workers
<1>3. ASSUME NEW i \in Instances, Work(i)
      PROVE  W!Next
  BY <1>3 DEF Work, W!Next
<1>4. ASSUME NEW i \in Instances, End(i)
      PROVE  W!Next
  BY <1>4 DEF End, W!Next
<1>5. CASE Tick
  BY <1>5 DEF Tick, W!Next
<1>6. CASE UNCHANGED vars
  BY <1>6 DEF vars, workers, W!vars
<1> QED
  BY <1>1, <1>2, <1>3, <1>4, <1>5, <1>6 DEF Next

-----------------------------------------------------------------------------
(* The rows of the table under the steps of the workers. *)

\* Within the same rows, the rest of WorkersInv is a matter of what is held.
LEMMA HeldRows ==
  ASSUME WorkersInv, WorkerDomains', Rows \subseteq Rows',
         \A i \in Instances : \A m \in batch'[i] : m.job \in Rows,
         \A i \in Instances, s \in W!Slots :
           slot'[i][s].pc \in {"exec", "report", "mark"} => slot'[i][s].job \in Rows,
         \A j \in Jobs : jira'[j] # {} => j \in Rows
  PROVE  WorkersInv'
BY DEF WorkersInv, BatchInserted, SlotInserted, JiraInserted, W!Working

LEMMA LoopKeepsRows ==
  ASSUME WorkersInv, NEW i \in Instances, W!RunStep(i)
  PROVE  WorkersInv' /\ Rows' = Rows
<1>1. CASE W!DequeueSelect(i)
  <2>1. PICK S \in SUBSET Jobs :
          /\ W!Selectable(S)
          /\ batch' = [batch EXCEPT ![i] = {W!Snapshot(j) : j \in S}]
    BY <1>1 DEF W!DequeueSelect
  <2>2. S \subseteq Rows
    BY <2>1 DEF W!Selectable, W!Due, W!Waiting, Rows
  <2>3. \A k \in Instances : \A m \in batch'[k] : m.job \in Rows
    BY <2>1, <2>2 DEF W!Snapshot, WorkersInv, WorkerDomains, BatchInserted
  <2>4. Rows' = Rows /\ WorkerDomains'
    BY <1>1, <2>1 DEF W!DequeueSelect, Rows, WorkersInv, WorkerDomains
  <2> QED
    BY <1>1, <2>3, <2>4, HeldRows
       DEF W!DequeueSelect, WorkersInv, SlotInserted, JiraInserted, W!Working
<1>2. CASE W!DequeueCommit(i) \/ W!DequeueError(i)
  <2>1. jobs' \in {jobs, W!Claimed(W!JobsOf(batch[i]), batchAge[i])}
    BY <1>2 DEF W!DequeueCommit, W!DequeueError
  <2>2. W!JobsOf(batch[i]) \subseteq Rows
    BY DEF WorkersInv, BatchInserted, W!JobsOf
  <2>3. Rows' = Rows /\ DOMAIN jobs' = Jobs
    BY <2>1, <2>2 DEF W!Claimed, Rows, WorkersInv, WorkerDomains
  <2>4. /\ WorkerDomains' /\ UNCHANGED <<slot, jira>>
        /\ \A k \in Instances : batch'[k] \subseteq batch[k]
    BY <1>2, <2>3 DEF W!DequeueCommit, W!DequeueError, WorkersInv, WorkerDomains
  <2> QED
    BY <2>3, <2>4, HeldRows
       DEF WorkersInv, BatchInserted, SlotInserted, JiraInserted, W!Working
<1>3. CASE W!Return(i)
  BY <1>3 DEF W!Return, WorkersInv, WorkerDomains, BatchInserted, SlotInserted,
              JiraInserted, W!Working, Rows
<1>4. ASSUME NEW s \in W!Slots, W!Dispatch(i, s)
      PROVE  WorkersInv' /\ Rows' = Rows
  <2>1. PICK m \in batch[i] :
          /\ slot' = [slot EXCEPT ![i][s] =
                        [pc |-> "exec", job |-> m.job, attempts |-> m.attempts,
                         age |-> batchAge[i], err |-> "none"]]
          /\ batch' = [batch EXCEPT ![i] = @ \ {m}]
    BY <1>4 DEF W!Dispatch
  <2>2. Rows' = Rows /\ WorkerDomains' /\ m.job \in Rows /\ UNCHANGED jira
    BY <1>4, <2>1 DEF W!Dispatch, Rows, WorkersInv, WorkerDomains, BatchInserted
  <2>3. \A k \in Instances : batch'[k] \subseteq batch[k]
    BY <2>1 DEF WorkersInv, WorkerDomains
  <2>4. \A k \in Instances, t \in W!Slots :
          slot'[k][t].pc \in {"exec", "report", "mark"} => slot'[k][t].job \in Rows
    BY <2>1, <2>2 DEF WorkersInv, WorkerDomains, SlotInserted, W!Working
  <2> QED
    BY <2>2, <2>3, <2>4, HeldRows DEF WorkersInv, BatchInserted, JiraInserted
<1> QED
  BY <1>1, <1>2, <1>3, <1>4 DEF W!RunStep

LEMMA ProcessKeepsRows ==
  ASSUME WorkersInv, NEW i \in Instances, NEW s \in W!Slots, W!ProcessStep(i, s)
  PROVE  WorkersInv' /\ Rows' = Rows
<1> DEFINE w == slot[i][s]
<1>1. ASSUME UNCHANGED <<batch, jira>>, Rows' = Rows, DOMAIN jobs' = Jobs,
             NEW pcs, NEW err,
             \/ slot' = [slot EXCEPT ![i][s] = W!Idle]
             \/ /\ slot' = [slot EXCEPT ![i][s] = W!GoesOn(w, pcs, err)]
                /\ W!Working(i, s) \/ pcs = "record"
      PROVE  WorkersInv'
  <2>1. WorkerDomains'
    BY <1>1 DEF WorkersInv, WorkerDomains
  <2>2. \A k \in Instances, t \in W!Slots :
          slot'[k][t].pc \in {"exec", "report", "mark"} => slot'[k][t].job \in Rows
    BY <1>1 DEF WorkersInv, WorkerDomains, SlotInserted, W!Working, W!GoesOn, W!Idle
  <2> QED
    BY <1>1, <2>1, <2>2, HeldRows DEF WorkersInv, BatchInserted, JiraInserted
<1>2. CASE W!Execute(i, s)
  <2>1. PICK o \in W!Outcomes(Target[w.job], ctxDone[i]) :
          /\ jira' = [jira EXCEPT ![w.job] = @ \cup ({o.decided} \cap W!Settling)]
          /\ slot' = [slot EXCEPT ![i][s] =
                        W!GoesOn(w, IF o.err = "none" THEN "mark" ELSE "report", o.err)]
    BY <1>2 DEF W!Execute
  <2>2. w.job \in Rows /\ Rows' = Rows /\ UNCHANGED batch
    BY <1>2 DEF W!Execute, WorkersInv, SlotInserted, W!Working, Rows
  <2>3. WorkerDomains'
    BY <1>2, <2>1 DEF W!Execute, WorkersInv, WorkerDomains
  <2>4. \A j \in Jobs : jira'[j] # {} => j \in Rows
    BY <2>1, <2>2 DEF WorkersInv, WorkerDomains, JiraInserted
  <2>5. \A k \in Instances, t \in W!Slots :
          slot'[k][t].pc \in {"exec", "report", "mark"} => slot'[k][t].job \in Rows
    BY <2>1, <2>2 DEF WorkersInv, WorkerDomains, SlotInserted, W!Working, W!GoesOn
  <2> QED
    BY <2>2, <2>3, <2>4, <2>5, HeldRows DEF WorkersInv, BatchInserted
<1>3. CASE W!Report(i, s)
  BY <1>1, <1>3 DEF W!Report, W!Working, WorkersInv, WorkerDomains, Rows
<1>4. CASE W!Mark(i, s)
  <2>1. w.job \in Rows /\ jobs' \in {jobs, W!Marked(i, w)}
    BY <1>4 DEF W!Mark, W!Working, WorkersInv, SlotInserted
  <2>2. Rows' = Rows /\ DOMAIN jobs' = Jobs
    BY <2>1 DEF W!Marked, W!MarkCompleted, W!MarkFailed, W!MarkDead, WorkersInv,
                WorkerDomains, Rows
  <2> QED
    BY <1>1, <1>4, <2>2 DEF W!Mark
<1>5. CASE W!Record(i, s)
  BY <1>1, <1>5 DEF W!Record, WorkersInv, WorkerDomains, Rows
<1> QED
  BY <1>2, <1>3, <1>4, <1>5 DEF W!ProcessStep

\* The other steps of an instance, and time.
LEMMA InstanceKeepsRows ==
  ASSUME WorkersInv, NEW i \in Instances,
         W!Reconcile(i) \/ W!Signal(i) \/ W!Start(i) \/ W!Crash(i) \/ W!Exit(i)
  PROVE  WorkersInv' /\ Rows' = Rows
<1>1. CASE W!Reconcile(i)
  <2>1. Rows' = Rows /\ DOMAIN jobs' = Jobs
    BY <1>1 DEF W!Reconcile, W!Stuck, W!Reset, WorkersInv, WorkerDomains, Rows
  <2>2. WorkerDomains' /\ UNCHANGED <<batch, slot, jira>>
    BY <1>1, <2>1 DEF W!Reconcile, WorkersInv, WorkerDomains
  <2> QED
    BY <2>1, <2>2, HeldRows
       DEF WorkersInv, BatchInserted, SlotInserted, JiraInserted, W!Working
<1>2. CASE W!Signal(i) \/ W!Start(i)
  BY <1>2 DEF W!Signal, W!Start, WorkersInv, WorkerDomains, BatchInserted, SlotInserted,
              JiraInserted, W!Working, Rows
<1>3. CASE W!Crash(i) \/ W!Exit(i)
  <2>1. W!Stop(i)
    BY <1>3 DEF W!Crash, W!Exit
  <2>2. Rows' = Rows /\ WorkerDomains' /\ UNCHANGED jira
    BY <2>1 DEF W!Stop, WorkersInv, WorkerDomains, Rows
  <2>3. \A k \in Instances : \A m \in batch'[k] : m.job \in Rows
    BY <2>1 DEF W!Stop, WorkersInv, WorkerDomains, BatchInserted
  <2>4. \A k \in Instances, t \in W!Slots :
          slot'[k][t].pc \in {"exec", "report", "mark"} => slot'[k][t].job \in Rows
    BY <2>1 DEF W!Stop, WorkersInv, WorkerDomains, SlotInserted, W!Working, W!Idle
  <2> QED
    BY <2>2, <2>3, <2>4, HeldRows DEF WorkersInv, JiraInserted
<1> QED
  BY <1>1, <1>2, <1>3

LEMMA TickKeepsRows ==
  ASSUME WorkersInv, W!Tick
  PROVE  WorkersInv' /\ Rows' = Rows
<1>1. Rows' = Rows /\ DOMAIN jobs' = Jobs
  BY DEF W!Tick, W!Aged, Rows
<1>2. WorkerDomains'
  BY <1>1 DEF W!Tick, WorkersInv, WorkerDomains
<1>3. \A k \in Instances, t \in W!Slots :
        slot'[k][t].pc \in {"exec", "report", "mark"} => slot'[k][t].job \in Rows
  BY DEF W!Tick, W!Older, WorkersInv, SlotInserted, W!Working
<1> QED
  BY <1>1, <1>2, <1>3, HeldRows DEF W!Tick, WorkersInv, BatchInserted, JiraInserted

\* The row a handler inserts is one more.
LEMMA EnqueueAddsRow ==
  ASSUME WorkersInv, NEW i, NEW j \in Jobs, W!Enqueue(i, j)
  PROVE  WorkersInv'
<1>1. Rows \subseteq Rows' /\ DOMAIN jobs' = Jobs
  BY DEF W!Enqueue, W!Inserted, WorkersInv, WorkerDomains, Rows
<1>2. WorkerDomains' /\ UNCHANGED <<batch, slot, jira>>
  BY <1>1 DEF W!Enqueue, WorkersInv, WorkerDomains
<1> QED
  BY <1>1, <1>2, HeldRows
     DEF WorkersInv, BatchInserted, SlotInserted, JiraInserted, W!Working

-----------------------------------------------------------------------------
(* The handlers under every step. *)

LEMMA HandlersStand ==
  ASSUME HandlersInv, UNCHANGED <<pc, event, todo, host>>
  PROVE  HandlersInv'
BY DEF HandlersInv, HandlerDomains, HandlerInv

\* It is enough to look at the handler that takes the step.
LEMMA OneHandlerMoves ==
  ASSUME HandlersInv, HandlerDomains', NEW r \in Deliveries, HandlerInv(r)',
         \A d \in Deliveries \ {r} :
           /\ pc'[d] = pc[d] /\ event'[d] = event[d] /\ todo'[d] = todo[d]
           /\ host'[d] = host[d] \/ pc[d] \in {"new", "done"}
  PROVE  HandlersInv'
BY DEF HandlersInv, HandlerInv

\* Whoever is not done keeps its host.
LEMMA HostsStay ==
  ASSUME NEW hosts, Housed(hosts), NEW d \in Deliveries, hosts[d] = host[d], pc'[d] = pc[d]
  PROVE  host'[d] = host[d] \/ pc[d] \in {"new", "done"}
BY DEF Housed

LEMMA ReceiveKeepsHandlers ==
  ASSUME HandlersInv, NEW r \in Deliveries, NEW i \in Instances, Receive(i, r)
  PROVE  HandlersInv'
<1> DEFINE hosts == [host EXCEPT ![r] = i]
<1>1. Housed(hosts) /\ (H!Refuse(r) \/ H!Receive(r, Sent[r]))
  BY DEF Receive
<1>2. HandlerDomains'
  BY <1>1 DEF HandlersInv, HandlerDomains, Housed, H!Refuse, H!Receive, H!Finish, H!Proceed
<1>3. \A d \in Deliveries \ {r} :
        pc'[d] = pc[d] /\ event'[d] = event[d] /\ todo'[d] = todo[d] /\ hosts[d] = host[d]
  BY <1>1 DEF HandlersInv, HandlerDomains, H!Refuse, H!Receive, H!Finish, H!Proceed
<1>4. HandlerInv(r)'
  <2>1. todo'[r] = {}
    BY <1>1 DEF HandlersInv, HandlerInv, H!Refuse, H!Receive
  <2>2. CASE H!Refuse(r)
    BY <2>1, <2>2 DEF HandlerInv, H!Refuse, H!Finish, HandlersInv, HandlerDomains
  <2>3. CASE H!Receive(r, Sent[r])
    <3>1. event'[r] = Received(r) /\ pc'[r] \in {"check", "done"}
      BY <2>3, OneGitLab DEF H!Receive, H!Finish, H!Proceed, HandlersInv, HandlerDomains,
                             Received
    <3>2. pc'[r] = "check" => host'[r] = i
      BY <1>1 DEF Housed, HandlersInv, HandlerDomains
    <3> QED
      BY <2>1, <3>1, <3>2 DEF HandlerInv
  <2> QED
    BY <1>1, <2>2, <2>3
<1> HIDE DEF hosts
<1> QED
  BY <1>1, <1>2, <1>3, <1>4, HostsStay, OneHandlerMoves

LEMMA HandleKeepsHandlers ==
  ASSUME HandlersInv, NEW r \in Deliveries, Handle(r)
  PROVE  HandlersInv'
<1>1. /\ Housed(host)
      /\ H!Check(r) \/ H!Insert(r) \/ H!StatementError(r) \/ H!Plugins(r) \/ H!Respond(r)
  BY DEF Handle
<1>2. HandlerDomains' /\ UNCHANGED event
  BY <1>1 DEF HandlersInv, HandlerDomains, Housed, H!Check, H!Insert, H!StatementError,
              H!Plugins, H!Respond, H!Finish, H!Proceed
<1>3. \A d \in Deliveries \ {r} : pc'[d] = pc[d] /\ todo'[d] = todo[d]
  BY <1>1 DEF HandlersInv, HandlerDomains, H!Check, H!Insert, H!StatementError,
              H!Plugins, H!Respond, H!Finish, H!Proceed
<1>4. event[r] = Received(r) /\ host[r] \in Instances
  BY <1>1 DEF HandlersInv, HandlerInv, H!Check, H!Insert, H!StatementError, H!Plugins,
              H!Respond
<1>5. pc'[r] \in {"new", "done"} \/ host'[r] = host[r]
  BY <1>1 DEF Housed
<1>6. HandlerInv(r)'
  <2>1. CASE H!Check(r)
    <3>1. UNCHANGED todo /\ todo[r] = {}
      BY <2>1 DEF H!Check, HandlersInv, HandlerInv
    <3>2. /\ pc'[r] \in {"done", "insert"}
          /\ pc'[r] = "insert" => H!Actionable(event[r])
      BY <2>1 DEF H!Check, H!Finish, H!Proceed, HandlersInv, HandlerDomains
    <3> QED
      BY <1>2, <1>4, <1>5, <3>1, <3>2, OneGitLab DEF HandlerInv
  <2>2. CASE H!Insert(r)
    BY <1>2, <1>4, <1>5, <2>2
       DEF H!Insert, H!Proceed, HandlersInv, HandlerDomains, HandlerInv
  <2>3. CASE H!StatementError(r)
    BY <1>2, <1>4, <1>5, <2>3
       DEF H!StatementError, H!Finish, HandlersInv, HandlerDomains, HandlerInv
  <2>4. CASE H!Plugins(r)
    <3>1. todo'[r] = GL!Places(Received(r)) /\ pc'[r] = "enqueue"
      BY <1>4, <2>4, OneGitLab DEF H!Plugins, H!Proceed, HandlersInv, HandlerDomains
    <3> QED
      BY <1>2, <1>4, <1>5, <2>4, <3>1 DEF H!Plugins, HandlersInv, HandlerInv
  <2>5. CASE H!Respond(r)
    BY <1>2, <1>4, <1>5, <2>5
       DEF H!Respond, H!Finish, HandlersInv, HandlerDomains, HandlerInv
  <2> QED
    BY <1>1, <2>1, <2>2, <2>3, <2>4, <2>5
<1> QED
  BY <1>1, <1>2, <1>3, <1>6, HostsStay, OneHandlerMoves

LEMMA EnqueueKeepsHandlers ==
  ASSUME HandlersInv, NEW r \in Deliveries, Enqueue(r)
  PROVE  HandlersInv'
<1>1. PICK n \in todo[r] : H!Enqueue(r, n) /\ UNCHANGED host
  BY DEF Enqueue
<1> QED
  BY <1>1 DEF H!Enqueue, HandlersInv, HandlerDomains, HandlerInv

LEMMA CutKeepsHandlers ==
  ASSUME HandlersInv, NEW i \in Instances, Cut(i)
  PROVE  HandlersInv'
<1> DEFINE S == {r \in H!InFlight : host[r] = i}
<1>1. CASE UNCHANGED <<handlers, host>>
  BY <1>1, HandlersStand DEF handlers
<1>2. CASE H!Killed(S) /\ Housed(host)
  <2>1. HandlerDomains' /\ UNCHANGED event
    BY <1>2 DEF H!Killed, Housed, HandlersInv, HandlerDomains
  <2>2. ASSUME NEW r \in Deliveries
        PROVE  HandlerInv(r)'
    <3>1. \/ pc'[r] = "done" /\ todo'[r] = {}
          \/ pc'[r] = pc[r] /\ todo'[r] = todo[r]
      BY <1>2 DEF H!Killed
    <3>2. pc'[r] \in {"new", "done"} \/ host'[r] = host[r]
      BY <1>2 DEF Housed
    <3> QED
      BY <2>1, <3>1, <3>2 DEF HandlersInv, HandlerInv
  <2> QED
    BY <2>1, <2>2 DEF HandlersInv
<1> QED
  BY <1>1, <1>2 DEF Cut

-----------------------------------------------------------------------------
LEMMA InvNext == Inv /\ [Next]_vars => Inv'
<1> SUFFICES ASSUME Inv, [Next]_vars
             PROVE  Inv'
  OBVIOUS
<1>0. ASSUME UNCHANGED workers
      PROVE  WorkersInv' /\ Rows' = Rows
  BY <1>0 DEF workers, Inv, WorkersInv, WorkerDomains, BatchInserted, SlotInserted,
              JiraInserted, W!Working, Rows
<1>1. ASSUME NEW r \in Deliveries, NEW i \in Instances, Receive(i, r)
      PROVE  Inv'
  BY <1>0, <1>1, ReceiveKeepsHandlers DEF Inv, Receive
<1>2. ASSUME NEW r \in Deliveries, Handle(r)
      PROVE  Inv'
  BY <1>0, <1>2, HandleKeepsHandlers DEF Inv, Handle
<1>3. ASSUME NEW r \in Deliveries, Disconnect(r)
      PROVE  Inv'
  BY <1>0, <1>3, HandlersStand DEF Inv, Disconnect, H!Disconnect
<1>4. ASSUME NEW r \in Deliveries, Enqueue(r)
      PROVE  Inv'
  <2>1. PICK n \in todo[r] : W!Enqueue(host[r], <<r, n>>) \/ UNCHANGED workers
    BY <1>4 DEF Enqueue
  <2>2. WorkersInv'
    BY <1>0, <2>1, NextRowIsJob, EnqueueAddsRow DEF Inv
  <2> QED
    BY <1>4, <2>2, EnqueueKeepsHandlers DEF Inv
<1>5. ASSUME NEW i \in Instances, Work(i)
      PROVE  Inv'
  BY <1>5, LoopKeepsRows, ProcessKeepsRows, InstanceKeepsRows, HandlersStand
     DEF Work, Inv, handlers
<1>6. ASSUME NEW i \in Instances, End(i)
      PROVE  Inv'
  BY <1>6, InstanceKeepsRows, CutKeepsHandlers DEF End, Inv
<1>7. CASE Tick
  BY <1>7, TickKeepsRows, HandlersStand DEF Tick, Inv, handlers
<1>8. CASE UNCHANGED vars
  BY <1>0, <1>8, HandlersStand DEF vars, handlers, Inv
<1> QED
  BY <1>1, <1>2, <1>3, <1>4, <1>5, <1>6, <1>7, <1>8 DEF Next

\* Every step is one of Webhook over the rows of the table, or changes none of them.
LEMMA StepOfWebhook == Inv /\ [Next]_vars => [H!Next]_(H!vars)
<1> SUFFICES ASSUME Inv, [Next]_vars
             PROVE  [H!Next]_(H!vars)
  OBVIOUS
<1>1. ASSUME NEW r \in Deliveries, NEW i \in Instances, Receive(i, r)
      PROVE  H!Next
  BY <1>1 DEF Receive, H!Next
<1>2. ASSUME NEW r \in Deliveries, Handle(r)
      PROVE  H!Next
  BY <1>2 DEF Handle, H!Handle, H!Next
<1>3. ASSUME NEW r \in Deliveries, Disconnect(r)
      PROVE  H!Next
  BY <1>3 DEF Disconnect, H!Next
<1>4. ASSUME NEW r \in Deliveries, Enqueue(r)
      PROVE  H!Next
  BY <1>4 DEF Enqueue, H!Handle, H!Next
<1>5. ASSUME NEW i \in Instances, Work(i)
      PROVE  UNCHANGED H!vars
  BY <1>5, LoopKeepsRows, ProcessKeepsRows, InstanceKeepsRows
     DEF Work, Inv, handlers, H!vars
<1>6. ASSUME NEW i \in Instances, End(i)
      PROVE  [H!Next]_(H!vars)
  <2>1. Rows' = Rows
    BY <1>6, InstanceKeepsRows DEF End, Inv
  <2>2. UNCHANGED handlers \/ H!Crash
    BY <1>6 DEF End, Cut, H!Crash
  <2> QED
    BY <2>1, <2>2 DEF handlers, H!vars, H!Next
<1>7. CASE Tick
  BY <1>7, TickKeepsRows DEF Tick, Inv, handlers, H!vars
<1>8. CASE UNCHANGED vars
  BY <1>8 DEF vars, handlers, workers, H!vars, Rows
<1> QED
  BY <1>1, <1>2, <1>3, <1>4, <1>5, <1>6, <1>7, <1>8 DEF Next

-----------------------------------------------------------------------------
\* The processors and the reconcilers of the service are those of Worker, whatever
\* its handlers do: what WorkerProofs says of Worker holds of the service.
THEOREM ServiceRunsWorkers == Spec => W!Spec
<1>1. Init => W!Init
  BY DEF Init
<1> QED
  BY <1>1, InvInit, InvNext, StepOfWorker, PTL DEF Spec, W!Spec

\* Its handlers are those of Webhook over the rows that the processors see: what
\* WebhookProofs says of Webhook holds of the service.
THEOREM ServiceRunsHandlers == Spec => H!Spec
<1>1. Init => H!Init
  BY DEF Init, H!Init, W!Init, Rows, W!Absent
<1> QED
  BY <1>1, InvInit, InvNext, StepOfWebhook, PTL DEF Spec, H!Spec

\* However many handlers and processors of however many instances race, crash and
\* retry, Jira is asked for an issue of a webhook through one job only.
THEOREM MovesAreUnique == Spec => []OneMovePerWebhook
<1>1. Inv /\ H!OneJobPerWebhook => OneMovePerWebhook
  BY DEF Inv, WorkersInv, JiraInserted, H!OneJobPerWebhook, OneMovePerWebhook
<1>2. H!Spec => []H!OneJobPerWebhook
  BY H!DuplicatesAreHarmless, SystemAssumption DEF H!DuplicatesAreHarmless
<1> QED
  BY <1>1, <1>2, InvInit, InvNext, ServiceRunsHandlers, PTL DEF Spec

-----------------------------------------------------------------------------
(* The service as a whole is what Service promises. *)

\* The invariants of the two sides, as proved of each.
SidesInv ==
  /\ Inv /\ W!TypeOK /\ W!ClaimInv /\ W!EndsInv
  /\ H!Inv /\ H!OneJobPerWebhook

LEMMA SidesHold ==
  ASSUME W!WellProvisioned
  PROVE  Spec => []SidesInv
<1>1. W!Spec => [](W!TypeOK /\ W!ClaimInv)
  BY W!ClaimsHold, SystemAssumption DEF W!ClaimsHold
<1>2. W!Init => W!EndsInv
  BY W!EndsInit, SystemAssumption DEF W!EndsInit
<1>3. W!TypeOK /\ W!TypeOK' /\ W!EndsInv /\ [W!Next]_(W!vars) => W!EndsInv'
  BY W!EndsNext, SystemAssumption DEF W!EndsNext
<1>4. W!Spec => []W!EndsInv
  BY <1>1, <1>2, <1>3, PTL DEF W!Spec
<1>5. H!Init => H!Inv
  BY H!InvInit, SystemAssumption DEF H!InvInit
<1>6. H!Inv /\ [H!Next]_(H!vars) => H!Inv'
  BY H!InvNext, SystemAssumption DEF H!InvNext
<1>7. H!Inv => H!OneJobPerWebhook
  BY H!OneJobInv, SystemAssumption DEF H!OneJobInv
<1>8. H!Spec => [](H!Inv /\ H!OneJobPerWebhook)
  BY <1>5, <1>6, <1>7, PTL DEF H!Spec
<1>9. Spec => []Inv
  BY InvInit, InvNext, PTL DEF Spec
<1> QED
  BY <1>1, <1>4, <1>8, <1>9, ServiceRunsWorkers, ServiceRunsHandlers, PTL DEF SidesInv

\* JobLifecycle and Inbox are instantiated twice, by a side and by Service.
LEMMA OneLife ==
  W!Lifecycle!Next =>
    (\E j \in Jobs : W!Lifecycle!Enqueue(j)) \/ (\E j \in Jobs :
       \/ Promised!Life!Complete(j) \/ Promised!Life!Retry(j) \/ Promised!Life!Die(j)
       \/ \E code \in Promised!Life!Settling : Promised!Life!Decide(j, code))
    \/ \E S \in SUBSET Jobs : Promised!Life!Claim(S) \/ Promised!Life!Release(S)
<1>1. ASSUME NEW j \in Jobs
      PROVE  /\ W!Lifecycle!Complete(j) => Promised!Life!Complete(j)
             /\ W!Lifecycle!Retry(j) => Promised!Life!Retry(j)
             /\ W!Lifecycle!Die(j) => Promised!Life!Die(j)
             /\ \A code : W!Lifecycle!Decide(j, code) => Promised!Life!Decide(j, code)
  <2>1. W!Lifecycle!Complete(j) => Promised!Life!Complete(j)
    BY DEF W!Lifecycle!Complete, Promised!Life!Complete, W!Lifecycle!Skipped,
           Promised!Life!Skipped
  <2>2. W!Lifecycle!Retry(j) => Promised!Life!Retry(j)
    BY DEF W!Lifecycle!Retry, Promised!Life!Retry
  <2>3. W!Lifecycle!Die(j) => Promised!Life!Die(j)
    BY DEF W!Lifecycle!Die, Promised!Life!Die, W!Lifecycle!NonRetryable,
           Promised!Life!NonRetryable
  <2>4. ASSUME NEW code
        PROVE  W!Lifecycle!Decide(j, code) => Promised!Life!Decide(j, code)
    BY DEF W!Lifecycle!Decide, Promised!Life!Decide, W!Lifecycle!Skipped,
           Promised!Life!Skipped
  <2> QED
    BY <2>1, <2>2, <2>3, <2>4
<1>2. ASSUME NEW S \in SUBSET Jobs
      PROVE  /\ W!Lifecycle!Claim(S) => Promised!Life!Claim(S)
             /\ W!Lifecycle!Release(S) => Promised!Life!Release(S)
  BY DEF W!Lifecycle!Claim, Promised!Life!Claim, W!Lifecycle!Release,
         Promised!Life!Release
<1>3. W!Lifecycle!Settling = Promised!Life!Settling
  BY DEF W!Lifecycle!Settling, Promised!Life!Settling, W!Lifecycle!NonRetryable,
         Promised!Life!NonRetryable
<1> QED
  BY <1>1, <1>2, <1>3 DEF W!Lifecycle!Next

\* A handler that inserts no row takes a webhook, or is not seen.
LEMMA TakeOfService ==
  ASSUME [H!AnInbox!Next]_(H!AnInbox!vars), H!QueuedJobs' = H!QueuedJobs,
         UNCHANGED workers
  PROVE  [Promised!Next]_(Promised!vars)
<1>1. UNCHANGED Promised!Life!vars
  BY DEF workers, Promised!Life!vars
<1>2. CASE UNCHANGED H!AnInbox!vars
  BY <1>1, <1>2 DEF H!AnInbox!vars, Promised!vars, Promised!Life!vars
<1>3. ASSUME NEW r \in Deliveries, NEW p \in {Sent[d] : d \in Deliveries},
             \/ H!AnInbox!Store(H!Parse(p).key)
             \/ \E d \in Deliveries : H!AnInbox!Tell(d, H!Parse(p).key)
      PROVE  Promised!Next
  <2>1. \/ Promised!In!Store(H!Parse(p).key)
        \/ \E d \in Deliveries : Promised!In!Tell(d, H!Parse(p).key)
    BY <1>3 DEF H!AnInbox!Store, Promised!In!Store, H!AnInbox!Tell, Promised!In!Tell
  <2>2. Promised!Take(H!Parse(p).key)
    BY <1>1, <2>1 DEF Promised!Take
  <2> QED
    BY <2>2 DEF Promised!Next
<1>4. ASSUME NEW j, NEW k, NEW issue
      PROVE  ~H!AnInbox!Queue(j, k, issue)
  <2>1. SUFFICES ASSUME H!AnInbox!Queue(j, k, issue)
                 PROVE  FALSE
    OBVIOUS
  <2>2. <<j, k, issue>> \in H!QueuedJobs
    BY <2>1 DEF H!AnInbox!Queue
  <2>3. \A e \in H!QueuedJobs : e[1] # j
    BY <2>1 DEF H!AnInbox!Queue
  <2> QED
    BY <2>2, <2>3
<1> QED
  BY <1>2, <1>3, <1>4 DEF H!AnInbox!Next

\* A row that a handler inserts is a job that begins its life, queued.
LEMMA QueueOfService ==
  ASSUME SidesInv, SidesInv', NEW r \in Deliveries, Enqueue(r), ~UNCHANGED workers
  PROVE  Promised!Next
<1>1. PICK n \in todo[r] : W!Enqueue(host[r], <<r, n>>) /\ H!Enqueue(r, n)
  BY DEF Enqueue
<1> DEFINE x == <<r, n>>
           k == event[r].key
<1>2. x \in Jobs
  BY NextRowIsJob DEF SidesInv
<1>3. jobs[x].status = "absent" /\ jobs' = W!Inserted(x, Skew[host[r]]) /\ UNCHANGED jira
  BY <1>1 DEF W!Enqueue
<1>4. W!Lifecycle!Enqueue(x)
  BY <1>2, <1>3, W!LifeInserted, SystemAssumption DEF W!LifeInserted, SidesInv, W!EndsInv
<1>5. Promised!Life!Enqueue(x)
  BY <1>4 DEF W!Lifecycle!Enqueue, Promised!Life!Enqueue
<1>6. x \in Rows' /\ x \notin Rows
  BY <1>2, <1>3 DEF W!Inserted, Rows, SidesInv, Inv, WorkersInv, WorkerDomains
<1>7. /\ H!AnInbox!Queue(x, k, H!IssueOf(x))
      /\ k \in {H!Parse(p).key : p \in {Sent[d] : d \in Deliveries}}
      /\ H!IssueOf(x) \in {Upper[u] : u \in DOMAIN Upper}
  BY <1>1, <1>6, H!InboxQueue, SystemAssumption DEF H!InboxQueue, SidesInv
<1>8. Promised!In!Queue(x, k, H!IssueOf(x))
  BY <1>7 DEF H!AnInbox!Queue, Promised!In!Queue
<1>9. Promised!Queue(x, k, H!IssueOf(x))
  BY <1>5, <1>8 DEF Promised!Queue
<1> HIDE DEF x, k
<1>10. k \in {H!Parse(Sent[d]).key : d \in Deliveries}
  BY <1>7
<1> QED
  BY <1>2, <1>7, <1>9, <1>10 DEF Promised!Next

\* What the workers do is a step in the life of the jobs that queues none.
LEMMA WorkOfService ==
  ASSUME SidesInv, SidesInv', [W!Next]_(W!vars), UNCHANGED handlers, Rows' = Rows
  PROVE  [Promised!Next]_(Promised!vars)
<1>1. W!Lifecycle!Next \/ UNCHANGED W!Lifecycle!vars
  BY W!LifeStep, SystemAssumption DEF W!LifeStep, SidesInv
<1>2. UNCHANGED Promised!In!vars
  BY DEF handlers, Promised!In!vars, H!StoredKeys, H!QueuedJobs, H!ToldTaken, H!IssueOf,
         H!IssueKeysFromEvent
<1>3. ASSUME NEW j \in Jobs
      PROVE  ~W!Lifecycle!Enqueue(j)
  BY DEF W!Lifecycle!Enqueue, Rows
<1>4. CASE W!Lifecycle!Next
  <2>1. Promised!Work
    BY <1>2, <1>3, <1>4, OneLife DEF Promised!Work
  <2> QED
    BY <2>1 DEF Promised!Next
<1>5. CASE UNCHANGED W!Lifecycle!vars
  BY <1>2, <1>5 DEF W!Lifecycle!vars, Promised!vars, Promised!In!vars
<1> QED
  BY <1>1, <1>4, <1>5

\* A step that inserts no row queues nothing: the event of a row is settled.
LEMMA QueueStands ==
  ASSUME H!Inv, Rows' = Rows,
         \A r \in Deliveries : pc[r] # "new" => event'[r] = event[r]
  PROVE  H!QueuedJobs' = H!QueuedJobs
<1>1. \A x \in Rows : event'[x[1]] = event[x[1]]
  BY DEF H!Inv, H!TypeOK, H!EventsInv, H!TablesInv, H!HandlerInv
<1> QED
  BY <1>1 DEF H!QueuedJobs, H!IssueOf, H!IssueKeysFromEvent

LEMMA StepOfService ==
  ASSUME SidesInv, SidesInv', [Next]_vars
  PROVE  [Promised!Next]_(Promised!vars)
<1>1. [W!Next]_(W!vars)
  BY StepOfWorker DEF SidesInv
<1>2. [H!AnInbox!Next]_(H!AnInbox!vars)
  <2>1. [H!Next]_(H!vars)
    BY StepOfWebhook DEF SidesInv
  <2> QED
    BY <2>1, H!InboxNext, SystemAssumption DEF H!InboxNext, SidesInv
<1>3. ASSUME UNCHANGED workers, \A r \in Deliveries : pc[r] # "new" => event'[r] = event[r]
      PROVE  [Promised!Next]_(Promised!vars)
  <2>1. Rows' = Rows
    BY <1>3 DEF workers, Rows
  <2> QED
    BY <1>2, <1>3, <2>1, QueueStands, TakeOfService DEF SidesInv
<1>4. ASSUME NEW r \in Deliveries, NEW i \in Instances, Receive(i, r)
      PROVE  [Promised!Next]_(Promised!vars)
  <2>1. H!Refuse(r) \/ H!Receive(r, Sent[r])
    BY <1>4 DEF Receive
  <2>2. \A q \in Deliveries : pc[q] # "new" => event'[q] = event[q]
    BY <2>1 DEF H!Refuse, H!Receive, SidesInv, H!Inv, H!TypeOK
  <2> QED
    BY <1>3, <1>4, <2>2 DEF Receive
<1>5. ASSUME NEW r \in Deliveries, Handle(r)
      PROVE  [Promised!Next]_(Promised!vars)
  BY <1>3, <1>5 DEF Handle, H!Check, H!Insert, H!StatementError, H!Plugins, H!Respond
<1>6. ASSUME NEW r \in Deliveries, Disconnect(r)
      PROVE  [Promised!Next]_(Promised!vars)
  BY <1>3, <1>6 DEF Disconnect, H!Disconnect
<1>7. ASSUME NEW r \in Deliveries, Enqueue(r)
      PROVE  [Promised!Next]_(Promised!vars)
  <2>1. UNCHANGED event
    BY <1>7 DEF Enqueue, H!Enqueue
  <2> QED
    BY <1>3, <1>7, <2>1, QueueOfService
<1>8. ASSUME NEW i \in Instances, Work(i)
      PROVE  [Promised!Next]_(Promised!vars)
  BY <1>1, <1>8, WorkOfService, LoopKeepsRows, ProcessKeepsRows, InstanceKeepsRows
     DEF Work, SidesInv, Inv, handlers
<1>9. CASE Tick
  BY <1>1, <1>9, WorkOfService, TickKeepsRows DEF Tick, SidesInv, Inv, handlers
<1>10. ASSUME NEW i \in Instances, End(i)
       PROVE  [Promised!Next]_(Promised!vars)
  <2>1. /\ Rows' = Rows /\ UNCHANGED <<jobs, jira>>
        /\ UNCHANGED <<event, answer, events>>
    BY <1>10 DEF End, W!Crash, W!Exit, W!Stop, Cut, H!Killed, handlers, Rows
  <2> QED
    BY <2>1 DEF Promised!vars, H!StoredKeys, H!QueuedJobs, H!ToldTaken, H!IssueOf,
                H!IssueKeysFromEvent
<1>11. CASE UNCHANGED vars
  BY <1>3, <1>11 DEF vars, handlers, workers
<1> QED
  BY <1>4, <1>5, <1>6, <1>7, <1>8, <1>9, <1>10, <1>11 DEF Next

\* The handlers, processors and reconcilers of every instance, on one table, are the
\* service that Service promises: a webhook is stored once, an issue of it is queued
\* once, as the row that the workers find, pending; one at a time claims it, and it
\* ends as Jira decided.  The stuck timeout must cover the longest claim.
THEOREM ServiceIsAsPromised ==
  ASSUME W!WellProvisioned
  PROVE  Spec => ServiceSpec
<1>1. Init => Promised!Init
  <2>1. ASSUME Init
        PROVE  Rows = {}
    BY <2>1 DEF Init, W!Init, W!Absent, Rows
  <2>2. Init => Promised!In!Init
    BY <2>1 DEF Init, H!Init, Promised!In!Init, H!StoredKeys, H!QueuedJobs, H!ToldTaken,
                H!Taken
  <2>3. Init => Promised!Life!Init
    BY DEF Init, W!Init, W!Absent, Promised!Life!Init
  <2> QED
    BY <2>2, <2>3 DEF Promised!Init
<1>2. SidesInv /\ SidesInv' /\ [Next]_vars => [Promised!Next]_(Promised!vars)
  BY StepOfService
<1> QED
  BY <1>1, <1>2, SidesHold, PTL DEF Spec, ServiceSpec, Promised!Spec

-----------------------------------------------------------------------------
(* What WorkerProofs and WebhookProofs say holds of the service. *)

\* While handlers insert rows and end with their instances, the workers keep their
\* promises, whatever the stuck timeout: the reconciler's query sees every running
\* row, a row in nobody's hands is left to it, a final status says what Jira decided.
THEOREM WorkersKeepTheirPromises ==
  Spec => /\ [](/\ W!TypeOK /\ W!RunningIsStamped
                /\ W!CompletedWasApplied /\ W!DeadIsEarned)
          /\ W!AbandonedOnlyReset
<1>1. W!Spec => []W!TypeOK
  BY W!TypeCorrect, SystemAssumption DEF W!TypeCorrect
<1>2. W!Spec => []W!RunningIsStamped
  BY W!RunningRowsAreStamped, SystemAssumption DEF W!RunningRowsAreStamped
<1>3. W!Spec => []W!CompletedWasApplied
  BY W!EndsAreEarned, SystemAssumption DEF W!EndsAreEarned
<1>4. W!Spec => []W!DeadIsEarned
  BY W!DeathsAreEarned, SystemAssumption DEF W!DeathsAreEarned
<1>5. W!Spec => W!AbandonedOnlyReset
  BY W!AbandonedRowsWaitForReset, SystemAssumption DEF W!AbandonedRowsWaitForReset
<1> QED
  BY <1>1, <1>2, <1>3, <1>4, <1>5, ServiceRunsWorkers, PTL

\* And when the stuck timeout covers the longest claim, no two of them ever work on
\* one job, none marks another's, and no job is tried too often or twice ended.
THEOREM ProvisionedWorkersExcludeEachOther ==
  ASSUME W!WellProvisioned
  PROVE  Spec => /\ [](/\ W!ExclusiveClaims /\ W!MarksWhatItClaimed
                       /\ W!AttemptsBounded /\ W!AuditedEndIsReal)
                 /\ W!TerminalIsFinal
<1>1. W!Spec => []W!ExclusiveClaims
  BY W!ClaimsAreExclusive, SystemAssumption DEF W!ClaimsAreExclusive
<1>2. W!Spec => []W!MarksWhatItClaimed
  BY W!MarksAreOfOwnClaims, SystemAssumption DEF W!MarksAreOfOwnClaims
<1>3. W!Spec => []W!AttemptsBounded
  BY W!AttemptsAreBounded, SystemAssumption DEF W!AttemptsAreBounded
<1>4. W!Spec => []W!AuditedEndIsReal
  BY W!LoggedEndsAreReal, SystemAssumption DEF W!LoggedEndsAreReal
<1>5. W!Spec => W!TerminalIsFinal
  BY W!TerminalRowsAreFinal, SystemAssumption DEF W!TerminalRowsAreFinal
<1> QED
  BY <1>1, <1>2, <1>3, <1>4, <1>5, ServiceRunsWorkers, PTL

\* As long as no INSERT into it is lost, the audit log of the service has a row for
\* each counted failure, and of each end it records the grounds are there.
THEOREM AuditLogIsTruthful ==
  ASSUME ~AuditLossy
  PROVE  Spec => [](W!FailuresAreLogged /\ W!AuditIsTruthful)
<1>1. W!Spec => []W!FailuresAreLogged
  BY W!CountedFailuresAreLogged, SystemAssumption DEF W!CountedFailuresAreLogged
<1>2. W!Spec => []W!AuditIsTruthful
  BY W!LoggedEndsHaveGrounds, SystemAssumption DEF W!LoggedEndsHaveGrounds
<1> QED
  BY <1>1, <1>2, ServiceRunsWorkers, PTL

\* The handlers keep theirs, while workers claim, mark and reset the rows they insert:
\* an issue gets one job of a webhook, and as long as nothing fails or ends under a
\* handler, a stored webhook has a row for each of its issues.
THEOREM HandlersKeepTheirPromises ==
  Spec => [](H!TypeOK /\ H!OneJobPerWebhook /\ H!CalmRowsComplete)
<1>1. H!Spec => []H!TypeOK
  BY H!WebhookTypes, SystemAssumption DEF H!WebhookTypes
<1>2. H!Spec => []H!OneJobPerWebhook
  BY H!DuplicatesAreHarmless, SystemAssumption DEF H!DuplicatesAreHarmless
<1>3. H!Spec => []H!CalmRowsComplete
  BY H!CalmWebhooksAreComplete, SystemAssumption DEF H!CalmWebhooksAreComplete
<1> QED
  BY <1>1, <1>2, <1>3, ServiceRunsHandlers, PTL
=============================================================================
