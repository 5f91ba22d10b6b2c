------------------------------- MODULE Webhook -------------------------------
(***************************************************************************)
(* internal/server/webhook_handler.go over the events and jobs tables: the *)
(* deliveries of GitLab, each in a goroutine of its own, of one instance   *)
(* or of several on one database.  A delivery is the id of its handler's   *)
(* run and of the event row it would insert (a fresh UUID); a job is its   *)
(* event and the place of its issue key among those of the event.          *)
(*                                                                         *)
(* The environment makes a statement fail, disconnects the client (which   *)
(* cancels the request's context) or kills handlers, MaxFaults times.      *)
(***************************************************************************)
EXTENDS GitLab, FiniteSets

CONSTANTS Deliveries, Payloads, MaxFaults

ASSUME WebhookAssumption ==
  /\ MaxFaults \in Nat
  /\ \A p \in Payloads :
       {Parse(p).source, Parse(p).title, Parse(p).messages} \subseteq DOMAIN Matches

VARIABLES pc,         \* where each handler is
          event,      \* the event it parsed
          payload,    \* what GitLab sent
          todo,       \* the places of the keys it has yet to enqueue a job for
          answer,     \* what it answered
          cancelled,  \* the deliveries whose context is cancelled
          events,     \* the events table: the deliveries whose row is in it
          jobs,       \* the jobs table: <<event, place>>
          faults

vars == <<pc, event, payload, todo, answer, cancelled, events, jobs, faults>>

PC == {"new", "check", "insert", "plugins", "enqueue", "done"}
Answer == {"none", "refused", "ignored", "already_processed", "accepted", "error"}

\* The answers that tell GitLab its webhook needs no other delivery.
Taken == {"already_processed", "accepted"}

NoPayload == [kind |-> "none"]

InFlight == {r \in Deliveries : pc[r] \notin {"new", "done"}}

\* The places a job may have.
AllPlaces == UNION {Places(Parse(p)) : p \in Payloads}

\* The issue_key of a job.
IssueOf(x) == IssueKeysFromEvent(event[x[1]])[x[2]]

\* ExistsByIdempotencyKey, and the UNIQUE constraint that ON CONFLICT refers to.
Exists(key) == \E q \in events : event[q].key = key

Fault   == faults < MaxFaults /\ faults' = faults + 1
NoFault == UNCHANGED faults

\* Faulty: the two are swapped.
FinishSwapped(r, what) ==
  /\ pc' = [pc EXCEPT ![r] = what]
  /\ answer' = [answer EXCEPT ![r] = "done"]

Finish(r, what) ==
  /\ pc' = [pc EXCEPT ![r] = "done"]
  /\ answer' = [answer EXCEPT ![r] = what]

Proceed(r, to) ==
  /\ pc' = [pc EXCEPT ![r] = to]
  /\ UNCHANGED answer

Init ==
  /\ pc = [r \in Deliveries |-> "new"]
  /\ event = [r \in Deliveries |-> Unrecognized]
  /\ payload = [r \in Deliveries |-> NoPayload]
  /\ todo = [r \in Deliveries |-> {}]
  /\ answer = [r \in Deliveries |-> "none"]
  /\ cancelled = {} /\ events = {} /\ jobs = {}
  /\ faults = 0

-----------------------------------------------------------------------------
\* Wrong token, rate limit, oversized or unparsable body: nothing is touched.
Refuse(r) ==
  /\ pc[r] = "new"
  /\ Finish(r, "refused")
  /\ UNCHANGED <<event, payload, todo, cancelled, events, jobs, faults>>

\* The body is parsed; unrecognized events are answered at once.
Receive(r, p) ==
  /\ pc[r] = "new"
  /\ payload' = [payload EXCEPT ![r] = p]
  /\ event' = [event EXCEPT ![r] = Parse(p)]
  /\ IF Parse(p).type = "unrecognized" THEN Finish(r, "ignored") ELSE Proceed(r, "check")
  /\ UNCHANGED <<todo, cancelled, events, jobs, faults>>

\* The idempotency check, then the filters that need no database.
Check(r) ==
  /\ pc[r] = "check" /\ r \notin cancelled
  /\ IF Exists(event[r].key) THEN Finish(r, "already_processed")
     ELSE IF ~Actionable(event[r]) THEN Finish(r, "ignored")
     ELSE Proceed(r, "insert")
  /\ UNCHANGED <<event, payload, todo, cancelled, events, jobs, faults>>

\* Faulty: there is no unique constraint.
StoredTwice(r) == events \cup {r}

\* INSERT ... ON CONFLICT (idempotency_key) DO NOTHING: the handler cannot tell
\* whether its row went in.
Stored(r) == IF Exists(event[r].key) THEN events ELSE events \cup {r}

Insert(r) ==
  /\ pc[r] = "insert" /\ r \notin cancelled
  /\ events' = Stored(r)
  /\ Proceed(r, "plugins")
  /\ UNCHANGED <<event, payload, todo, cancelled, jobs, faults>>

\* Faulty: the error is logged and the webhook accepted.
StatementErrorLogged(r) ==
  /\ pc[r] \in {"check", "insert"}
  /\ \/ r \in cancelled /\ NoFault /\ UNCHANGED events
     \/ Fault /\ \/ UNCHANGED events
                 \/ pc[r] = "insert" /\ events' = Stored(r)
  /\ Finish(r, "accepted")
  /\ UNCHANGED <<event, payload, todo, cancelled, jobs>>

\* Either statement returns an error: the answer is 500.  An INSERT whose answer
\* was lost may have taken effect.
StatementError(r) ==
  /\ pc[r] \in {"check", "insert"}
  /\ \/ r \in cancelled /\ NoFault /\ UNCHANGED events
     \/ Fault /\ \/ UNCHANGED events
                 \/ pc[r] = "insert" /\ events' = Stored(r)
  /\ Finish(r, "error")
  /\ UNCHANGED <<event, payload, todo, cancelled, jobs>>

\* The plugin handlers are called; their errors are only logged.
Plugins(r) ==
  /\ pc[r] = "plugins"
  /\ todo' = [todo EXCEPT ![r] = Places(event[r])]
  /\ Proceed(r, "enqueue")
  /\ UNCHANGED <<event, payload, cancelled, events, jobs, faults>>

\* Faulty: jobs.event_id REFERENCES nothing.
EnqueueUnreferenced(r, n) ==
  /\ pc[r] = "enqueue" /\ n \in todo[r] /\ \A m \in todo[r] : n <= m
  /\ \/ /\ jobs' = IF r \in cancelled THEN jobs ELSE jobs \cup {<<r, n>>}
        /\ NoFault
     \/ UNCHANGED jobs /\ Fault
  /\ todo' = [todo EXCEPT ![r] = @ \ {n}]
  /\ UNCHANGED <<pc, event, payload, answer, cancelled, events>>

\* The INSERT of the next job, in the order of the keys.  It fails when the context
\* is cancelled, and when the row that jobs.event_id REFERENCES is missing; the
\* handler goes on either way.
Enqueue(r, n) ==
  /\ pc[r] = "enqueue" /\ n \in todo[r] /\ \A m \in todo[r] : n <= m
  /\ \/ /\ jobs' = IF r \in cancelled \/ r \notin events THEN jobs
                                                         ELSE jobs \cup {<<r, n>>}
        /\ NoFault
     \/ UNCHANGED jobs /\ Fault
  /\ todo' = [todo EXCEPT ![r] = @ \ {n}]
  /\ UNCHANGED <<pc, event, payload, answer, cancelled, events>>

\* Faulty: the handler returns before it has enqueued every job.
RespondEarly(r) ==
  /\ pc[r] = "enqueue"
  /\ Finish(r, "accepted")
  /\ UNCHANGED <<event, payload, todo, cancelled, events, jobs, faults>>

Respond(r) ==
  /\ pc[r] = "enqueue" /\ todo[r] = {}
  /\ Finish(r, "accepted")
  /\ UNCHANGED <<event, payload, todo, cancelled, events, jobs, faults>>

-----------------------------------------------------------------------------
\* GitLab gives up waiting, or the HTTP server's shutdown does.
Disconnect(r) ==
  /\ r \in InFlight \ cancelled /\ Fault
  /\ cancelled' = cancelled \cup {r}
  /\ UNCHANGED <<pc, event, payload, todo, answer, events, jobs>>

\* The handlers S end with the instance that runs them.
Killed(S) ==
  /\ pc' = [r \in Deliveries |-> IF r \in S THEN "done" ELSE pc[r]]
  /\ todo' = [r \in Deliveries |-> IF r \in S THEN {} ELSE todo[r]]
  /\ UNCHANGED <<event, payload, answer, cancelled, events, jobs>>

Crash == \E S \in SUBSET InFlight : S # {} /\ Killed(S) /\ Fault

-----------------------------------------------------------------------------
Handle(r) ==
  \/ Check(r) \/ Insert(r) \/ StatementError(r) \/ Plugins(r) \/ Respond(r)
  \/ \E n \in todo[r] : Enqueue(r, n)

Next ==
  \/ \E r \in Deliveries :
       \/ Refuse(r) \/ (\E p \in Payloads : Receive(r, p))
       \/ Handle(r) \/ Disconnect(r)
  \/ Crash

Spec == Init /\ [][Next]_vars

\* The Go scheduler runs every handler to its end.
FairSpec == Spec /\ \A r \in Deliveries : WF_vars(Handle(r))

-----------------------------------------------------------------------------
\* Every variable keeps its type.
TypeOK ==
  /\ pc \in [Deliveries -> PC]
  /\ event \in [Deliveries -> {Unrecognized} \cup {Parse(p) : p \in Payloads}]
  /\ payload \in [Deliveries -> {NoPayload} \cup Payloads]
  /\ todo \in [Deliveries -> SUBSET AllPlaces]
  /\ answer \in [Deliveries -> Answer]
  /\ cancelled \subseteq Deliveries /\ events \subseteq Deliveries
  /\ jobs \subseteq Deliveries \X AllPlaces
  /\ faults \in 0..MaxFaults

\* However many handlers of the same webhook pass the idempotency check together,
\* however often the webhook mentions an issue and in whatever spelling, the issue
\* gets at most one job for it: IssueKeys finds it once, the loser's event row is not
\* inserted and the foreign key of jobs rejects its jobs.
OneJobPerWebhook ==
  \A x, y \in jobs :
    event[x[1]].key = event[y[1]].key /\ IssueOf(x) = IssueOf(y) => x = y

\* The inductive invariant behind it.  A handler has an event to work on and goes
\* through the places of its keys; it goes on from its INSERT, and answers, only
\* with a row of its key in the table, its own or another's; its own goes in after
\* the idempotency check.
HandlerInv(r) ==
  /\ pc[r] \notin {"new", "done"} \/ r \in events =>
       event[r] \in {Parse(p) : p \in Payloads}
  /\ todo[r] # {} => pc[r] = "enqueue" /\ todo[r] \subseteq Places(event[r])
  /\ answer[r] # "none" => pc[r] = "done"
  /\ pc[r] \in {"plugins", "enqueue"} \/ answer[r] \in Taken => Exists(event[r].key)
  /\ r \in events => pc[r] \in {"plugins", "enqueue", "done"}

\* The unique constraint and the foreign key hold.
TablesInv ==
  /\ \A q, r \in events : event[q].key = event[r].key => q = r
  /\ \A x \in jobs : x[1] \in events /\ x[2] \in Places(event[x[1]])

EventsInv == TablesInv /\ \A r \in Deliveries : HandlerInv(r)

\* The tables and the answers, seen without the handlers, are those of Inbox: a
\* webhook is stored once, each of its issues is queued once, and only a stored
\* webhook is answered as taken, whatever fails on the way.
StoredKeys == {event[q].key : q \in events}
QueuedJobs == {<<x, event[x[1]].key, IssueOf(x)>> : x \in jobs}
ToldTaken  == {<<r, event[r].key>> : r \in {d \in Deliveries : answer[d] \in Taken}}

AnInbox ==
  INSTANCE Inbox WITH
    Keys   <- {Parse(p).key : p \in Payloads},
    Issues <- {Upper[s] : s \in DOMAIN Upper},
    Jobs   <- Deliveries \X AllPlaces,
    stored <- StoredKeys, queue <- QueuedJobs, told <- ToldTaken
InboxSpec == AnInbox!Spec

\* Whoever is told that a webhook is accepted or already processed, also while
\* another handler is still at it, will find its jobs in the queue, as long as no
\* statement fails and nothing crashes.
AnsweredIsQueued ==
  \A r \in Deliveries :
    answer[r] \in Taken ~>
      \/ faults > 0
      \/ \A n \in Places(event[r]) :
           \E x \in jobs : /\ event[x[1]].key = event[r].key
                           /\ IssueOf(x) = IssueKeysFromEvent(event[r])[n]

-----------------------------------------------------------------------------
\* What documents of the repository say and the code does not do.

\* data.md: "one row per (event, issue_key) pair": once its handler is done, every
\* persisted event has a job for each of its keys.  It needs every statement to
\* succeed: a later delivery is answered already_processed and repairs nothing.
OneRowPerKey ==
  \A r \in events :
    pc[r] = "done" => \A n \in Places(event[r]) : <<r, n>> \in jobs

\* README.md: "MR opened / reopened | non-draft | Code Review", every time.
ReopenGoesToReview ==
  \A r \in Deliveries :
    /\ event[r].type = "mr_opened" /\ payload[r].action = "reopen"
    /\ answer[r] = "already_processed"
    => \E q \in events : payload[q] = payload[r]

-----------------------------------------------------------------------------
\* The same while nothing fails: then no event is persisted without its jobs,
\* however the handlers of its deliveries interleave.
CalmRowsComplete == faults = 0 => OneRowPerKey

\* The inductive invariant behind it: a handler has enqueued what it need not do
\* any more.
RowsFilled ==
  \A r \in events : pc[r] \in {"enqueue", "done"} =>
    \A n \in Places(event[r]) \ todo[r] : <<r, n>> \in jobs

CalmInv == faults = 0 => cancelled = {} /\ RowsFilled
=============================================================================
