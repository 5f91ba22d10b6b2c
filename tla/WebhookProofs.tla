---------------------------- MODULE WebhookProofs ----------------------------
(***************************************************************************)
(* Theorems about Webhook, for any deliveries, payloads and faults.        *)
(***************************************************************************)
EXTENDS Webhook, TLAPS

Inv == TypeOK /\ EventsInv

LEMMA InvInit == Init => Inv
<1> SUFFICES ASSUME Init
             PROVE  Inv
  OBVIOUS
<1>1. TypeOK
  BY WebhookAssumption DEF Init, TypeOK, PC, Answer
<1>2. ASSUME NEW r \in Deliveries
      PROVE  HandlerInv(r)
  BY DEF Init, HandlerInv, Taken
<1> QED
  BY <1>1, <1>2 DEF Init, Inv, EventsInv, TablesInv

LEMMA FaultType ==
  ASSUME faults \in 0..MaxFaults, Fault \/ NoFault
  PROVE  faults' \in 0..MaxFaults
BY WebhookAssumption DEF Fault, NoFault

\* A step of one handler that leaves the events parsed so far and the tables alone.
LEMMA HandlerStep ==
  ASSUME Inv, NEW r \in Deliveries, TypeOK', HandlerInv(r)',
         UNCHANGED <<event, events, jobs>>,
         \A q \in Deliveries \ {r} :
           pc'[q] = pc[q] /\ todo'[q] = todo[q] /\ answer'[q] = answer[q]
  PROVE  Inv'
<1>1. TablesInv'
  BY DEF Inv, EventsInv, TablesInv
<1>2. ASSUME NEW q \in Deliveries \ {r}
      PROVE  HandlerInv(q)'
  BY DEF Inv, EventsInv, HandlerInv, Exists
<1> QED
  BY <1>1, <1>2 DEF Inv, EventsInv

\* The answer of a handler that ends, after its INSERT only if its key is stored.
LEMMA HandlerEnds ==
  ASSUME Inv, NEW r \in Deliveries, NEW a \in Answer,
         pc[r] \notin {"new", "done"},
         r \in events => pc[r] \in {"plugins", "enqueue"},
         a \in Taken => Exists(event[r].key),
         pc' = [pc EXCEPT ![r] = "done"], answer' = [answer EXCEPT ![r] = a],
         todo[r] = {}, faults' \in 0..MaxFaults,
         UNCHANGED <<event, payload, todo, cancelled, events, jobs>>
  PROVE  Inv'
<1>1. TypeOK'
  BY DEF Inv, TypeOK, PC
<1>2. pc'[r] = "done" /\ answer'[r] = a
  BY DEF Inv, TypeOK
<1>3. HandlerInv(r)'
  BY <1>2 DEF Inv, EventsInv, HandlerInv, Exists
<1>4. \A q \in Deliveries \ {r} :
        pc'[q] = pc[q] /\ todo'[q] = todo[q] /\ answer'[q] = answer[q]
  BY DEF Inv, TypeOK
<1> QED
  BY <1>1, <1>3, <1>4, HandlerStep

LEMMA InvRefuse ==
  ASSUME Inv, NEW r \in Deliveries, Refuse(r)
  PROVE  Inv'
<1>1. TypeOK'
  BY DEF Refuse, Finish, Inv, TypeOK, PC, Answer
<1>2. pc'[r] = "done" /\ answer'[r] = "refused" /\ todo' = todo /\ event' = event
      /\ events' = events /\ r \notin events /\ todo[r] = {}
  BY DEF Refuse, Finish, Inv, TypeOK, EventsInv, HandlerInv
<1>3. HandlerInv(r)'
  BY <1>2 DEF HandlerInv, Taken
<1> QED
  BY <1>1, <1>3, HandlerStep DEF Refuse, Finish, Inv, TypeOK

LEMMA InvReceive ==
  ASSUME Inv, NEW r \in Deliveries, NEW p \in Payloads, Receive(r, p)
  PROVE  Inv'
<1>1. /\ pc[r] = "new" /\ event' = [event EXCEPT ![r] = Parse(p)]
      /\ payload' = [payload EXCEPT ![r] = p]
      /\ UNCHANGED <<todo, cancelled, events, jobs, faults>>
  BY DEF Receive
<1>2. \/ pc' = [pc EXCEPT ![r] = "done"] /\ answer' = [answer EXCEPT ![r] = "ignored"]
      \/ pc' = [pc EXCEPT ![r] = "check"] /\ UNCHANGED answer
  BY DEF Receive, Finish, Proceed
<1>3. TypeOK'
  BY <1>1, <1>2 DEF Inv, TypeOK, PC, Answer
<1>4. /\ event'[r] = Parse(p)
      /\ \A q \in Deliveries : q # r =>
           event'[q] = event[q] /\ pc'[q] = pc[q] /\ answer'[q] = answer[q]
      /\ \/ pc'[r] = "done" /\ answer'[r] = "ignored"
         \/ pc'[r] = "check" /\ answer'[r] = answer[r]
  BY <1>1, <1>2 DEF Inv, TypeOK
<1>5. r \notin events /\ todo[r] = {} /\ answer[r] = "none"
  BY <1>1 DEF Inv, EventsInv, HandlerInv
<1>6. TablesInv'
  BY <1>1, <1>4, <1>5 DEF Inv, TypeOK, EventsInv, TablesInv
<1>7. HandlerInv(r)'
  BY <1>1, <1>4, <1>5 DEF HandlerInv, Taken
<1>8. ASSUME NEW q \in Deliveries, q # r
      PROVE  HandlerInv(q)'
  <2>1. Exists(event[q].key) => Exists(event[q].key)'
    BY <1>1, <1>4, <1>5, <1>8 DEF Exists, Inv, TypeOK
  <2> QED
    BY <1>1, <1>4, <1>8, <2>1 DEF Inv, EventsInv, HandlerInv
<1> QED
  BY <1>3, <1>6, <1>7, <1>8 DEF Inv, EventsInv

LEMMA InvCheck ==
  ASSUME Inv, NEW r \in Deliveries, Check(r)
  PROVE  Inv'
<1>1. pc[r] = "check" /\ r \notin events /\ todo[r] = {} /\ answer[r] = "none"
  BY DEF Check, Inv, EventsInv, HandlerInv
<1>2. faults' \in 0..MaxFaults /\ UNCHANGED <<event, payload, todo, cancelled, events, jobs>>
  BY DEF Check, Inv, TypeOK
<1>3. CASE Exists(event[r].key)
  BY <1>1, <1>2, <1>3, HandlerEnds DEF Check, Finish, Answer, Taken
<1>4. CASE ~Exists(event[r].key) /\ ~Actionable(event[r])
  BY <1>1, <1>2, <1>4, HandlerEnds DEF Check, Finish, Answer, Taken
<1>5. CASE ~Exists(event[r].key) /\ Actionable(event[r])
  <2>1. pc' = [pc EXCEPT ![r] = "insert"] /\ UNCHANGED answer
    BY <1>5 DEF Check, Proceed
  <2>2. TypeOK'
    BY <1>2, <2>1 DEF Inv, TypeOK, PC
  <2>3. HandlerInv(r)'
    BY <1>1, <1>2, <2>1 DEF Inv, TypeOK, EventsInv, HandlerInv, Taken
  <2> QED
    BY <1>2, <2>1, <2>2, <2>3, HandlerStep DEF Inv, TypeOK
<1> QED
  BY <1>3, <1>4, <1>5

\* The row goes in only when no other has its key.
LEMMA InvStored ==
  ASSUME Inv, TypeOK', NEW r \in Deliveries, pc[r] = "insert", events' = Stored(r),
         UNCHANGED <<event, todo, jobs>>,
         \/ pc' = [pc EXCEPT ![r] = "plugins"] /\ UNCHANGED answer
         \/ pc' = [pc EXCEPT ![r] = "done"] /\ answer' = [answer EXCEPT ![r] = "error"]
  PROVE  Inv'
<1>1. \A q \in Deliveries : q # r => pc'[q] = pc[q] /\ answer'[q] = answer[q]
  BY DEF Inv, TypeOK
<1>2. \/ pc'[r] = "plugins" /\ answer'[r] = answer[r]
      \/ pc'[r] = "done" /\ answer'[r] = "error"
  BY DEF Inv, TypeOK
<1>3. r \notin events /\ events \subseteq events' /\ events' \subseteq events \cup {r}
  BY DEF Stored, Inv, EventsInv, HandlerInv
<1>4. TablesInv'
  <2>1. CASE Exists(event[r].key)
    BY <2>1 DEF Stored, Inv, EventsInv, TablesInv
  <2>2. CASE ~Exists(event[r].key)
    BY <2>2 DEF Stored, Exists, Inv, TypeOK, EventsInv, TablesInv
  <2> QED
    BY <2>1, <2>2
<1>5. HandlerInv(r)'
  <2>1. Exists(event[r].key)'
    BY DEF Stored, Exists
  <2> QED
    BY <1>2, <2>1 DEF Inv, EventsInv, HandlerInv, Taken
<1>6. ASSUME NEW q \in Deliveries, q # r
      PROVE  HandlerInv(q)'
  BY <1>1, <1>3, <1>6 DEF Inv, EventsInv, HandlerInv, Exists
<1> QED
  BY <1>4, <1>5, <1>6 DEF Inv, EventsInv

LEMMA InvInsert ==
  ASSUME Inv, NEW r \in Deliveries, Insert(r)
  PROVE  Inv'
<1>1. TypeOK'
  BY DEF Insert, Stored, Proceed, Inv, TypeOK, PC
<1> QED
  BY <1>1, InvStored DEF Insert, Proceed

LEMMA InvStatementError ==
  ASSUME Inv, NEW r \in Deliveries, StatementError(r)
  PROVE  Inv'
<1>1. /\ pc[r] \in {"check", "insert"} /\ faults' \in 0..MaxFaults
      /\ \/ UNCHANGED events
         \/ pc[r] = "insert" /\ events' = Stored(r)
      /\ pc' = [pc EXCEPT ![r] = "done"] /\ answer' = [answer EXCEPT ![r] = "error"]
      /\ UNCHANGED <<event, payload, todo, cancelled, jobs>>
  BY FaultType DEF StatementError, Finish, Inv, TypeOK
<1>2. todo[r] = {} /\ r \notin events
  BY <1>1 DEF Inv, EventsInv, HandlerInv
<1>3. CASE UNCHANGED events
  BY <1>1, <1>2, <1>3, HandlerEnds DEF Answer, Taken
<1>4. CASE pc[r] = "insert" /\ events' = Stored(r)
  <2>1. TypeOK'
    BY <1>1, <1>4 DEF Stored, Inv, TypeOK, PC, Answer
  <2> QED
    BY <1>1, <1>4, <2>1, InvStored
<1> QED
  BY <1>1, <1>3, <1>4

LEMMA InvPlugins ==
  ASSUME Inv, NEW r \in Deliveries, Plugins(r)
  PROVE  Inv'
<1>1. Places(event[r]) \subseteq AllPlaces
  BY DEF Plugins, Inv, EventsInv, HandlerInv, AllPlaces
<1>2. TypeOK'
  BY <1>1 DEF Plugins, Proceed, Inv, TypeOK, PC
<1>3. HandlerInv(r)'
  BY DEF Plugins, Proceed, Inv, TypeOK, EventsInv, HandlerInv, Exists
<1> QED
  BY <1>2, <1>3, HandlerStep DEF Plugins, Proceed, Inv, TypeOK

LEMMA InvEnqueue ==
  ASSUME Inv, NEW r \in Deliveries, NEW n \in todo[r], Enqueue(r, n)
  PROVE  Inv'
<1>1. UNCHANGED <<pc, event, payload, answer, cancelled, events>>
  BY DEF Enqueue
<1>2. todo' = [todo EXCEPT ![r] = @ \ {n}] /\ faults' \in 0..MaxFaults
  BY FaultType DEF Enqueue, Inv, TypeOK
<1>3. jobs' = jobs \/ (r \in events /\ jobs' = jobs \cup {<<r, n>>})
  BY DEF Enqueue
<1>4. n \in AllPlaces /\ n \in Places(event[r])
  BY DEF Inv, TypeOK, EventsInv, HandlerInv
<1>5. TypeOK'
  BY <1>1, <1>2, <1>3, <1>4 DEF Inv, TypeOK
<1>6. TablesInv'
  BY <1>1, <1>3, <1>4 DEF Inv, EventsInv, TablesInv
<1>7. ASSUME NEW q \in Deliveries
      PROVE  HandlerInv(q)'
  <2>1. todo'[q] \subseteq todo[q]
    BY <1>2 DEF Inv, TypeOK
  <2> QED
    BY <1>1, <2>1 DEF Inv, EventsInv, HandlerInv, Exists
<1> QED
  BY <1>5, <1>6, <1>7 DEF Inv, EventsInv

LEMMA InvRespond ==
  ASSUME Inv, NEW r \in Deliveries, Respond(r)
  PROVE  Inv'
<1>1. Exists(event[r].key) /\ faults' \in 0..MaxFaults
  BY DEF Respond, Inv, TypeOK, EventsInv, HandlerInv
<1> QED
  BY <1>1, HandlerEnds DEF Respond, Finish, Answer, Taken

LEMMA InvDisconnect ==
  ASSUME Inv, NEW r \in Deliveries, Disconnect(r)
  PROVE  Inv'
<1>1. TypeOK'
  BY FaultType DEF Disconnect, Inv, TypeOK, InFlight
<1> QED
  BY <1>1 DEF Disconnect, Inv, EventsInv, TablesInv, HandlerInv, Exists

LEMMA InvKilled ==
  ASSUME Inv, NEW S \in SUBSET InFlight, Killed(S), faults' \in 0..MaxFaults
  PROVE  Inv'
<1>1. TypeOK'
  BY DEF Killed, Inv, TypeOK, PC
<1>2. TablesInv'
  BY DEF Killed, Inv, EventsInv, TablesInv
<1>3. ASSUME NEW q \in Deliveries
      PROVE  HandlerInv(q)'
  <2>1. CASE q \in S
    BY <2>1 DEF Killed, Inv, TypeOK, EventsInv, HandlerInv, Exists, InFlight, Taken
  <2>2. CASE q \notin S
    BY <2>2 DEF Killed, Inv, TypeOK, EventsInv, HandlerInv, Exists
  <2> QED
    BY <2>1, <2>2
<1> QED
  BY <1>1, <1>2, <1>3 DEF Inv, EventsInv

LEMMA InvNext == Inv /\ [Next]_vars => Inv'
<1> SUFFICES ASSUME Inv, [Next]_vars
             PROVE  Inv'
  OBVIOUS
<1>1. CASE Crash
  BY <1>1, InvKilled, FaultType DEF Crash, Inv, TypeOK
<1>2. CASE UNCHANGED vars
  BY <1>2 DEF vars, Inv, TypeOK, EventsInv, TablesInv, HandlerInv, Exists
<1> QED
  BY <1>1, <1>2, InvRefuse, InvReceive, InvCheck, InvInsert, InvStatementError,
     InvPlugins, InvEnqueue, InvRespond, InvDisconnect
  DEF Next, Handle

-----------------------------------------------------------------------------
\* Two places of one event have different keys: the later one would not be a first
\* mention.
LEMMA KeysDiffer ==
  ASSUME NEW p \in Payloads, NEW m \in Places(Parse(p)), NEW n \in Places(Parse(p)),
         IssueKeysFromEvent(Parse(p))[m] = IssueKeysFromEvent(Parse(p))[n]
  PROVE  m = n
<1>1. PICK t \in DOMAIN Matches : IssueKeysFromEvent(Parse(p)) = IssueKeys(t)
  BY WebhookAssumption DEF IssueKeysFromEvent
<1>2. /\ m \in FirstMentions(t) /\ n \in FirstMentions(t)
      /\ Upper[Matches[t][m]] = Upper[Matches[t][n]]
  BY <1>1 DEF Places, IssueKeys
<1>3. m \in Nat /\ n \in Nat /\ m >= 1 /\ n >= 1
  BY <1>2, GitLabAssumption DEF FirstMentions
<1>4. ~(m < n) /\ ~(n < m)
  BY <1>2, <1>3 DEF FirstMentions
<1> QED
  BY <1>3, <1>4

\* A place of an event has an issue key.
LEMMA KeysAreIssues ==
  ASSUME NEW p \in Payloads, NEW n \in Places(Parse(p))
  PROVE  IssueKeysFromEvent(Parse(p))[n] \in {Upper[u] : u \in DOMAIN Upper}
<1>1. PICK t \in DOMAIN Matches : IssueKeysFromEvent(Parse(p)) = IssueKeys(t)
  BY WebhookAssumption DEF IssueKeysFromEvent
<1>2. n \in DOMAIN Matches[t] /\ IssueKeysFromEvent(Parse(p))[n] = Upper[Matches[t][n]]
  BY <1>1 DEF Places, IssueKeys, FirstMentions
<1>3. Matches[t][n] \in DOMAIN Upper
  BY <1>2, GitLabAssumption
<1> QED
  BY <1>2, <1>3

LEMMA OneJobInv == Inv => OneJobPerWebhook
<1> SUFFICES ASSUME Inv, NEW x \in jobs, NEW y \in jobs,
                    event[x[1]].key = event[y[1]].key, IssueOf(x) = IssueOf(y)
             PROVE  x = y
  BY DEF OneJobPerWebhook
<1>1. x = <<x[1], x[2]>> /\ y = <<y[1], y[2]>> /\ x[1] \in Deliveries /\ y[1] \in Deliveries
  BY DEF Inv, TypeOK
<1>2. x[1] = y[1]
  BY DEF Inv, EventsInv, TablesInv
<1>3. PICK p \in Payloads : event[x[1]] = Parse(p)
  BY <1>1 DEF Inv, EventsInv, TablesInv, HandlerInv
<1>4. x[2] \in Places(Parse(p)) /\ y[2] \in Places(Parse(p))
  BY <1>2, <1>3 DEF Inv, EventsInv, TablesInv
<1>5. x[2] = y[2]
  BY <1>2, <1>3, <1>4, KeysDiffer DEF IssueOf
<1> QED
  BY <1>1, <1>2, <1>5

\* However many handlers of one webhook race, on any number of instances, with lost
\* answers, disconnects and crashes, and however often it mentions an issue, the
\* issue gets at most one job for it.
THEOREM DuplicatesAreHarmless == Spec => []OneJobPerWebhook
BY InvInit, InvNext, OneJobInv, PTL DEF Spec

\* The state of the handlers and the tables is well formed.
THEOREM WebhookTypes == Spec => []TypeOK
<1>1. Inv => TypeOK
  BY DEF Inv
<1> QED
  BY <1>1, InvInit, InvNext, PTL DEF Spec

-----------------------------------------------------------------------------
(* While nothing fails, no stored webhook loses a job. *)

LEMMA CalmNext == Inv /\ CalmInv /\ [Next]_vars => CalmInv'
<1> SUFFICES ASSUME Inv, CalmInv, [Next]_vars, faults' = 0
             PROVE  cancelled' = {} /\ RowsFilled'
  BY DEF CalmInv
<1>0. pc \in [Deliveries -> PC] /\ todo \in [Deliveries -> SUBSET AllPlaces]
  BY DEF Inv, TypeOK
<1>1. ~Fault
  BY DEF Fault, Inv, TypeOK
<1>2. faults = 0
  <2>1. Fault \/ NoFault
    BY DEF Next, Handle, Refuse, Receive, Check, Insert, StatementError, Plugins,
           Enqueue, Respond, Disconnect, Crash, NoFault, vars
  <2> QED
    BY <1>1, <2>1 DEF NoFault
<1>3. cancelled = {} /\ RowsFilled
  BY <1>2 DEF CalmInv
<1>4. \A r \in events :
        /\ r \in Deliveries
        /\ pc[r] \in {"plugins", "enqueue", "done"}
        /\ pc[r] # "enqueue" => todo[r] = {}
  BY DEF Inv, TypeOK, EventsInv, HandlerInv
<1>5. ASSUME NEW r \in Deliveries, Refuse(r)
      PROVE  cancelled' = {} /\ RowsFilled'
  <2>1. pc[r] = "new"
    BY <1>5 DEF Refuse
  <2>2. \A q \in events : pc'[q] = pc[q]
    BY <1>0, <1>4, <1>5, <2>1 DEF Refuse, Finish
  <2> QED
    BY <1>3, <1>5, <2>2 DEF Refuse, RowsFilled
<1>6. ASSUME NEW r \in Deliveries, NEW p \in Payloads, Receive(r, p)
      PROVE  cancelled' = {} /\ RowsFilled'
  <2>1. pc[r] = "new"
    BY <1>6 DEF Receive
  <2>2. \A q \in events : pc'[q] = pc[q] /\ event'[q] = event[q]
    BY <1>0, <1>4, <1>6, <2>1 DEF Receive, Finish, Proceed, Inv, TypeOK
  <2> QED
    BY <1>3, <1>6, <2>2 DEF Receive, RowsFilled
<1>7. ASSUME NEW r \in Deliveries, Check(r)
      PROVE  cancelled' = {} /\ RowsFilled'
  <2>1. pc[r] = "check"
    BY <1>7 DEF Check
  <2>2. \A q \in events : pc'[q] = pc[q]
    BY <1>0, <1>4, <1>7, <2>1 DEF Check, Finish, Proceed
  <2> QED
    BY <1>3, <1>7, <2>2 DEF Check, RowsFilled
<1>8. ASSUME NEW r \in Deliveries, Insert(r)
      PROVE  cancelled' = {} /\ RowsFilled'
  <2>1. \A q \in events' : q = r \/ q \in events
    BY <1>8 DEF Insert, Stored
  <2>2. pc'[r] = "plugins" /\ \A q \in events \ {r} : pc'[q] = pc[q]
    BY <1>0, <1>4, <1>8 DEF Insert, Proceed
  <2> QED
    BY <1>3, <1>8, <2>1, <2>2 DEF Insert, RowsFilled
<1>9. ASSUME NEW r \in Deliveries, StatementError(r)
      PROVE  FALSE
  BY <1>1, <1>3, <1>9 DEF StatementError
<1>10. ASSUME NEW r \in Deliveries, Plugins(r)
       PROVE  cancelled' = {} /\ RowsFilled'
  <2>1. /\ todo'[r] = Places(event[r])
        /\ \A q \in Deliveries \ {r} : pc'[q] = pc[q] /\ todo'[q] = todo[q]
    BY <1>0, <1>10 DEF Plugins, Proceed
  <2>2. UNCHANGED <<event, cancelled, events, jobs>>
    BY <1>10 DEF Plugins
  <2>3. \A q \in Deliveries : pc'[q] \in {"enqueue", "done"} => q = r \/ pc[q] \in {"enqueue", "done"}
    BY <2>1
  <2>4. ASSUME NEW q \in events, pc'[q] \in {"enqueue", "done"},
               NEW n \in Places(event[q]) \ todo'[q]
        PROVE  <<q, n>> \in jobs
    <3>1. q # r
      BY <2>1, <2>4
    <3> QED
      BY <1>3, <1>4, <2>1, <2>3, <2>4, <3>1 DEF RowsFilled
  <2> QED
    BY <1>3, <2>2, <2>4 DEF RowsFilled
<1>11. ASSUME NEW r \in Deliveries, NEW n \in todo[r], Enqueue(r, n)
       PROVE  cancelled' = {} /\ RowsFilled'
  <2>1. jobs' = IF r \in events THEN jobs \cup {<<r, n>>} ELSE jobs
    BY <1>1, <1>3, <1>11 DEF Enqueue
  <2>2. todo'[r] = todo[r] \ {n} /\ \A q \in Deliveries \ {r} : todo'[q] = todo[q]
    BY <1>0, <1>11 DEF Enqueue
  <2> QED
    BY <1>3, <1>4, <1>11, <2>1, <2>2 DEF Enqueue, RowsFilled
<1>12. ASSUME NEW r \in Deliveries, Respond(r)
       PROVE  cancelled' = {} /\ RowsFilled'
  <2>1. pc[r] = "enqueue" /\ todo[r] = {} /\ \A q \in Deliveries \ {r} : pc'[q] = pc[q]
    BY <1>0, <1>12 DEF Respond, Finish
  <2> QED
    BY <1>3, <1>4, <1>12, <2>1 DEF Respond, Finish, RowsFilled
<1>13. CASE UNCHANGED vars
  BY <1>3, <1>13 DEF vars, RowsFilled
<1> QED
  BY <1>1, <1>5, <1>6, <1>7, <1>8, <1>9, <1>10, <1>11, <1>12, <1>13
  DEF Next, Handle, Disconnect, Crash

\* While no statement fails and nothing crashes or disconnects, every webhook that is
\* stored gets a job for each of its issues, however its deliveries interleave.
THEOREM CalmWebhooksAreComplete == Spec => []CalmRowsComplete
<1>1. Init => CalmInv
  BY DEF Init, CalmInv, RowsFilled
<1>2. Inv /\ CalmInv => CalmRowsComplete
  <2> SUFFICES ASSUME Inv, CalmInv, faults = 0, NEW r \in events, pc[r] = "done",
                      NEW n \in Places(event[r])
               PROVE  <<r, n>> \in jobs
    BY DEF CalmRowsComplete, OneRowPerKey
  <2>1. todo[r] = {}
    BY DEF Inv, TypeOK, EventsInv, HandlerInv
  <2> QED
    BY <2>1 DEF CalmInv, RowsFilled
<1> QED
  BY <1>1, <1>2, InvInit, InvNext, CalmNext, PTL DEF Spec

-----------------------------------------------------------------------------
(* The tables and the answers are those of Inbox. *)

\* A step that changes no row, no answer, and no event but of a new handler.
LEMMA InboxUnseen ==
  ASSUME Inv, UNCHANGED <<answer, events, jobs>>,
         \A q \in Deliveries : pc[q] # "new" => event'[q] = event[q]
  PROVE  UNCHANGED AnInbox!vars
<1>1. \A q \in Deliveries : q \in events \/ answer[q] \in Taken => event'[q] = event[q]
  BY DEF Inv, EventsInv, HandlerInv, Taken
<1>2. StoredKeys' = StoredKeys
  BY <1>1 DEF StoredKeys, Inv, TypeOK
<1>3. QueuedJobs' = QueuedJobs
  BY <1>1 DEF QueuedJobs, IssueOf, Inv, TypeOK, EventsInv, TablesInv
<1>4. ToldTaken' = ToldTaken
  BY <1>1 DEF ToldTaken
<1> QED
  BY <1>2, <1>3, <1>4 DEF AnInbox!vars

\* An answer of a handler, also to a webhook just received.
LEMMA InboxAnswer ==
  ASSUME Inv, NEW r \in Deliveries, NEW a \in Answer, answer' = [answer EXCEPT ![r] = a],
         answer[r] = "none", a \in Taken => Exists(event[r].key) /\ event' = event
            /\ event[r].key \in {Parse(p).key : p \in Payloads},
         \A q \in Deliveries : pc[q] # "new" => event'[q] = event[q],
         UNCHANGED <<events, jobs>>
  PROVE  [AnInbox!Next]_AnInbox!vars
<1>1. \A q \in Deliveries : q \in events \/ answer[q] \in Taken => event'[q] = event[q]
  BY DEF Inv, EventsInv, HandlerInv, Taken
<1>2. StoredKeys' = StoredKeys
  BY <1>1 DEF StoredKeys, Inv, TypeOK
<1>3. QueuedJobs' = QueuedJobs
  BY <1>1 DEF QueuedJobs, IssueOf, Inv, TypeOK, EventsInv, TablesInv
<1>4. answer'[r] = a /\ \A q \in Deliveries \ {r} : answer'[q] = answer[q]
  BY DEF Inv, TypeOK
<1>5. CASE a \in Taken
  <2>1. event' = event /\ event[r].key \in StoredKeys
    BY <1>5 DEF Exists, StoredKeys
  <2>2. ToldTaken' = ToldTaken \cup {<<r, event[r].key>>}
    BY <1>4, <1>5, <2>1 DEF ToldTaken, Taken
  <2>3. AnInbox!Tell(r, event[r].key)
    BY <1>2, <1>3, <2>1, <2>2 DEF AnInbox!Tell
  <2> QED
    BY <1>5, <2>3 DEF AnInbox!Next
<1>6. CASE a \notin Taken
  <2>1. ToldTaken' = ToldTaken
    BY <1>1, <1>4, <1>6 DEF ToldTaken, Taken
  <2> QED
    BY <1>2, <1>3, <2>1 DEF AnInbox!vars
<1> QED
  BY <1>5, <1>6

LEMMA InboxStored ==
  ASSUME Inv, NEW r \in Deliveries, pc[r] = "insert", events' = Stored(r),
         UNCHANGED <<event, jobs>>,
         UNCHANGED answer \/ answer' = [answer EXCEPT ![r] = "error"]
  PROVE  [AnInbox!Next]_AnInbox!vars
<1>1. QueuedJobs' = QueuedJobs
  BY DEF QueuedJobs, IssueOf
<1>2. answer[r] = "none" /\ event[r].key \in {Parse(p).key : p \in Payloads}
  BY DEF Inv, EventsInv, HandlerInv
<1>3. \A q \in Deliveries : answer'[q] \in Taken <=> answer[q] \in Taken
  BY <1>2 DEF Inv, TypeOK, Taken
<1>4. ToldTaken' = ToldTaken
  BY <1>3 DEF ToldTaken
<1>5. CASE Exists(event[r].key)
  BY <1>1, <1>4, <1>5 DEF Stored, StoredKeys, AnInbox!vars
<1>6. CASE ~Exists(event[r].key)
  <2>1. event[r].key \notin StoredKeys /\ StoredKeys' = StoredKeys \cup {event[r].key}
    BY <1>6 DEF Stored, StoredKeys, Exists
  <2>2. AnInbox!Store(event[r].key)
    BY <1>1, <1>4, <2>1 DEF AnInbox!Store
  <2> QED
    BY <1>2, <2>2 DEF AnInbox!Next
<1> QED
  BY <1>5, <1>6

\* A row that goes in is queued, for an issue of its webhook.
LEMMA InboxQueue ==
  ASSUME Inv, OneJobPerWebhook', NEW r \in Deliveries, NEW n \in todo[r],
         Enqueue(r, n), jobs' # jobs
  PROVE  /\ AnInbox!Queue(<<r, n>>, event[r].key, IssueOf(<<r, n>>))
         /\ event[r].key \in {Parse(p).key : p \in Payloads}
         /\ IssueOf(<<r, n>>) \in {Upper[u] : u \in DOMAIN Upper}
         /\ <<r, n>> \in Deliveries \X AllPlaces
<1> DEFINE x == <<r, n>>
           k == event[r].key
<1>1. /\ UNCHANGED <<event, answer, events>>
      /\ r \in events /\ jobs' = jobs \cup {x} /\ x \notin jobs
  BY DEF Enqueue
<1>2. StoredKeys' = StoredKeys /\ ToldTaken' = ToldTaken /\ k \in StoredKeys
  BY <1>1 DEF StoredKeys, ToldTaken
<1>3. QueuedJobs' = QueuedJobs \cup {<<x, k, IssueOf(x)>>}
  BY <1>1 DEF QueuedJobs, IssueOf
<1>4. ASSUME NEW y \in jobs
      PROVE  y # x /\ ~(event[y[1]].key = k /\ IssueOf(y) = IssueOf(x))
  BY <1>1 DEF OneJobPerWebhook, IssueOf
<1>5. \A e \in QueuedJobs : e[1] # x /\ ~(e[2] = k /\ e[3] = IssueOf(x))
  BY <1>4 DEF QueuedJobs
<1>6. AnInbox!Queue(x, k, IssueOf(x))
  BY <1>2, <1>3, <1>5 DEF AnInbox!Queue
<1>7. PICK p \in Payloads : event[r] = Parse(p)
  BY <1>1 DEF Inv, EventsInv, HandlerInv, Enqueue
<1>8. n \in Places(Parse(p)) /\ x \in Deliveries \X AllPlaces
  BY <1>7 DEF Inv, TypeOK, EventsInv, HandlerInv
<1>9. IssueOf(x) \in {Upper[u] : u \in DOMAIN Upper}
  BY <1>7, <1>8, KeysAreIssues DEF IssueOf
<1> QED
  BY <1>6, <1>7, <1>8, <1>9

LEMMA InboxEnqueue ==
  ASSUME Inv, OneJobPerWebhook', NEW r \in Deliveries, NEW n \in todo[r],
         Enqueue(r, n)
  PROVE  [AnInbox!Next]_AnInbox!vars
<1>1. CASE jobs' = jobs
  BY <1>1 DEF Enqueue, StoredKeys, ToldTaken, QueuedJobs, IssueOf, AnInbox!vars
<1>2. CASE jobs' # jobs
  BY <1>2, InboxQueue DEF AnInbox!Next
<1> QED
  BY <1>1, <1>2

LEMMA InboxNext ==
  Inv /\ OneJobPerWebhook' /\ [Next]_vars => [AnInbox!Next]_AnInbox!vars
<1> SUFFICES ASSUME Inv, OneJobPerWebhook', [Next]_vars
             PROVE  [AnInbox!Next]_AnInbox!vars
  OBVIOUS
<1>1. ASSUME NEW r \in Deliveries, Refuse(r)
      PROVE  [AnInbox!Next]_AnInbox!vars
  <2>1. answer[r] = "none"
    BY <1>1 DEF Refuse, Inv, EventsInv, HandlerInv
  <2> QED
    BY <1>1, <2>1, InboxAnswer DEF Refuse, Finish, Answer, Taken
<1>2. ASSUME NEW r \in Deliveries, NEW p \in Payloads, Receive(r, p)
      PROVE  [AnInbox!Next]_AnInbox!vars
  <2>1. pc[r] = "new" /\ event' = [event EXCEPT ![r] = Parse(p)] /\ UNCHANGED <<events, jobs>>
    BY <1>2 DEF Receive
  <2>2. answer[r] = "none" /\ \A q \in Deliveries : pc[q] # "new" => event'[q] = event[q]
    BY <2>1 DEF Inv, TypeOK, EventsInv, HandlerInv
  <2>3. answer' = [answer EXCEPT ![r] = "ignored"] \/ UNCHANGED answer
    BY <1>2 DEF Receive, Finish, Proceed
  <2> QED
    BY <2>1, <2>2, <2>3, InboxAnswer, InboxUnseen DEF Answer, Taken
<1>3. ASSUME NEW r \in Deliveries, Check(r)
      PROVE  [AnInbox!Next]_AnInbox!vars
  <2>1. /\ answer[r] = "none" /\ event[r].key \in {Parse(p).key : p \in Payloads}
        /\ UNCHANGED <<event, events, jobs>>
    BY <1>3 DEF Check, Inv, EventsInv, HandlerInv
  <2>2. CASE Exists(event[r].key)
    BY <1>3, <2>1, <2>2, InboxAnswer DEF Check, Finish, Answer
  <2>3. CASE ~Exists(event[r].key)
    BY <1>3, <2>1, <2>3, InboxAnswer, InboxUnseen DEF Check, Finish, Proceed, Answer, Taken
  <2> QED
    BY <2>2, <2>3
<1>4. ASSUME NEW r \in Deliveries, Insert(r)
      PROVE  [AnInbox!Next]_AnInbox!vars
  BY <1>4, InboxStored DEF Insert, Proceed
<1>5. ASSUME NEW r \in Deliveries, StatementError(r)
      PROVE  [AnInbox!Next]_AnInbox!vars
  <2>1. /\ answer[r] = "none" /\ answer' = [answer EXCEPT ![r] = "error"]
        /\ UNCHANGED <<event, jobs>>
        /\ UNCHANGED events \/ (pc[r] = "insert" /\ events' = Stored(r))
    BY <1>5 DEF StatementError, Finish, Inv, EventsInv, HandlerInv
  <2> QED
    BY <2>1, InboxAnswer, InboxStored DEF Answer, Taken
<1>6. ASSUME NEW r \in Deliveries, Respond(r)
      PROVE  [AnInbox!Next]_AnInbox!vars
  <2>1. /\ pc[r] = "enqueue" /\ answer' = [answer EXCEPT ![r] = "accepted"]
        /\ UNCHANGED <<event, events, jobs>>
    BY <1>6 DEF Respond, Finish
  <2>2. /\ answer[r] = "none" /\ Exists(event[r].key)
        /\ event[r].key \in {Parse(p).key : p \in Payloads}
    BY <2>1 DEF Inv, EventsInv, HandlerInv
  <2> QED
    BY <2>1, <2>2, InboxAnswer DEF Answer
<1>7. ASSUME NEW r \in Deliveries, Plugins(r) \/ Disconnect(r)
      PROVE  UNCHANGED AnInbox!vars
  BY <1>7, InboxUnseen DEF Plugins, Proceed, Disconnect
<1>8. CASE Crash
  BY <1>8, InboxUnseen DEF Crash, Killed
<1>9. CASE UNCHANGED vars
  BY <1>9, InboxUnseen DEF vars
<1> QED
  BY <1>1, <1>2, <1>3, <1>4, <1>5, <1>6, <1>7, <1>8, <1>9, InboxEnqueue DEF Next, Handle

\* A webhook is stored once, each of its issues is queued once, and it is answered as
\* taken only when it is stored, whatever races, is lost or crashes.
THEOREM WebhookImplementsInbox == Spec => InboxSpec
<1>1. Init => AnInbox!Init
  BY DEF Init, AnInbox!Init, StoredKeys, QueuedJobs, ToldTaken, Taken
<1> QED
  BY <1>1, InvInit, InvNext, OneJobInv, InboxNext, PTL
  DEF Spec, InboxSpec, AnInbox!Spec
=============================================================================
