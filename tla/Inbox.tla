------------------------------- MODULE Inbox --------------------------------
(***************************************************************************)
(* What the webhook side promises GitLab and the job queue, with no        *)
(* handlers, statements or faults: GitLab may send a webhook many times,   *)
(* under one idempotency key; it is stored once, each issue it mentions is *)
(* queued at most once, and nobody is told that it is taken before it is.  *)
(***************************************************************************)

CONSTANTS Deliveries,  \* the times a webhook is sent
          Keys,        \* idempotency keys
          Issues,      \* issue keys
          Jobs         \* ids of jobs

VARIABLES stored,      \* the keys of the webhooks that are taken
          queue,       \* the jobs: <<id, idempotency key, issue key>>
          told         \* who was told that which webhook is taken

vars == <<stored, queue, told>>

Init == stored = {} /\ queue = {} /\ told = {}

Store(k) ==
  /\ k \notin stored
  /\ stored' = stored \cup {k}
  /\ UNCHANGED <<queue, told>>

Queue(j, k, issue) ==
  /\ k \in stored
  /\ \A e \in queue : e[1] # j /\ ~(e[2] = k /\ e[3] = issue)
  /\ queue' = queue \cup {<<j, k, issue>>}
  /\ UNCHANGED <<stored, told>>

Tell(d, k) ==
  /\ k \in stored
  /\ told' = told \cup {<<d, k>>}
  /\ UNCHANGED <<stored, queue>>

Next ==
  \E k \in Keys :
    \/ Store(k)
    \/ \E j \in Jobs, issue \in Issues : Queue(j, k, issue)
    \/ \E d \in Deliveries : Tell(d, k)

Spec == Init /\ [][Next]_vars
=============================================================================
