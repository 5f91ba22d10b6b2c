-------------------------------- MODULE Main --------------------------------
(***************************************************************************)
(* cmd/glsync/main.go with internal/config: how one process starts, serves *)
(* and ends.  main loads and validates its configuration, connects to the  *)
(* database, starts the goroutines of the processor and of the reconciler  *)
(* and the HTTP server, and waits in a select for the signal or for the    *)
(* server to fail.  It then shuts the server down, waits for the goroutines,*)
(* which return only when their context is cancelled, and closes the pool of*)
(* database connections, which waits for those that are in use.            *)
(*                                                                         *)
(* What Processor.Run does until it returns is in Worker, what a handler   *)
(* does in Webhook.  A crash is in both of them.                           *)
(***************************************************************************)
EXTENDS Integers

CONSTANTS Requests,          \* the requests that may be in flight at once
          Optional,          \* settings an environment variable overrides, not required
          FileOnly,          \* settings that only the file sets
          ReconcileEnabled   \* reconcile.enabled

ASSUME MainAssumption == ReconcileEnabled \in BOOLEAN

VARIABLES file,       \* what the YAML file sets, if it can be read and parsed
          env,        \* the settings whose GLSYNC_ variable is set and not empty
          zero,       \* the loops whose interval in the file is not positive
          cfg,        \* where the value of each setting comes from
          main,       \* where the main goroutine is, or how the process ended
          ctxDone,    \* whether the context of signal.NotifyContext is cancelled
          listener,   \* what became of ListenAndServe
          handlers,   \* the requests being handled
          querying,   \* those of them that hold a connection, inside a statement
          timedOut,   \* whether Shutdown gave up on some of them
          bg          \* the background goroutines that bgWg counts

world == <<file, env, zero>>
vars  == <<world, cfg, main, ctxDone, listener, handlers, querying, timedOut, bg>>

Background == {"processor"} \cup (IF ReconcileEnabled THEN {"reconciler"} ELSE {})

\* Validate asks for these; none of them has a default.
Required == {"webhook_secret", "jira_username", "jira_token", "database_url"}
Settings == Required \cup Optional \cup FileOnly

Unreadable == {"unreadable"}
NoValue    == "none"

Gone == {"failed", "killed", "panicked", "exited"}
Up   == main \in {"select", "shutdown", "wait", "close"}

Init ==
  /\ file \in SUBSET Settings \cup {Unreadable}
  /\ env \in SUBSET Settings /\ zero \in SUBSET Background
  /\ cfg = [s \in Settings |-> NoValue]
  /\ main = "load" /\ ctxDone = FALSE
  /\ listener = "none" /\ handlers = {} /\ querying = {} /\ timedOut = FALSE
  /\ bg = {}

-----------------------------------------------------------------------------
(* Startup *)

\* The defaults, then the file over them, then over both the eight variables that
\* applyEnv looks up; a variable named after any other setting is never read.
Loaded ==
  [s \in Settings |-> IF s \in env \ FileOnly THEN "env"
                     ELSE IF s \in file THEN "file" ELSE NoValue]

Load ==
  /\ main = "load"
  /\ \/ file = Unreadable /\ main' = "failed" /\ UNCHANGED cfg
     \/ file # Unreadable /\ main' = "validate" /\ cfg' = Loaded
  /\ UNCHANGED <<world, ctxDone, listener, handlers, querying, timedOut, bg>>

\* Only that the required settings are there: not the base URL of Jira, no interval.
Validate ==
  /\ main = "validate"
  /\ main' = IF \E s \in Required : cfg[s] = NoValue THEN "failed" ELSE "connect"
  /\ UNCHANGED <<world, cfg, ctxDone, listener, handlers, querying, timedOut, bg>>

\* NewPool pings the database, with no deadline; a failure ends the process, and so
\* does the signal meanwhile.  Then the two loops and the server start.
Connect ==
  /\ main = "connect"
  /\ \/ main' = "failed" /\ UNCHANGED <<listener, bg>>
     \/ ~ctxDone /\ main' = "select" /\ listener' = "open" /\ bg' = Background
  /\ UNCHANGED <<world, cfg, ctxDone, handlers, querying, timedOut>>

\* A signal before signal.NotifyContext ends the process at once.
Kill ==
  /\ main \in {"load", "validate"}
  /\ main' = "killed"
  /\ UNCHANGED <<world, cfg, ctxDone, listener, handlers, querying, timedOut, bg>>

-----------------------------------------------------------------------------
\* SIGINT or SIGTERM.  A second one changes nothing: stop() runs when main ends.
Signal ==
  /\ main = "connect" \/ Up
  /\ ~ctxDone /\ ctxDone' = TRUE
  /\ UNCHANGED <<world, cfg, main, listener, handlers, querying, timedOut, bg>>

\* ListenAndServe fails, to bind the port or to accept, and Start sends the error.
ListenError ==
  /\ Up /\ listener = "open"
  /\ listener' = "failed"
  /\ UNCHANGED <<world, cfg, main, ctxDone, handlers, querying, timedOut, bg>>

Accept(r) ==
  /\ Up /\ listener = "open" /\ r \notin handlers
  /\ handlers' = handlers \cup {r}
  /\ UNCHANGED <<world, cfg, main, ctxDone, listener, querying, timedOut, bg>>

\* The handler acquires a connection for a statement, of a webhook or of the health
\* check; a pool that is being closed has none to give.
Query(r) ==
  /\ Up /\ main # "close" /\ r \in handlers \ querying
  /\ querying' = querying \cup {r}
  /\ UNCHANGED <<world, cfg, main, ctxDone, listener, handlers, timedOut, bg>>

\* The statement ends, with a result or an error, and its connection is returned.
Answer(r) ==
  /\ Up /\ r \in querying
  /\ querying' = querying \ {r}
  /\ UNCHANGED <<world, cfg, main, ctxDone, listener, handlers, timedOut, bg>>

Handled(r) ==
  /\ Up /\ r \in handlers \ querying
  /\ handlers' = handlers \ {r}
  /\ UNCHANGED <<world, cfg, main, ctxDone, listener, querying, timedOut, bg>>

\* Processor.Run or Reconciler.Run returns, and with it its goroutine.
Return(b) ==
  /\ Up /\ b \in bg \ zero /\ ctxDone
  /\ bg' = bg \ {b}
  /\ UNCHANGED <<world, cfg, main, ctxDone, listener, handlers, querying, timedOut>>

\* Run begins with time.NewTicker, which panics unless the interval is positive; a
\* panic in a goroutine is the end of the process.
Panic(b) ==
  /\ Up /\ b \in bg \cap zero
  /\ main' = "panicked"
  /\ UNCHANGED <<world, cfg, ctxDone, listener, handlers, querying, timedOut, bg>>

-----------------------------------------------------------------------------
\* The select ends and srv.Shutdown begins: it closes the listener at once.
Leave ==
  /\ main = "select" /\ (ctxDone \/ listener = "failed")
  /\ main' = "shutdown"
  /\ listener' = IF listener = "open" THEN "closed" ELSE listener
  /\ UNCHANGED <<world, cfg, ctxDone, handlers, querying, timedOut, bg>>

\* srv.Shutdown returns when no request is in flight, or at its timeout.
Drained ==
  /\ main = "shutdown" /\ handlers = {}
  /\ main' = "wait"
  /\ UNCHANGED <<world, cfg, ctxDone, listener, handlers, querying, timedOut, bg>>

\* Faulty: Shutdown has no deadline.
NoTimeout == FALSE /\ UNCHANGED vars

Timeout ==
  /\ main = "shutdown" /\ handlers # {}
  /\ main' = "wait" /\ timedOut' = TRUE
  /\ UNCHANGED <<world, cfg, ctxDone, listener, handlers, querying, bg>>

\* Faulty: main does not wait for the background goroutines.
WaitForNone ==
  /\ main = "wait"
  /\ main' = "close"
  /\ UNCHANGED <<world, cfg, ctxDone, listener, handlers, querying, timedOut, bg>>

\* bgWg.Wait() returns, main returns, and its deferred pool.Close() begins: from now
\* on no connection is given out.
Wait ==
  /\ main = "wait" /\ bg = {}
  /\ main' = "close"
  /\ UNCHANGED <<world, cfg, ctxDone, listener, handlers, querying, timedOut, bg>>

\* pool.Close() has every connection back and returns, and the process is gone.
Exit ==
  /\ main = "close" /\ querying = {}
  /\ main' = "exited"
  /\ UNCHANGED <<world, cfg, ctxDone, listener, handlers, querying, timedOut, bg>>

-----------------------------------------------------------------------------
MainStep == Load \/ Validate \/ Leave \/ Drained \/ Timeout \/ Wait \/ Exit

Next ==
  \/ Kill \/ Signal \/ ListenError \/ MainStep \/ Connect
  \/ \E r \in Requests : Accept(r) \/ Query(r) \/ Answer(r) \/ Handled(r)
  \/ \E b \in Background : Return(b) \/ Panic(b)

Spec == Init /\ [][Next]_vars

\* main goes on, and the background loops notice their context: for the processor
\* that is ShutdownReturns of Worker.  A request may take forever, its statement too,
\* for Shutdown does not cancel the context of a request; and so may the connection
\* to the database, until the context is cancelled.
FairSpec ==
  /\ Spec /\ WF_vars(MainStep) /\ WF_vars(ctxDone /\ Connect)
  /\ \A b \in Background : WF_vars(Return(b) \/ Panic(b))

-----------------------------------------------------------------------------
\* Every variable keeps its type.
TypeOK ==
  /\ cfg \in [Settings -> {NoValue, "file", "env"}]
  /\ main \in {"load", "validate", "connect", "select", "shutdown", "wait", "close"} \cup Gone
  /\ ctxDone \in BOOLEAN /\ timedOut \in BOOLEAN
  /\ listener \in {"none", "open", "failed", "closed"}
  /\ handlers \subseteq Requests /\ querying \subseteq handlers /\ bg \subseteq Background

\* When main returns, no worker is running, no request is inside a statement, and one
\* is left at all only after the shutdown timeout: on either way out of its select
\* main waits for all of them.  (A panic of a goroutine waits for nothing.)
NothingCutOff ==
  main = "exited" => bg = {} /\ querying = {} /\ (handlers # {} => timedOut)

\* Once signalled the process ends, whether it still connects to the database or has
\* requests and jobs in flight.  One thing can keep it: pool.Close(), which has no
\* timeout, waits for the connection of a request whose statement never ends.
SignalEnds ==
  ctxDone ~> (main \in Gone \/ [](main = "close" /\ querying # {}))

\* "Graceful shutdown: HTTP first, then wait for in-flight jobs to drain" is also
\* the way out after an error of the HTTP server: the process should end.
ServerErrorEnds == listener = "failed" ~> main \in Gone
=============================================================================
