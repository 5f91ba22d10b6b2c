----------------------------- MODULE MainProofs -----------------------------
(***************************************************************************)
(* Theorems about Main, for any requests, settings, file and environment.  *)
(***************************************************************************)
EXTENDS Main, TLAPS

\* After the select no request is accepted, so those that Shutdown saw finish are the
\* last; bgWg is counted down before the pool is closed, and no statement begins once
\* it is being closed.
Ends ==
  /\ main \in {"shutdown", "wait", "close", "exited"} => listener # "open"
  /\ main \in {"wait", "close", "exited"} /\ ~timedOut => handlers = {}
  /\ main \in {"close", "exited"} => bg = {}
  /\ main = "exited" => querying = {}

Inv == TypeOK /\ Ends

LEMMA InvInit == Init => Inv
BY DEF Init, Inv, TypeOK, Ends

LEMMA InvNext == Inv /\ [Next]_vars => Inv'
<1> SUFFICES ASSUME Inv, [Next]_vars
             PROVE  Inv'
  OBVIOUS
<1> USE DEF Inv, TypeOK, Ends, Gone, world
<1>1. CASE Load
  BY <1>1 DEF Load, Loaded
<1>2. CASE Validate
  BY <1>2 DEF Validate
<1>3. CASE Connect
  BY <1>3 DEF Connect
<1>4. CASE Kill \/ Signal \/ ListenError
  BY <1>4 DEF Kill, Signal, ListenError, Up
<1>5. CASE Leave \/ Drained \/ Timeout
  BY <1>5 DEF Leave, Drained, Timeout
<1>6. CASE Wait \/ Exit
  BY <1>6 DEF Wait, Exit
<1>7. ASSUME NEW r \in Requests, Accept(r) \/ Handled(r)
      PROVE  Inv'
  BY <1>7 DEF Accept, Handled, Up
<1>8. ASSUME NEW r \in Requests, Query(r) \/ Answer(r)
      PROVE  Inv'
  BY <1>8 DEF Query, Answer, Up
<1>9. ASSUME NEW b \in Background, Return(b) \/ Panic(b)
      PROVE  Inv'
  BY <1>9 DEF Return, Panic, Up
<1>10. CASE UNCHANGED vars
  BY <1>10 DEF vars
<1> QED
  BY <1>1, <1>2, <1>3, <1>4, <1>5, <1>6, <1>7, <1>8, <1>9, <1>10 DEF Next, MainStep

\* Whatever ends the select, main ends after its workers and after every statement of
\* a request, and before a request itself only when Shutdown timed out.
THEOREM ExitCutsNothingOff == Spec => [](TypeOK /\ NothingCutOff)
<1>1. Inv => TypeOK /\ NothingCutOff
  BY DEF Inv, Ends, NothingCutOff
<1> QED
  BY <1>1, InvInit, InvNext, PTL DEF Spec
=============================================================================
