------------------------------ MODULE MCSystem ------------------------------
(***************************************************************************)
(* Values for the constants of System: a webhook delivered twice.          *)
(***************************************************************************)
EXTENDS System, TLC

CONSTANTS i1, i2, r1, r2

Found == "" :> <<>> @@ "RIS-1-login" :> <<"RIS-1">>
InUpperCase == "RIS-1" :> "RIS-1"

Merge == [kind |-> "merge_request", project |-> 7, iid |-> 3, action |-> "merge",
          draft |-> FALSE, source |-> "RIS-1-login", target |-> "develop", title |-> ""]

SentTwice == [r \in Deliveries |-> Merge]

\* The redelivery goes to the other instance.
OneEach == r1 :> {i1} @@ r2 :> {i2}

Backoff1 == [a \in 0..MaxAttempts |-> 1]
NoSkew   == [i \in Instances |-> 0]
=============================================================================
