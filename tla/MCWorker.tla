------------------------------ MODULE MCWorker ------------------------------
(***************************************************************************)
(* Values for the constants of Worker that a configuration cannot write.   *)
(***************************************************************************)
EXTENDS WorkerProperties, TLC

CONSTANTS i1, i2, j1, j2

\* Targets: both jobs move to a state of the transition map, or the second one
\* to in_progress.
TargetReview  == [j \in Jobs |-> "code_review"]
TargetMixed   == [j \in Jobs |-> IF j = j1 THEN "code_review" ELSE "in_progress"]

\* nextBackoff in ticks, for polls much finer than the base delay.
Backoff1 == [a \in 0..MaxAttempts |-> 1]

NoSkew     == [i \in Instances |-> 0]
\* The host of i1 is a tick ahead of the database, that of i2 a tick behind.
SkewApart  == [i \in Instances |-> IF i = i1 THEN 1 ELSE -1]

Symmetry == Permutations(Instances) \cup Permutations(Jobs)
=============================================================================
