----------------------------- MODULE MCSchedule -----------------------------
(***************************************************************************)
(* Values for the constants of Schedule.                                   *)
(***************************************************************************)
EXTENDS Schedule

\* New York in winter, London, Kiritimati.
Zones == {-5, 0, 14}
=============================================================================
