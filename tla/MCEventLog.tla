------------------------------- MODULE MCEventLog -------------------------------
(***************************************************************************)
(* Instances of EventLog for TLC.                                          *)
(***************************************************************************)
EXTENDS EventLogInvariant, TLC

\* The clients do the same thing.
ClientSymmetry == Permutations(Clients)

================================================================================
