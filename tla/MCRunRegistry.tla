----------------------------- MODULE MCRunRegistry ------------------------------
(***************************************************************************)
(* Three runs, two of them at a time, one or two of them kept.             *)
(***************************************************************************)
EXTENDS RunRegistryInvariant

MCLimits == {1, 2}

================================================================================
