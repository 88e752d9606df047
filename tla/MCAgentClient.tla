----------------------------- MODULE MCAgentClient -----------------------------
(***************************************************************************)
(* Small instances of AgentClient: two runs, of which the page may create  *)
(* the second, and a reader who leaves for the other one.                  *)
(***************************************************************************)
EXTENDS AgentClientInvariant

MCRuns == {"a", "b"}

\* No two texts are the same.
MCOwnWords(text) == text

================================================================================
