----------------------------- MODULE MCPipeline -----------------------------
(***************************************************************************)
(* Model-checking instances of Pipeline.                                  *)
(***************************************************************************)
EXTENDS Pipeline

\* time_created follows the record id: the OS clock never goes back.
MC_TimeCreated == [r \in 1..NumEvents |-> r]
=============================================================================
