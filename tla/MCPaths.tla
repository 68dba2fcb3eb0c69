------------------------------- MODULE MCPaths -------------------------------
(***************************************************************************)
(* AELPaths for TLC.  Two names, three entries and paths of up to three    *)
(* components are enough for a directory, another one and a link between   *)
(* them.                                                                   *)
(***************************************************************************)
EXTENDS AELPaths
=============================================================================
