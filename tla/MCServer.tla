------------------------------- MODULE MCServer -------------------------------
(***************************************************************************)
(* One connection, from the accept to the shutdown.  Connections share the *)
(* listener and the group that the shutdown waits for, and nothing else.   *)
(***************************************************************************)
EXTENDS Server

CONSTANT k1

===============================================================================
