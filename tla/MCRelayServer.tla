---------------------------- MODULE MCRelayServer ----------------------------
(***************************************************************************)
(* Model-checking instances of RelayServer.  Connections are               *)
(* interchangeable except that one peer sends more frames than the others. *)
(***************************************************************************)
EXTENDS RelayServer

CONSTANT Busy       \* the connection whose peer sends two frames

MCMaxFrames == [c \in Conn |-> IF c = Busy THEN 2 ELSE 1]
==============================================================================
