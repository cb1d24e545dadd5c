------------------------------- MODULE MCAConn -------------------------------
(* Model-checking instances of AConn. *)
EXTENDS AConn
==============================================================================
