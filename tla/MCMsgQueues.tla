---------------------------- MODULE MCMsgQueues ----------------------------
(***************************************************************************)
(* An instance of MsgQueues for TLC: two keys, and two processes of which  *)
(* one may be refused msgget or IPC_SET.                                   *)
(***************************************************************************)
EXTENDS MsgQueues

CONSTANTS p1, p2, k1, k2

MCOrder == <<k1, k2>>

=============================================================================
