------------------------------ MODULE MCNotify ------------------------------
(***************************************************************************)
(* Instance of Notify for TLC: three containers, more of them than the     *)
(* receive queue has room for.                                             *)
(***************************************************************************)
EXTENDS Notify, TLC

CONSTANTS p1, p2, p3

=============================================================================
