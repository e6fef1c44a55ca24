------------------------------ MODULE MCNetIo ------------------------------
(***************************************************************************)
(* Instances of NetIo for TLC: up to three connections over one or two     *)
(* descriptors, so that every descriptor is reused.                        *)
(***************************************************************************)
EXTENDS NetIo, TLC

CONSTANTS c1, c2, c3, ip1, ip2, p1, p2, q1, q2

\* The first two connections come from different hosts and the same port.
MCAddrOf ==
  [c \in Conns |-> CASE c = c1 -> [ip |-> ip1, port |-> p1]
                    [] c = c2 -> [ip |-> ip2, port |-> p1]
                    [] OTHER  -> [ip |-> ip1, port |-> p2]]

\* The first two connections ask for the same command.
MCCmdOf == [c \in Conns |-> IF c = c3 THEN q2 ELSE q1]

\* All connections ask for the same command: their requests fill its queue.
MCOneCmd == [c \in Conns |-> q1]

=============================================================================
