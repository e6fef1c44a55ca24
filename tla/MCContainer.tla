---------------------------- MODULE MCContainer ----------------------------
(***************************************************************************)
(* Instances of Container for TLC: one process of the first service, one   *)
(* or two of the second, and up to three client requests.                  *)
(***************************************************************************)
EXTENDS Container, TLC

CONSTANTS p1, p2, p3, r1, r2, r3

\* p1 runs svc_test; the others run svc_test2.
MCSvcOf == [p \in Procs |-> IF p = p1 THEN 1 ELSE 2]

\* r3 asks for the first command, the others for the second.
MCCmdOf == [r \in Requests |-> IF r = r3 THEN 1 ELSE 2]

\* The client of the repository writes no serialno and no ret.  In the run
\* without crashes every client may write a ret; in the other that of r2 does,
\* and that of r3 may write the serial number of the first handler of the
\* process that starts first.
MCNoSerials == [r \in Requests |-> {0}]
MCSerialsOf == [r \in Requests |-> IF r = r3 THEN {0, 100} ELSE {0}]
MCAnyRets == [r \in Requests |-> {0, 7}]
MCRetsOf == [r \in Requests |-> IF r = r2 THEN {7} ELSE {0}]

\* The client of the second command that writes one.
MCSerialsOf2 == [r \in Requests |-> IF r = r2 THEN {200} ELSE {0}]

=============================================================================
