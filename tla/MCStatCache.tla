---------------------------- MODULE MCStatCache ----------------------------
(***************************************************************************)
(* Instances of StatCache for TLC: two containers whose keys may meet in   *)
(* one bucket, while the other bucket has one writer only.                 *)
(***************************************************************************)
EXTENDS StatCache, TLC

CONSTANTS p1, p2, k1, k2, b1, b2

\* A restarted p2 may count under the key of p1, its process id being equal
\* modulo 100.
MCKeysOf == [p \in Procs |-> IF p = p1 THEN {k1} ELSE {k1, k2}]

\* The bytes behind the end of k2 decide between two buckets.
MCBucketsOf == [k \in Keys |-> IF k = k1 THEN {b1} ELSE {b1, b2}]

=============================================================================
