----------------------------- MODULE MCModHash -----------------------------
(***************************************************************************)
(* An instance of ModHash for TLC: one, three and one buckets, and two     *)
(* keys of the second area.  k1 has a bucket of its own; the bytes behind  *)
(* k2 bring it to one of the other two.                                    *)
(***************************************************************************)
EXTENDS ModHash, TLC

CONSTANTS p1, p2, k1, k2

MCNodeCount == <<1, 3, 1>>
MCAreaOf == k1 :> 2 @@ k2 :> 2
MCHashes == k1 :> {6} @@ k2 :> {7, 8}

\* The processes are interchangeable.
MCSymmetry == Permutations({p1, p2})

=============================================================================
