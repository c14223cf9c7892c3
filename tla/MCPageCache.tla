----------------------------- MODULE MCPageCache -----------------------------
(***************************************************************************)
(* A small instance of PageCache for TLC: two pages; the second ends the   *)
(* listing in one version and leads back to the first in the other.        *)
(***************************************************************************)
EXTENDS PageCache, TLC

CONSTANTS p1, p2, v1, v2

TwoPages == p1 :> (v1 :> NoUrl @@ v2 :> p2) @@ p2 :> (v1 :> NoUrl @@ v2 :> p1)
=============================================================================
