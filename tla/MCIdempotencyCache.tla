--------------------------- MODULE MCIdempotencyCache ---------------------------
(* Instances of IdempotencyCache for TLC. *)
EXTENDS IdempotencyCache, TLC

CONSTANTS r1, r2, r3, r4, k1, k2, k3

\* A key with a retry, and two others that compete with it for room.
Keyed == (r1 :> k1) @@ (r2 :> k1) @@ (r3 :> k2) @@ (r4 :> k3)
==============================================================================
