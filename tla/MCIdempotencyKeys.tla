------------------------- MODULE MCIdempotencyKeys -------------------------
(***************************************************************************)
(* Small instances of IdempotencyKeys for TLC.                             *)
(***************************************************************************)
EXTENDS IdempotencyKeys

CONSTANTS k1, k2, payment, credit, b1, b2

Request(key, scope, body) == [key |-> key, scope |-> scope, body |-> body]

(* One key used for two bodies and by two routes, one of which keeps its    *)
(* errors and is not in IDEMPOTENCY_SCOPES.                                 *)
MixedInputs ==
    {Request(k1, payment, b1), Request(k1, payment, b2), Request(k1, credit, b1)}
=============================================================================
