--------------------------- MODULE MCRateLimiter ---------------------------
(***************************************************************************)
(* Small instances of RateLimiter: a limit of 1, so that the third request *)
(* of a counter is blocked, and an hour of two ticks.                      *)
(***************************************************************************)
EXTENDS RateLimiter, TLC

Interchangeable == Permutations(Handlers)

EveryFault == {"incr", "expire"} \X {"error", "lost", "resend"}
ExpireErrors == {<<"expire", "error">>}
=============================================================================
