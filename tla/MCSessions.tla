----------------------------- MODULE MCSessions -----------------------------
(***************************************************************************)
(* Small instances of Sessions: ticks of half a commit lock, so that a     *)
(* sentinel lives 1 tick, the lock 2 and a reservation 3, in the order of  *)
(* the 10, 30 and 60 seconds of the code.                                  *)
(***************************************************************************)
EXTENDS SessionsLedger, TLC

Interchangeable ==
    Permutations(Handlers) \cup Permutations(SessionIds) \cup Permutations(Devices)

RedisCalls == {"reserveFree", "reservePaid", "lookup", "commitFree", "readUsed", "lock", "mark"}
CallErrors == (Steps \ {"sign"}) \X {"error"}
CallErrorsAndResends == CallErrors \cup {<<"sign", "error">>} \cup (RedisCalls \X {"resend"})
EveryFault == CallErrorsAndResends \cup (Steps \ {"sign"}) \X {"lost"}
=============================================================================
