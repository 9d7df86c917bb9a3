-------------------------- MODULE MCTimelyCommits --------------------------
(***************************************************************************)
(* Small instances of TimelyCommits: ticks of 10 s, a lock of 3 and a      *)
(* reservation of 6, and handlers that answer within one tick.             *)
(***************************************************************************)
EXTENDS TimelyCommits, TLC

Interchangeable == Permutations(Handlers) \cup Permutations(SessionIds)

\* No call that follows a charge fails, and no charge's reply is lost.
HarmlessFaults ==
    ((Steps \ {"sign", "mark"}) \X {"error"}) \cup ({"lookup", "lock", "mark"} \X {"lost", "resend"})
MarkFails == {<<"mark", "error">>}
=============================================================================
