--------------------------- MODULE SessionsLedger ---------------------------
(***************************************************************************)
(* Sessions keeps what Ledger promises: the refinement mapping.            *)
(*                                                                         *)
(* A session is open while a commit could still charge it: its reservation *)
(* is there and uncharged, or a paid commit has passed the look at it.     *)
(***************************************************************************)
EXTENDS Sessions

Stage(s) ==
    CASE s \notin issued -> "fresh"
      [] s \in issued /\ ~Settled(s) -> "open"
      [] s \in issued /\ Settled(s) -> "closed"

Given(s) == IF s \in issued THEN owner[s] ELSE NoDevice
Allowance(s) == IF s \in issued THEN kind[s] ELSE "none"

L == INSTANCE Ledger WITH
        Sessions <- SessionIds,
        stage <- [s \in SessionIds |-> Stage(s)],
        holder <- [s \in SessionIds |-> Given(s)],
        allowance <- [s \in SessionIds |-> Allowance(s)],
        balance <- paid

\* Whatever fails, restarts, expires or is sent twice, the handlers of /session and
\* /session/commit do to sessions and balances only what Ledger allows: they charge
\* open sessions, for the device that was given the session, a free one once, and
\* reopen none (session_commit.go, redis.go).
ImplementsLedger == L!Spec
=============================================================================
