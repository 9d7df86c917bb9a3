--------------------------- MODULE TimelyCommits ---------------------------
(***************************************************************************)
(* Sessions with commit handlers that are never slow.                      *)
(*                                                                         *)
(* The lock of a paid commit is not released but expires, and the handler  *)
(* that takes it does not look at the reservation again.  How long a       *)
(* handler may take is therefore part of what keeps a paid session from    *)
(* being charged twice; nothing in the code bounds it (the WriteTimeout of *)
(* main.go closes a connection and stops no handler).  This module bounds  *)
(* it, by CommitBudget ticks from the moment the handler has read the      *)
(* reservation to its answer, to say what the lock does guarantee.         *)
(*                                                                         *)
(* It also keeps track of the locks that were taken for nothing: whoever   *)
(* finds a lock busy is answered with 200 on trust in its holder.          *)
(***************************************************************************)
EXTENDS Sessions

CONSTANT CommitBudget   \* ticks a commit may take once it has read the reservation

\* Two handlers that overlap must both be done before the lock of the first
\* expires: with the code's 30 s, a handler has less than 15 s.
ASSUME BudgetAssumption == CommitBudget \in Nat /\ 2 * CommitBudget < CommitLockTTL

VARIABLES
    age,       \* ticks since the running commit of a handler read the reservation
    abandoned  \* the sessions whose lock was taken by a call that made no charge

timely == <<vars, age, abandoned>>

AfterLookup == CommitSteps \ {"lookup"}

TimelyInit ==
    /\ Init
    /\ age = [h \in Handlers |-> 0]
    /\ abandoned = {}

\* The step takes the lock of s and its handler never hears that it did.
LockUnheard(h) ==
    At(h, "lock") /\ commitlock'[req[h].sid] > commitlock[req[h].sid] /\ req'[h].pc # "consume"

\* The step ends the holder's attempt without a charge: 409, 503 or a crash.
GivesUp(h) ==
    At(h, "consume") /\ req'[h].pc = "idle" /\ charges'[req[h].sid] = charges[req[h].sid]

TimelyTick ==
    /\ \A h \in Handlers: req[h].pc \in AfterLookup => age[h] < CommitBudget
    /\ Tick
    /\ age' = [h \in Handlers |-> IF req[h].pc \in AfterLookup THEN age[h] + 1 ELSE 0]
    /\ UNCHANGED abandoned

TimelyNext ==
    \/ /\ Untimed
       /\ age' = [h \in Handlers |-> IF req'[h].pc \in AfterLookup THEN age[h] ELSE 0]
       /\ abandoned' = abandoned \cup
             {req[h].sid: h \in {g \in Handlers: LockUnheard(g) \/ GivesUp(g)}}
    \/ TimelyTick

TimelySpec == TimelyInit /\ [][TimelyNext]_timely

\* The faults that the lock withstands: the call that charges is executed once, the
\* sentinel is written whatever the handler hears of it, and neither the handlers
\* nor the locks are lost.
Harmless ==
    /\ Faults \cap {<<"consume", "lost">>, <<"consume", "resend">>, <<"mark", "error">>} = {}
    /\ ~CrashAllowed
    /\ ~RedisForgets
-----------------------------------------------------------------------------
\* At most one handler is between taking the commit lock of a session and
\* writing its sentinel: the lock does not expire under a timely holder.
CommitExclusive ==
    \A g, h \in Handlers:
        (/\ req[g].pc \in {"consume", "mark"} /\ req[h].pc \in {"consume", "mark"}
         /\ req[g].sid = req[h].sid)
        => g = h

\* A handler that still believes the session uncommitted finds the lock taken,
\* as long as the session has been charged: the stale read made before the lock
\* is harmless for a timely handler.
StaleReadIsHarmless ==
    \A h \in Handlers:
        (At(h, "lock") /\ charges[req[h].sid] >= 1) => ~LockFree(req[h].sid)

\* A commit of a paid session that was answered with 200 is accounted for: the
\* session was charged, or the holder of its lock is about to charge it, or its
\* lock was once taken by a call that came to nothing (session_commit.go: "by the
\* time our client retries, the real result will be reflected").
PaidOkAccounted ==
    \A h \in Handlers:
        (/\ At(h, "idle") /\ req[h].op = "commit" /\ req[h].resp = 200
         /\ req[h].dev \notin DevAllowlist /\ kind[req[h].sid] = "paid")
        => \/ charges[req[h].sid] >= 1
           \/ \E g \in Handlers: At(g, "consume") /\ req[g].sid = req[h].sid
           \/ req[h].sid \in abandoned
=============================================================================
