---------------------------- MODULE RateLimiter ----------------------------
(***************************************************************************)
(* CheckRateLimit (cache/redis.go) and the way /session, /verify and       *)
(* /report use it: 429 above twice the limit, a delay above the limit.     *)
(*                                                                         *)
(* The counter of a key is created by INCR and given its hour by an EXPIRE *)
(* of its own, sent only by the caller that saw the count 1 and whose      *)
(* error is ignored.  Between the two the counter has no time to live.     *)
(* An error of INCR lets the request through.                              *)
(***************************************************************************)
EXTENDS Integers, Sums

CONSTANTS
    Keys,          \* "<dh>", "verify:<dh>" and "report:<dh>"
    Handlers,
    MaxPerHour,    \* maxPerHour
    WindowTTL,     \* one hour, in ticks
    MaxCount,      \* bound: how far a counter is incremented
    Faults,        \* which of "incr" and "expire" can fail, and how
    CrashAllowed,
    NoKey

ASSUME LimitAssumption == MaxPerHour \in Nat \ {0} /\ MaxCount \in Nat
ASSUME WindowAssumption == WindowTTL \in Nat \ {0}
ASSUME KeyAssumption == NoKey \notin Keys
ASSUME RateFaultAssumption ==
    Faults \subseteq {"incr", "expire"} \X {"error", "lost", "resend"} /\ CrashAllowed \in BOOLEAN

VARIABLES
    count,    \* rate:<key>, 0 when the key does not exist
    ttl,      \* its remaining time to live, 0 when it has none
    req,      \* what each handler is doing
    window,   \* requests let through by the present counter of a key
    orphaned, \* keys that a failure has kept from their EXPIRE
    recent    \* requests that some counter counted and let through, by ticks since
              \* their INCR, for an hour

vars == <<count, ttl, req, window, orphaned, recent>>

NoRequest == [key |-> NoKey, pc |-> "idle", n |-> 0, resp |-> 0]
Request == [key: Keys \cup {NoKey}, pc: {"idle", "incr", "expire", "sleep"},
            n: Nat, resp: {0, 200, 429}]
Ages == 0..(WindowTTL - 1)

Init ==
    /\ count = [k \in Keys |-> 0]
    /\ ttl = [k \in Keys |-> 0]
    /\ req = [h \in Handlers |-> NoRequest]
    /\ window = [k \in Keys |-> 0]
    /\ orphaned = {}
    /\ recent = [k \in Keys |-> [a \in Ages |-> 0]]
-----------------------------------------------------------------------------
At(h, step) == req[h].pc = step

BlockedAboveTwiceAndOne(n) == n > MaxPerHour * 2 + 1
Blocked(n) == n > MaxPerHour * 2
Throttled(n) == n > MaxPerHour /\ ~Blocked(n)

\* The handler with the count n: refused, delayed or let through at once.
Judged(h, n) ==
    [key |-> req[h].key,
     pc |-> IF Throttled(n) THEN "sleep" ELSE "idle",
     n |-> n,
     resp |-> IF Blocked(n) THEN 429 ELSE IF Throttled(n) THEN 0 ELSE 200]
AwaitsExpire(h, n) == [key |-> req[h].key, pc |-> "expire", n |-> n, resp |-> 0]

CountedFromZero(h, n) == IF n = 0 THEN AwaitsExpire(h, n) ELSE Judged(h, n)
Counted(h, n) == IF n = 1 THEN AwaitsExpire(h, n) ELSE Judged(h, n)
FailedClosed(h) == [req[h] EXCEPT !.pc = "idle", !.resp = 503]
FailedOpen(h) == [req[h] EXCEPT !.pc = "idle", !.resp = 200]

\* The count lets a request through, now.
LetThrough(k) ==
    /\ window' = [window EXCEPT ![k] = @ + 1]
    /\ recent' = [recent EXCEPT ![k][0] = @ + 1]

Arrive(h, k) ==
    /\ At(h, "idle")
    /\ count[k] < MaxCount
    /\ req' = [req EXCEPT ![h] = [key |-> k, pc |-> "incr", n |-> 0, resp |-> 0]]
    /\ UNCHANGED <<count, ttl, window, orphaned, recent>>

\* INCR was executed and its reply read.
Incr(h) ==
    LET k == req[h].key
        n == count[k] + 1
    IN  /\ At(h, "incr")
        /\ count' = [count EXCEPT ![k] = n]
        /\ req' = [req EXCEPT ![h] = Counted(h, n)]
        /\ IF Blocked(n) THEN UNCHANGED <<window, recent>> ELSE LetThrough(k)
        /\ UNCHANGED <<ttl, orphaned>>

\* A key is incremented and nobody learns that the count is 1.
Uncounted(k) ==
    /\ count' = [count EXCEPT ![k] = @ + 1]
    /\ orphaned' = IF count[k] = 0 THEN orphaned \cup {k} ELSE orphaned

\* INCR failed, executed ("lost") or not, and the request goes on uncounted; or
\* it was executed and the Redis client sends it again.
IncrFails(h) ==
    LET k == req[h].key IN
    /\ At(h, "incr")
    /\ \/ /\ <<"incr", "error">> \in Faults
          /\ req' = [req EXCEPT ![h] = FailedOpen(h)]
          /\ UNCHANGED <<count, orphaned>>
       \/ /\ <<"incr", "lost">> \in Faults
          /\ req' = [req EXCEPT ![h] = FailedOpen(h)]
          /\ Uncounted(k)
       \/ /\ <<"incr", "resend">> \in Faults /\ count[k] < MaxCount
          /\ Uncounted(k)
          /\ UNCHANGED req
    /\ UNCHANGED <<ttl, window, recent>>

\* EXPIRE of the handler that saw the count 1.  Without the key it does nothing.
Expire(h) ==
    LET k == req[h].key IN
    /\ At(h, "expire")
    /\ ttl' = [ttl EXCEPT ![k] = IF count[k] > 0 THEN WindowTTL ELSE 0]
    /\ \/ req' = [req EXCEPT ![h] = Judged(h, req[h].n)]
       \/ <<"expire", "resend">> \in Faults /\ UNCHANGED req
    /\ orphaned' = orphaned \ {k}
    /\ UNCHANGED <<count, window, recent>>

\* The error of EXPIRE is ignored.
ExpireFails(h) ==
    /\ At(h, "expire")
    /\ <<"expire", "error">> \in Faults
    /\ req' = [req EXCEPT ![h] = Judged(h, req[h].n)]
    /\ orphaned' = orphaned \cup {req[h].key}
    /\ UNCHANGED <<count, ttl, window, recent>>

\* time.Sleep(delay) is over.
Wake(h) ==
    /\ At(h, "sleep")
    /\ req' = [req EXCEPT ![h] = FailedOpen(h)]
    /\ UNCHANGED <<count, ttl, window, orphaned, recent>>

Crash ==
    /\ CrashAllowed
    /\ \E h \in Handlers: ~At(h, "idle")
    /\ req' = [h \in Handlers |-> NoRequest]
    /\ orphaned' = orphaned \cup {req[h].key: h \in {g \in Handlers: At(g, "expire")}}
    /\ UNCHANGED <<count, ttl, window, recent>>

Expires(k) == ttl[k] = 1

Tick ==
    /\ count' = [k \in Keys |-> IF Expires(k) THEN 0 ELSE count[k]]
    /\ window' = [k \in Keys |-> IF Expires(k) THEN 0 ELSE window[k]]
    /\ ttl' = [k \in Keys |-> IF ttl[k] = 0 THEN 0 ELSE ttl[k] - 1]
    /\ orphaned' = {k \in orphaned: ~Expires(k)}
    /\ recent' = [k \in Keys |-> [a \in Ages |-> IF a = 0 THEN 0 ELSE recent[k][a - 1]]]
    /\ UNCHANGED req

Step(h) == Incr(h) \/ IncrFails(h) \/ Expire(h) \/ ExpireFails(h) \/ Wake(h)

Next ==
    \/ \E h \in Handlers: Step(h) \/ \E k \in Keys: Arrive(h, k)
    \/ Crash
    \/ Tick

Spec == Init /\ [][Next]_vars
-----------------------------------------------------------------------------
(* Properties *)

\* Counters, requests and history are typed.
TypeOK ==
    /\ count \in [Keys -> Nat]
    /\ ttl \in [Keys -> 0..WindowTTL]
    /\ req \in [Handlers -> Request]
    /\ window \in [Keys -> Nat]
    /\ orphaned \subseteq Keys
    /\ recent \in [Keys -> [Ages -> Nat]]

\* One counter lets at most twice the limit through, with any number of requests
\* at once, calls that fail or are re-sent and counters that outlive their hour
\* (the hard block of CheckRateLimit; a request whose INCR fails is not counted).
WindowCap == \A k \in Keys: window[k] <= 2 * MaxPerHour

PassedWithinTheHour(k) == SumOver(recent[k], Ages)

\* What the fixed windows guarantee for an arbitrary hour: it meets at most two
\* counters of a key, which let at most four times the limit of the requests through
\* that they count.  Redis errors let through any number of others ("fail open").
HourCap == \A k \in Keys: PassedWithinTheHour(k) <= 4 * MaxPerHour

HasTTL(k) ==
    count[k] > 0 =>
        ttl[k] > 0 \/ \E h \in Handlers: req[h].key = k /\ At(h, "expire")

\* A counter that exists has a time to live, or a handler is about to give it one
\* (docs/PRODUCTION_VERIFICATION.md: "rate limit 1h").  The code does not keep
\* this when EXPIRE fails.
CounterHasTTL == \A k \in Keys: HasTTL(k)

\* Without such a failure a counter has a time to live or an EXPIRE to come, however
\* the requests that find it new and those that find it expiring interleave.  How
\* long the EXPIRE takes to come is another matter.
OnlyFailuresOrphan == \A k \in Keys: k \in orphaned \/ HasTTL(k)
=============================================================================
