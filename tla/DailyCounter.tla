---------------------------- MODULE DailyCounter ----------------------------
(***************************************************************************)
(* The counter daily:<dh> of free bumps and its midnight (cache/redis.go). *)
(*                                                                         *)
(* CommitFreeBump reads the clock of the server, turns the time left until *)
(* midnight into whole seconds and sends them to Redis with the script,    *)
(* which increments the counter and sets its time to live.  The script     *)
(* runs a little later than the clock was read.                            *)
(*                                                                         *)
(* Time is counted in half seconds, so that the truncation to whole        *)
(* seconds is seen.  MaxDelay bounds how long a script is on its way.      *)
(***************************************************************************)
EXTENDS Integers

CONSTANTS
    Devices,
    Handlers,
    Day,          \* a day, in half seconds
    MaxDelay,     \* bound: from reading the clock to running the script
    MaxTime,      \* bound: the last half second
    MaxCharges,   \* bound: charges of a device in a day
    NoDevice

ASSUME DayAssumption == Day \in Nat \ {0} /\ MaxDelay \in Nat /\ MaxTime \in Nat
ASSUME ChargesAssumption == MaxCharges \in Nat /\ NoDevice \notin Devices

VARIABLES
    now,        \* half seconds since the first midnight
    count,      \* daily:<dh>, 0 when the key does not exist
    expires,    \* when the key expires, 0 when it does not exist
    req,        \* the commits whose script is on its way
    charged,    \* charges of a device since midnight
    lastCharge, \* when a device was last charged
    late        \* devices a script of which ran after the clock had moved on

vars == <<now, count, expires, req, charged, lastCharge, late>>

Idle == [pc |-> "idle", dev |-> NoDevice, ttl |-> 0, at |-> 0]

Init ==
    /\ now = 0
    /\ count = [d \in Devices |-> 0]
    /\ expires = [d \in Devices |-> 0]
    /\ req = [h \in Handlers |-> Idle]
    /\ charged = [d \in Devices |-> 0]
    /\ lastCharge = [d \in Devices |-> 0]
    /\ late = {}
-----------------------------------------------------------------------------
MidnightAfter(t) == (t \div Day + 1) * Day

\* EXPIRE with a day's worth of seconds, and rounding up.
WholeDay(t) == Day \div 2
RoundedUp(t) == (MidnightAfter(t) - t + 1) \div 2

\* secondsUntilMidnightUTC: whole seconds, truncated.
SecondsUntilMidnight(t) == (MidnightAfter(t) - t) \div 2

CountedAnew(n) == 1
\* INCR.
Counted(n) == n + 1

\* A commit that found its reservation reads the clock.
ReadClock(h, d) ==
    /\ req[h].pc = "idle"
    /\ req' = [req EXCEPT ![h] = [pc |-> "script", dev |-> d, at |-> now,
                                  ttl |-> SecondsUntilMidnight(now)]]
    /\ UNCHANGED <<now, count, expires, charged, lastCharge, late>>

\* INCR and EXPIRE of the script.  EXPIRE of 0 seconds deletes the key.
Script(h) ==
    LET d == req[h].dev
        ttl == req[h].ttl
    IN  /\ req[h].pc = "script"
        /\ charged[d] < MaxCharges
        /\ count' = [count EXCEPT ![d] = IF ttl = 0 THEN 0 ELSE Counted(@)]
        /\ expires' = [expires EXCEPT ![d] = IF ttl = 0 THEN 0 ELSE now + 2 * ttl]
        /\ charged' = [charged EXCEPT ![d] = @ + 1]
        /\ lastCharge' = [lastCharge EXCEPT ![d] = now]
        /\ late' = IF req[h].at = now THEN late ELSE late \cup {d}
        /\ req' = [req EXCEPT ![h] = Idle]
        /\ UNCHANGED now

\* The call fails or the process dies before the script has run.
GiveUp(h) ==
    /\ req[h].pc = "script"
    /\ req' = [req EXCEPT ![h] = Idle]
    /\ UNCHANGED <<now, count, expires, charged, lastCharge, late>>

InTime(h) == req[h].pc = "script" => now - req[h].at < MaxDelay
GoneOneTickLate(d) == expires[d] <= now
MidnightStrikes == (now + 1) % Day = 0
Gone(d) == expires[d] <= now + 1

\* Half a second passes; keys whose time has come disappear; midnight may strike.
Tick ==
    /\ now < MaxTime
    /\ \A h \in Handlers: InTime(h)
    /\ now' = now + 1
    /\ count' = [d \in Devices |-> IF Gone(d) THEN 0 ELSE count[d]]
    /\ expires' = [d \in Devices |-> IF Gone(d) THEN 0 ELSE expires[d]]
    /\ charged' = [d \in Devices |-> IF MidnightStrikes THEN 0 ELSE charged[d]]
    /\ late' = IF MidnightStrikes THEN {d \in late: ~Gone(d)} ELSE late
    /\ UNCHANGED <<req, lastCharge>>

Next ==
    \/ \E h \in Handlers:
          Script(h) \/ GiveUp(h) \/ \E d \in Devices: ReadClock(h, d)
    \/ Tick

Spec == Init /\ [][Next]_vars
-----------------------------------------------------------------------------
(* Properties *)

\* The clock, the counters and the commits are typed; a counter that exists has a
\* time to live in the future.
TypeOK ==
    /\ now \in 0..MaxTime
    /\ count \in [Devices -> Nat]
    /\ expires \in [Devices -> Nat]
    /\ \A d \in Devices: count[d] > 0 => expires[d] > now
    /\ req \in [Handlers -> [pc: {"idle", "script"}, dev: Devices \cup {NoDevice},
                             ttl: 0..Day, at: 0..MaxTime]]
    /\ charged \in [Devices -> Nat]
    /\ lastCharge \in [Devices -> 0..MaxTime]
    /\ late \subseteq Devices

\* The counter of a device holds no charge of an earlier day: at midnight UTC it
\* is gone (redis.go: "Counter resets at midnight UTC"), unless a script ran after
\* the clock had moved on.  Such a script can carry yesterday's charges into today.
ResetsAtMidnight == \A d \in Devices \ late: count[d] <= charged[d]

LastSecond == MidnightAfter(now) - now < 2

\* Every charge of a day stays in the counter of that day, but for the last second
\* of the day, which the truncation gives away (redis.go: "lands in the correct
\* day's counter"), unless a script ran after the clock had moved on.  With the time
\* to live of yesterday such a script cuts today's counter short.
ChargesCountAllDay ==
    \A d \in Devices \ late: ~LastSecond => count[d] >= charged[d]

\* A counter outlives the midnight after its last charge by no more than a script
\* may be on its way.
OutlivesByDelay ==
    \A d \in Devices:
        count[d] > 0 => expires[d] <= MidnightAfter(lastCharge[d]) + MaxDelay
=============================================================================
