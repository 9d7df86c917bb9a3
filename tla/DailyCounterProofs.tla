------------------------- MODULE DailyCounterProofs -------------------------
(***************************************************************************)
(* Proofs about DailyCounter, for a day of any length.                     *)
(*                                                                         *)
(* The next midnight is written with the remainder of the day, which the   *)
(* clock advances by one: then everything is linear.  A counter whose      *)
(* scripts all ran in the half second of their clock reading expires at    *)
(* its midnight or in the second before it; any other is late.             *)
(***************************************************************************)
EXTENDS DailyCounter, TLAPS

LEMMA Division ==
    ASSUME NEW t \in Nat, NEW n \in Nat \ {0}
    PROVE  t = (t \div n) * n + (t % n) /\ t % n \in 0..(n - 1) /\ t \div n \in Nat
  OBVIOUS

LEMMA OneMore ==
    ASSUME NEW q \in Nat, NEW n \in Nat
    PROVE  (q + 1) * n = q * n + n /\ q * n \in Nat
  OBVIOUS

LEMMA Unique ==
    ASSUME NEW n \in Nat \ {0}, NEW q \in Nat, NEW r \in 0..(n - 1),
           NEW p \in Nat, NEW s \in 0..(n - 1), q * n + r = p * n + s
    PROVE  r = s
  OBVIOUS

LEMMA NextMidnight ==
    ASSUME NEW t \in Nat PROVE MidnightAfter(t) = t - (t % Day) + Day
<1> DEFINE q == t \div Day
           r == t % Day
<1>1. t = q * Day + r /\ r \in 0..(Day - 1) /\ q \in Nat
  BY Division, DayAssumption
<1>2. (q + 1) * Day = q * Day + Day /\ q * Day \in Nat
  BY <1>1, OneMore, DayAssumption
<1>3. MidnightAfter(t) = (q + 1) * Day
  BY DEF MidnightAfter
<1> HIDE DEF q, r
<1>4. MidnightAfter(t) = t - r + Day
  BY <1>1, <1>2, <1>3, DayAssumption
<1> QED
  BY <1>4 DEF r

LEMMA NextRemainder ==
    ASSUME NEW t \in Nat
    PROVE  (t + 1) % Day = IF t % Day = Day - 1 THEN 0 ELSE (t % Day) + 1
<1> DEFINE u == t + 1
           q == t \div Day
           r == t % Day
           p == u \div Day
           s == u % Day
<1>1. t = q * Day + r /\ r \in 0..(Day - 1) /\ q \in Nat
  BY Division, DayAssumption
<1>2. u \in Nat
  OBVIOUS
<1>3. u = p * Day + s /\ s \in 0..(Day - 1) /\ p \in Nat
  <2> HIDE DEF u
  <2> QED
    BY <1>2, Division, DayAssumption
<1>4. (q + 1) * Day = q * Day + Day /\ q * Day \in Nat
  BY <1>1, OneMore, DayAssumption
<1>5. u = t + 1
  OBVIOUS
<1> HIDE DEF u, q, r, p, s
<1>6. CASE r = Day - 1
  <2>1. (q + 1) * Day + 0 = p * Day + s
    BY <1>1, <1>3, <1>4, <1>5, <1>6, DayAssumption
  <2>2. 0 = s
    BY <2>1, <1>1, <1>3, Unique, DayAssumption
  <2> QED
    BY <2>2, <1>6 DEF r, s, u
<1>7. CASE r # Day - 1
  <2>1. q * Day + (r + 1) = p * Day + s
    BY <1>1, <1>3, <1>4, <1>5, <1>7, DayAssumption
  <2>2. r + 1 = s
    BY <2>1, <1>1, <1>3, <1>7, Unique, DayAssumption
  <2> QED
    BY <2>2, <1>7 DEF r, s, u
<1> QED
  BY <1>6, <1>7

\* The next midnight is ahead, by a day at most; as the clock moves on it stays, or is
\* struck and moves on by a day.
LEMMA Midnights ==
    ASSUME NEW t \in Nat
    PROVE  /\ MidnightAfter(t) \in Nat /\ t < MidnightAfter(t) /\ MidnightAfter(t) <= t + Day
           /\ (t + 1) % Day # 0 => /\ MidnightAfter(t + 1) = MidnightAfter(t)
                                   /\ t + 1 < MidnightAfter(t)
           /\ (t + 1) % Day = 0 => /\ MidnightAfter(t) = t + 1
                                   /\ MidnightAfter(t + 1) = t + 1 + Day
<1>1. t % Day \in 0..(Day - 1) /\ (t + 1) % Day \in 0..(Day - 1)
  BY Division, DayAssumption
<1>2. MidnightAfter(t) = t - (t % Day) + Day
  BY NextMidnight
<1>3. MidnightAfter(t + 1) = (t + 1) - ((t + 1) % Day) + Day
  BY NextMidnight
<1>4. (t + 1) % Day = IF t % Day = Day - 1 THEN 0 ELSE (t % Day) + 1
  BY NextRemainder
<1> QED
  BY <1>1, <1>2, <1>3, <1>4, DayAssumption

\* The seconds until midnight miss it by less than one.
LEMMA Truncated ==
    ASSUME NEW t \in Nat
    PROVE  /\ SecondsUntilMidnight(t) \in 0..Day
           /\ 2 * SecondsUntilMidnight(t) <= MidnightAfter(t) - t
           /\ MidnightAfter(t) - t <= 2 * SecondsUntilMidnight(t) + 1
<1> DEFINE k == MidnightAfter(t) - t
<1>1. k \in 1..Day /\ MidnightAfter(t) - t \in Int
  BY Midnights, DayAssumption
<1>2. SecondsUntilMidnight(t) = k \div 2
  BY DEF SecondsUntilMidnight
<1>3. k = MidnightAfter(t) - t
  OBVIOUS
<1> HIDE DEF k
<1>4. k \div 2 \in 0..Day /\ 2 * (k \div 2) <= k /\ k <= 2 * (k \div 2) + 1
  BY <1>1, DayAssumption
<1> QED
  BY <1>2, <1>3, <1>4

\* What script r on its way carries at time t.
OnItsWay(r, t) ==
    r.pc = "script" =>
        /\ r.dev \in Devices
        /\ r.at <= t /\ t - r.at <= MaxDelay
        /\ r.ttl = SecondsUntilMidnight(r.at)
        /\ MidnightAfter(r.at) <= MidnightAfter(t)

\* A device none of whose scripts was late: its counter ends at midnight or in the
\* second before, and until then holds the charges of the day.
OnTime(d) ==
    /\ expires[d] <= MidnightAfter(now)
    /\ count[d] <= charged[d]
    /\ (~LastSecond /\ charged[d] > 0) =>
          count[d] >= charged[d] /\ MidnightAfter(now) <= expires[d] + 1

DayInv ==
    /\ TypeOK
    /\ \A h \in Handlers: OnItsWay(req[h], now)
    /\ \A d \in Devices \ late: OnTime(d)
    /\ OutlivesByDelay

LEMMA DayInit == Init => DayInv
<1> SUFFICES ASSUME Init PROVE DayInv
  OBVIOUS
<1> USE DayAssumption, ChargesAssumption
<1>1. MidnightAfter(0) \in Nat
  BY Midnights
<1>2. TypeOK
  BY DEF Init, Idle, TypeOK
<1> QED
  BY <1>1, <1>2 DEF Init, Idle, DayInv, OnItsWay, OnTime, OutlivesByDelay

LEMMA ReadClockKeeps ==
    ASSUME DayInv, NEW h \in Handlers, NEW d \in Devices, ReadClock(h, d)
    PROVE  DayInv'
<1> USE DayAssumption, ChargesAssumption
<1> DEFINE r == [pc |-> "script", dev |-> d, at |-> now, ttl |-> SecondsUntilMidnight(now)]
<1>1. req' = [req EXCEPT ![h] = r] /\ UNCHANGED <<now, count, expires, charged, lastCharge, late>>
  BY DEF ReadClock
<1>2. now \in Nat /\ now \in 0..MaxTime
  BY DEF DayInv, TypeOK
<1>3. SecondsUntilMidnight(now) \in 0..Day
  BY <1>2, Truncated
<1>4. TypeOK'
  BY <1>1, <1>2, <1>3 DEF DayInv, TypeOK
<1>5. ASSUME NEW g \in Handlers PROVE OnItsWay(req'[g], now')
  <2>1. CASE g = h
    <3>1. req'[g] = r /\ now' = now
      BY <1>1, <2>1 DEF DayInv, TypeOK
    <3>2. MidnightAfter(now) \in Nat
      BY <1>2, Midnights
    <3>3. req'[g].dev = d /\ req'[g].at = now /\ req'[g].ttl = SecondsUntilMidnight(now)
      BY <3>1
    <3> HIDE DEF r
    <3> QED
      BY <1>2, <3>1, <3>2, <3>3 DEF OnItsWay
  <2>2. CASE g # h
    BY <1>1, <2>2 DEF DayInv, TypeOK
  <2> QED
    BY <2>1, <2>2
<1>6. ASSUME NEW e \in Devices \ late' PROVE OnTime(e)'
  BY <1>1 DEF DayInv, OnTime, LastSecond, MidnightAfter
<1>7. OutlivesByDelay'
  BY <1>1 DEF DayInv, OutlivesByDelay, MidnightAfter
<1> QED
  BY <1>4, <1>5, <1>6, <1>7 DEF DayInv

LEMMA GiveUpKeeps ==
    ASSUME DayInv, NEW h \in Handlers, GiveUp(h) PROVE DayInv'
<1> USE DayAssumption, ChargesAssumption
<1>1. req' = [req EXCEPT ![h] = Idle] /\ UNCHANGED <<now, count, expires, charged, lastCharge, late>>
  BY DEF GiveUp
<1>2. TypeOK'
  BY <1>1 DEF DayInv, TypeOK, Idle
<1>3. ASSUME NEW g \in Handlers PROVE OnItsWay(req'[g], now')
  BY <1>1 DEF DayInv, TypeOK, OnItsWay, Idle
<1>4. ASSUME NEW e \in Devices \ late' PROVE OnTime(e)'
  BY <1>1 DEF DayInv, OnTime, LastSecond, MidnightAfter
<1>5. OutlivesByDelay'
  BY <1>1 DEF DayInv, OutlivesByDelay, MidnightAfter
<1> QED
  BY <1>2, <1>3, <1>4, <1>5 DEF DayInv

\* The script sets the counter to expire at the midnight of its clock reading, or in
\* the second before.
LEMMA ScriptKeeps ==
    ASSUME DayInv, NEW h \in Handlers, Script(h) PROVE DayInv'
<1> USE DayAssumption, ChargesAssumption
<1> DEFINE d == req[h].dev
           ttl == req[h].ttl
           at == req[h].at
           m == MidnightAfter(now)
           end == IF ttl = 0 THEN 0 ELSE now + 2 * ttl
           n == IF ttl = 0 THEN 0 ELSE count[d] + 1
<1>1. /\ req[h].pc = "script" /\ now' = now /\ req' = [req EXCEPT ![h] = Idle]
      /\ count' = [count EXCEPT ![d] = n] /\ expires' = [expires EXCEPT ![d] = end]
      /\ charged' = [charged EXCEPT ![d] = @ + 1]
      /\ lastCharge' = [lastCharge EXCEPT ![d] = now]
      /\ late' = IF at = now THEN late ELSE late \cup {d}
  BY DEF Script, Counted
<1>2. /\ now \in Nat /\ now \in 0..MaxTime /\ d \in Devices /\ at \in Nat /\ at \in 0..MaxTime
      /\ ttl \in 0..Day /\ count[d] \in Nat /\ charged[d] \in Nat
  BY <1>1 DEF DayInv, TypeOK, OnItsWay
<1>3. /\ at <= now /\ now - at <= MaxDelay /\ ttl = SecondsUntilMidnight(at)
      /\ MidnightAfter(at) <= m
  BY <1>1 DEF DayInv, OnItsWay
<1>4. m \in Nat /\ MidnightAfter(at) \in Nat /\ now < m
  BY <1>2, Midnights
<1>5. 2 * ttl <= MidnightAfter(at) - at /\ MidnightAfter(at) - at <= 2 * ttl + 1
  BY <1>2, <1>3, Truncated
<1>6. end \in Nat /\ n \in Nat /\ (n > 0 => end > now) /\ end <= m + MaxDelay
  BY <1>2, <1>3, <1>4, <1>5
<1>7. at = now => end <= m /\ (m - now >= 2 => ttl # 0 /\ m <= end + 1)
  BY <1>2, <1>4, <1>5
<1>8. MidnightAfter(now)' = m
  BY <1>1 DEF MidnightAfter
<1> HIDE DEF d, ttl, at, m, end
<1>9. TypeOK'
  <2>1. count' \in [Devices -> Nat] /\ expires' \in [Devices -> Nat]
        /\ charged' \in [Devices -> Nat] /\ lastCharge' \in [Devices -> 0..MaxTime]
        /\ late' \subseteq Devices
    BY <1>1, <1>2, <1>6 DEF DayInv, TypeOK
  <2>2. req' \in [Handlers -> [pc: {"idle", "script"}, dev: Devices \cup {NoDevice},
                               ttl: 0..Day, at: 0..MaxTime]]
    BY <1>1 DEF DayInv, TypeOK, Idle
  <2>3. ASSUME NEW e \in Devices, count'[e] > 0 PROVE expires'[e] > now'
    <3>1. CASE e = d
      BY <1>1, <1>6, <2>3, <3>1 DEF DayInv, TypeOK
    <3>2. CASE e # d
      BY <1>1, <2>3, <3>2 DEF DayInv, TypeOK
    <3> QED
      BY <3>1, <3>2
  <2> QED
    BY <1>1, <1>2, <2>1, <2>2, <2>3 DEF TypeOK
<1>10. ASSUME NEW g \in Handlers PROVE OnItsWay(req'[g], now')
  BY <1>1 DEF DayInv, TypeOK, OnItsWay, Idle
<1>11. ASSUME NEW e \in Devices \ late' PROVE OnTime(e)'
  <2>1. e \in Devices \ late
    BY <1>1
  <2>2. OnTime(e)
    BY <2>1 DEF DayInv
  <2>3. CASE e = d
    <3>1. at = now
      BY <1>1, <2>3
    <3>2. count'[e] = n /\ expires'[e] = end /\ charged'[e] = charged[d] + 1
      BY <1>1, <1>2, <2>3 DEF DayInv, TypeOK
    <3>3. count[d] <= charged[d] /\ (m - now >= 2 /\ charged[d] > 0 => count[d] >= charged[d])
      BY <2>2, <2>3, <1>2, <1>4 DEF OnTime, LastSecond, m
    <3>4. LastSecond' <=> m - now < 2
      BY <1>1, <1>8 DEF LastSecond
    <3> QED
      BY <1>2, <1>4, <1>6, <1>7, <1>8, <3>1, <3>2, <3>3, <3>4 DEF OnTime
  <2>4. CASE e # d
    BY <1>1, <2>2, <2>4 DEF DayInv, TypeOK, OnTime, LastSecond, MidnightAfter
  <2> QED
    BY <2>3, <2>4
<1>12. OutlivesByDelay'
  <2> SUFFICES ASSUME NEW e \in Devices, count'[e] > 0
               PROVE  expires'[e] <= MidnightAfter(lastCharge'[e]) + MaxDelay
    BY DEF OutlivesByDelay, MidnightAfter
  <2>1. CASE e = d
    <3>1. expires'[e] = end /\ lastCharge'[e] = now
      BY <1>1, <1>2, <2>1 DEF DayInv, TypeOK
    <3> QED
      BY <1>6, <3>1 DEF m
  <2>2. CASE e # d
    <3>1. expires'[e] = expires[e] /\ lastCharge'[e] = lastCharge[e] /\ count'[e] = count[e]
      BY <1>1, <2>2 DEF DayInv, TypeOK
    <3> QED
      BY <3>1 DEF DayInv, OutlivesByDelay
  <2> QED
    BY <2>1, <2>2
<1> QED
  BY <1>9, <1>10, <1>11, <1>12 DEF DayInv

\* Half a second: keys go when they expire, and at midnight the charges start anew.
LEMMA TickKeeps == ASSUME DayInv, Tick PROVE DayInv'
<1> USE DayAssumption, ChargesAssumption
<1>1. /\ now \in Nat /\ now < MaxTime /\ now' = now + 1
      /\ \A h \in Handlers: InTime(h)
      /\ count' = [d \in Devices |-> IF Gone(d) THEN 0 ELSE count[d]]
      /\ expires' = [d \in Devices |-> IF Gone(d) THEN 0 ELSE expires[d]]
      /\ charged' = [d \in Devices |-> IF MidnightStrikes THEN 0 ELSE charged[d]]
      /\ late' = IF MidnightStrikes THEN {d \in late: ~Gone(d)} ELSE late
      /\ UNCHANGED <<req, lastCharge>>
  BY DEF Tick, DayInv, TypeOK
<1> DEFINE m == MidnightAfter(now)
           k == MidnightAfter(now + 1)
<1>2. m \in Nat /\ k \in Nat /\ now < m
      /\ (~MidnightStrikes => k = m /\ now + 1 < m)
      /\ (MidnightStrikes => m = now + 1 /\ k = now + 1 + Day)
  <2>1. now + 1 \in Nat
    BY <1>1
  <2>2. k \in Nat
    BY <2>1, Midnights
  <2> QED
    BY <1>1, <2>2, Midnights DEF MidnightStrikes
<1>3. MidnightAfter(now)' = k
  BY <1>1 DEF MidnightAfter
<1> HIDE DEF m, k
<1>4. TypeOK'
  BY <1>1 DEF DayInv, TypeOK, Gone
<1>5. ASSUME NEW h \in Handlers PROVE OnItsWay(req'[h], now')
  <2> DEFINE r == req[h]
  <2>1. req'[h] = r /\ OnItsWay(r, now) /\ InTime(h) /\ r.at \in Nat
    BY <1>1 DEF DayInv, TypeOK
  <2>2. MidnightAfter(r.at) \in Nat
    BY <2>1, Midnights
  <2>3. r.pc = "script" => now - r.at < MaxDelay
    BY <2>1 DEF InTime
  <2> HIDE DEF r
  <2>4. OnItsWay(r, now + 1)
    BY <1>1, <1>2, <2>1, <2>2, <2>3 DEF OnItsWay, m, k
  <2> QED
    BY <1>1, <2>1, <2>4
<1>6. ASSUME NEW d \in Devices \ late' PROVE OnTime(d)'
  <2>1. /\ count[d] \in Nat /\ expires[d] \in Nat /\ charged[d] \in Nat
        /\ count'[d] = (IF Gone(d) THEN 0 ELSE count[d])
        /\ expires'[d] = (IF Gone(d) THEN 0 ELSE expires[d])
        /\ charged'[d] = (IF MidnightStrikes THEN 0 ELSE charged[d])
    BY <1>1 DEF DayInv, TypeOK
  <2>2. LastSecond' <=> k - (now + 1) < 2
    BY <1>1, <1>3 DEF LastSecond
  <2>3. CASE MidnightStrikes
    <3>1. Gone(d)
      <4>1. CASE d \in late
        BY <1>1, <2>3, <4>1
      <4>2. CASE d \notin late
        BY <1>1, <1>2, <2>1, <2>3, <4>2 DEF DayInv, OnTime, Gone, m
      <4> QED
        BY <4>1, <4>2
    <3> QED
      BY <1>1, <1>2, <1>3, <2>1, <2>3, <3>1 DEF OnTime
  <2>4. CASE ~MidnightStrikes
    <3>1. OnTime(d)
      BY <1>1, <2>4 DEF DayInv
    <3>2. expires[d] <= m /\ count[d] <= charged[d]
          /\ (m - now >= 2 /\ charged[d] > 0 => count[d] >= charged[d] /\ m <= expires[d] + 1)
      BY <1>1, <1>2, <3>1 DEF OnTime, LastSecond, m
    <3>3. (m - (now + 1) >= 2 /\ charged[d] > 0) => ~Gone(d)
      BY <1>1, <1>2, <2>1, <3>2 DEF Gone
    <3> QED
      BY <1>1, <1>2, <1>3, <2>1, <2>2, <2>4, <3>2, <3>3 DEF OnTime
  <2> QED
    BY <2>3, <2>4
<1>7. OutlivesByDelay'
  <2> SUFFICES ASSUME NEW d \in Devices, count'[d] > 0
               PROVE  expires'[d] <= MidnightAfter(lastCharge[d]) + MaxDelay
    BY <1>1 DEF OutlivesByDelay, MidnightAfter
  <2>1. ~Gone(d) /\ count'[d] = count[d] /\ expires'[d] = expires[d]
    BY <1>1
  <2> QED
    BY <2>1 DEF DayInv, OutlivesByDelay
<1> QED
  BY <1>4, <1>5, <1>6, <1>7 DEF DayInv

LEMMA DayStep == DayInv /\ [Next]_vars => DayInv'
<1> SUFFICES ASSUME DayInv, [Next]_vars PROVE DayInv'
  OBVIOUS
<1>1. ASSUME NEW h \in Handlers, Script(h) PROVE DayInv'
  BY <1>1, ScriptKeeps
<1>2. ASSUME NEW h \in Handlers, GiveUp(h) PROVE DayInv'
  BY <1>2, GiveUpKeeps
<1>3. ASSUME NEW h \in Handlers, NEW d \in Devices, ReadClock(h, d) PROVE DayInv'
  BY <1>3, ReadClockKeeps
<1>4. CASE Tick
  BY <1>4, TickKeeps
<1>5. CASE UNCHANGED vars
  BY <1>5 DEF vars, DayInv, TypeOK, OnItsWay, OnTime, LastSecond, OutlivesByDelay,
              SecondsUntilMidnight, MidnightAfter
<1> QED
  BY <1>1, <1>2, <1>3, <1>4, <1>5 DEF Next

LEMMA DayAlways == Spec => []DayInv
  BY DayInit, DayStep, PTL DEF Spec

\* The clock, the counters and the commits are typed.
THEOREM DayTypeCorrect == Spec => []TypeOK
<1>1. DayInv => TypeOK
  BY DEF DayInv
<1> QED
  BY DayAlways, <1>1, PTL

\* Without a late script no charge of an earlier day is counted.
THEOREM MidnightResets == Spec => []ResetsAtMidnight
<1>1. DayInv => ResetsAtMidnight
  BY DEF DayInv, OnTime, ResetsAtMidnight
<1> QED
  BY DayAlways, <1>1, PTL

\* Without a late script a charge counts until the last second of its day.
THEOREM ChargesCount == Spec => []ChargesCountAllDay
<1>1. DayInv => ChargesCountAllDay
  BY DEF DayInv, OnTime, ChargesCountAllDay, TypeOK
<1> QED
  BY DayAlways, <1>1, PTL

\* A counter ends within a script's delay of the midnight after its last charge.
THEOREM EndsByDelay == Spec => []OutlivesByDelay
<1>1. DayInv => OutlivesByDelay
  BY DEF DayInv
<1> QED
  BY DayAlways, <1>1, PTL
=============================================================================
