------------------------- MODULE RateLimiterProofs -------------------------
(***************************************************************************)
(* Proofs about RateLimiter, for every limit, every length of the hour,    *)
(* every number of keys and handlers and every set of faults.              *)
(***************************************************************************)
EXTENDS RateLimiter, SumsProofs

USE LimitAssumption, WindowAssumption, KeyAssumption, RateFaultAssumption

\* A request that is not answered has a key.
Keyed == \A h \in Handlers: req[h].pc # "idle" => req[h].key \in Keys

\* A counter has counted whatever it let through.
Counting == \A k \in Keys: window[k] <= count[k]

RateInv == TypeOK /\ Keyed /\ Counting /\ WindowCap /\ OnlyFailuresOrphan

\* What a handler answers to a count is a request of the same key, and waits for
\* the EXPIRE exactly when the count is 1.
LEMMA JudgedShape ==
    ASSUME TypeOK, NEW h \in Handlers, NEW n \in Nat
    PROVE  /\ Judged(h, n) \in Request /\ Counted(h, n) \in Request /\ FailedOpen(h) \in Request
           /\ Judged(h, n).key = req[h].key /\ Counted(h, n).key = req[h].key
           /\ FailedOpen(h).key = req[h].key
           /\ Judged(h, n).pc \in {"idle", "sleep"} /\ FailedOpen(h).pc = "idle"
           /\ n = 1 => Counted(h, n).pc = "expire"
           /\ n # 1 => Counted(h, n).pc \in {"idle", "sleep"}
    <1>1. req[h] \in Request /\ req[h].key \in Keys \cup {NoKey}
        BY DEF TypeOK, Request
    <1>2. /\ Judged(h, n) \in Request /\ Judged(h, n).key = req[h].key
          /\ Judged(h, n).pc \in {"idle", "sleep"}
        BY <1>1 DEF Judged, Request
    <1>3. /\ FailedOpen(h) \in Request /\ FailedOpen(h).key = req[h].key
          /\ FailedOpen(h).pc = "idle"
        BY <1>1 DEF FailedOpen, Request
    <1>4. CASE n = 1
        BY <1>1, <1>2, <1>3, <1>4 DEF Counted, AwaitsExpire, Request
    <1>5. CASE n # 1
        BY <1>2, <1>3, <1>5 DEF Counted
    <1>6. QED
        BY <1>4, <1>5

LEMMA InitRate == Init => RateInv
    BY DEF Init, RateInv, TypeOK, Keyed, Counting, WindowCap, OnlyFailuresOrphan, HasTTL,
           Request, NoRequest, Ages

LEMMA ArriveKeeps ==
    ASSUME RateInv, NEW h \in Handlers, NEW k \in Keys, Arrive(h, k)
    PROVE  RateInv'
    <1>1. TypeOK'
        BY DEF RateInv, TypeOK, Arrive, Request
    <1>2. (Keyed /\ Counting /\ WindowCap)'
        BY DEF RateInv, TypeOK, Arrive, Keyed, Counting, WindowCap, Request
    <1>3. OnlyFailuresOrphan'
        BY DEF RateInv, TypeOK, Arrive, OnlyFailuresOrphan, HasTTL, At, Request
    <1>4. QED
        BY <1>1, <1>2, <1>3 DEF RateInv

LEMMA IncrKeeps ==
    ASSUME RateInv, NEW h \in Handlers, Incr(h)
    PROVE  RateInv'
    <1> DEFINE k == req[h].key
               n == count[k] + 1
    <1>1. /\ k \in Keys /\ n \in Nat /\ req[h].pc = "incr"
          /\ count' = [count EXCEPT ![k] = n]
          /\ req' = [req EXCEPT ![h] = Counted(h, n)]
          /\ IF Blocked(n) THEN UNCHANGED <<window, recent>> ELSE LetThrough(k)
          /\ UNCHANGED <<ttl, orphaned>>
        BY DEF RateInv, TypeOK, Keyed, Incr, At
    <1>2. /\ Counted(h, n) \in Request /\ Counted(h, n).key = k
          /\ n = 1 => Counted(h, n).pc = "expire"
        BY <1>1, JudgedShape DEF RateInv
    <1> HIDE DEF n, k
    <1>3. window' \in [Keys -> Nat] /\ recent' \in [Keys -> [Ages -> Nat]]
        <2>1. CASE Blocked(n)
            BY <1>1, <2>1 DEF RateInv, TypeOK
        <2>2. CASE LetThrough(k)
            <3>1. 0 \in Ages
                BY DEF Ages
            <3>2. recent[k] \in [Ages -> Nat] /\ window[k] \in Nat
                BY <1>1 DEF RateInv, TypeOK
            <3>3. [recent[k] EXCEPT ![0] = @ + 1] \in [Ages -> Nat]
                BY <3>1, <3>2
            <3>4. QED
                BY <1>1, <2>2, <3>1, <3>2, <3>3 DEF RateInv, TypeOK, LetThrough
        <2>3. QED
            BY <1>1, <2>1, <2>2
    <1>4. TypeOK'
        BY <1>1, <1>2, <1>3 DEF RateInv, TypeOK
    <1>5. Keyed'
        BY <1>1, <1>2 DEF RateInv, TypeOK, Keyed
    <1>6. (Counting /\ WindowCap)'
        <2>1. n = count[k] + 1
            BY DEF n
        <2>2. CASE Blocked(n)
            BY <1>1, <2>1, <2>2 DEF RateInv, TypeOK, Counting, WindowCap
        <2>3. CASE ~Blocked(n)
            <3>1. window' = [window EXCEPT ![k] = @ + 1] /\ n <= MaxPerHour * 2
                BY <1>1, <2>3, LimitAssumption DEF LetThrough, Blocked
            <3>2. window[k] + 1 <= n
                BY <1>1, <2>1 DEF RateInv, TypeOK, Counting
            <3>3. \A j \in Keys: j # k => window'[j] = window[j] /\ count'[j] = count[j]
                BY <1>1, <3>1 DEF RateInv, TypeOK
            <3>4. window'[k] <= n /\ count'[k] = n
                BY <1>1, <3>1, <3>2 DEF RateInv, TypeOK
            <3>5. window'[k] <= 2 * MaxPerHour
                BY <1>1, <1>3, <3>1, <3>4, LimitAssumption
            <3>6. QED
                BY <3>3, <3>4, <3>5 DEF RateInv, Counting, WindowCap
        <2>4. QED
            BY <2>2, <2>3
    <1>7. OnlyFailuresOrphan'
        <2> SUFFICES ASSUME NEW j \in Keys, j \notin orphaned'
                     PROVE  HasTTL(j)'
            BY DEF OnlyFailuresOrphan
        <2>1. HasTTL(j) /\ j \notin orphaned
            BY <1>1 DEF RateInv, OnlyFailuresOrphan
        <2>2. CASE j = k /\ n = 1
            BY <1>1, <1>2, <2>2 DEF HasTTL, At, RateInv, TypeOK
        <2>3. CASE j # k \/ n # 1
            <3>1. count'[j] > 0 => count[j] > 0
                BY <1>1, <2>3 DEF n, RateInv, TypeOK
            <3>2. \A g \in Handlers: At(g, "expire") => req'[g] = req[g]
                BY <1>1 DEF At, RateInv, TypeOK
            <3>3. QED
                BY <1>1, <2>1, <3>1, <3>2 DEF HasTTL, At
        <2>4. QED
            BY <2>2, <2>3
    <1>8. QED
        BY <1>4, <1>5, <1>6, <1>7 DEF RateInv

\* A step of h that neither creates nor removes a counter, lets nothing through and
\* orphans what it may leave without its EXPIRE.
LEMMA QuietKeeps ==
    ASSUME RateInv, NEW h \in Handlers, NEW r \in Request,
           req' = [req EXCEPT ![h] = r], r.key = req[h].key, r.pc # "expire",
           req[h].key \in Keys,
           \/ UNCHANGED <<count, orphaned>> /\ ~At(h, "expire")
           \/ UNCHANGED count /\ orphaned' = orphaned \cup {req[h].key}
           \/ Uncounted(req[h].key) /\ ~At(h, "expire"),
           UNCHANGED <<ttl, window, recent>>
    PROVE  RateInv'
    <1>1. TypeOK'
        BY DEF RateInv, TypeOK, Uncounted
    <1>2. (Keyed /\ Counting /\ WindowCap)'
        BY DEF RateInv, TypeOK, Keyed, Counting, WindowCap, Uncounted
    <1>3. OnlyFailuresOrphan'
        <2> SUFFICES ASSUME NEW j \in Keys, j \notin orphaned'
                     PROVE  HasTTL(j)'
            BY DEF OnlyFailuresOrphan
        <2>1. HasTTL(j) /\ j \notin orphaned
            BY DEF RateInv, OnlyFailuresOrphan, Uncounted
        <2>2. count'[j] > 0 => count[j] > 0
            BY DEF Uncounted, RateInv, TypeOK
        <2>3. \A g \in Handlers: (At(g, "expire") /\ req[g].key = j) => req'[g] = req[g]
            BY DEF At, RateInv, TypeOK
        <2>4. QED
            BY <2>1, <2>2, <2>3 DEF HasTTL, At
    <1>4. QED
        BY <1>1, <1>2, <1>3 DEF RateInv

LEMMA IncrFailsKeeps ==
    ASSUME RateInv, NEW h \in Handlers, IncrFails(h)
    PROVE  RateInv'
    <1>1. req[h].key \in Keys /\ req[h].pc = "incr" /\ req[h] \in Request
        BY DEF RateInv, TypeOK, Keyed, IncrFails, At
    <1>2. FailedOpen(h) \in Request /\ FailedOpen(h).key = req[h].key /\ FailedOpen(h).pc = "idle"
        BY JudgedShape DEF RateInv
    <1>3. CASE req' = [req EXCEPT ![h] = FailedOpen(h)]
        BY <1>1, <1>2, <1>3, QuietKeeps DEF IncrFails, At
    <1>4. CASE UNCHANGED req /\ Uncounted(req[h].key)
        <2>1. req' = [req EXCEPT ![h] = req[h]]
            BY <1>4 DEF RateInv, TypeOK
        <2>2. QED
            BY <1>1, <1>4, <2>1, QuietKeeps DEF IncrFails, At
    <1>5. QED
        BY <1>3, <1>4 DEF IncrFails

LEMMA ExpireFailsKeeps ==
    ASSUME RateInv, NEW h \in Handlers, ExpireFails(h)
    PROVE  RateInv'
    <1>1. req[h].key \in Keys /\ req[h].n \in Nat
        BY DEF RateInv, TypeOK, Keyed, ExpireFails, At, Request
    <1>2. LET r == Judged(h, req[h].n)
          IN  r \in Request /\ r.key = req[h].key /\ r.pc # "expire"
        BY <1>1, JudgedShape DEF RateInv
    <1>3. QED
        BY <1>1, <1>2, QuietKeeps DEF ExpireFails

LEMMA WakeKeeps ==
    ASSUME RateInv, NEW h \in Handlers, Wake(h)
    PROVE  RateInv'
    <1>1. req[h].key \in Keys /\ ~At(h, "expire")
        BY DEF RateInv, Keyed, Wake, At
    <1>2. FailedOpen(h) \in Request /\ FailedOpen(h).key = req[h].key /\ FailedOpen(h).pc = "idle"
        BY JudgedShape DEF RateInv
    <1>3. QED
        BY <1>1, <1>2, QuietKeeps DEF Wake

LEMMA ExpireKeeps ==
    ASSUME RateInv, NEW h \in Handlers, Expire(h)
    PROVE  RateInv'
    <1> DEFINE k == req[h].key
               r == Judged(h, req[h].n)
    <1>1. /\ k \in Keys /\ req[h].n \in Nat /\ req[h].pc = "expire"
          /\ ttl' = [ttl EXCEPT ![k] = IF count[k] > 0 THEN WindowTTL ELSE 0]
          /\ req' = [req EXCEPT ![h] = r] \/ UNCHANGED req
          /\ orphaned' = orphaned \ {k}
          /\ UNCHANGED <<count, window, recent>>
        BY DEF RateInv, TypeOK, Keyed, Expire, At, Request
    <1>2. r \in Request /\ r.key = k /\ r.pc \in {"idle", "sleep"}
        BY <1>1, JudgedShape DEF RateInv
    <1> HIDE DEF k, r
    <1>3. TypeOK'
        BY <1>1, <1>2 DEF RateInv, TypeOK
    <1>4. (Keyed /\ Counting /\ WindowCap)'
        BY <1>1, <1>2 DEF RateInv, TypeOK, Keyed, Counting, WindowCap
    <1>5. OnlyFailuresOrphan'
        <2> SUFFICES ASSUME NEW j \in Keys, j \notin orphaned'
                     PROVE  HasTTL(j)'
            BY DEF OnlyFailuresOrphan
        <2>1. CASE j = k
            BY <1>1, <2>1 DEF HasTTL, RateInv, TypeOK
        <2>2. CASE j # k
            <3>1. HasTTL(j) /\ ttl'[j] = ttl[j] /\ count'[j] = count[j]
                BY <1>1, <2>2 DEF RateInv, TypeOK, OnlyFailuresOrphan
            <3>2. \A g \in Handlers: (At(g, "expire") /\ req[g].key = j) => req'[g] = req[g]
                BY <1>1, <2>2 DEF RateInv, TypeOK, k
            <3>3. QED
                BY <3>1, <3>2 DEF HasTTL, At
        <2>3. QED
            BY <2>1, <2>2
    <1>6. QED
        BY <1>3, <1>4, <1>5 DEF RateInv

LEMMA CrashKeeps ==
    ASSUME RateInv, Crash
    PROVE  RateInv'
    <1>1. TypeOK'
        BY DEF RateInv, TypeOK, Keyed, Crash, At, Request, NoRequest
    <1>2. (Keyed /\ Counting /\ WindowCap)'
        BY DEF RateInv, TypeOK, Keyed, Counting, WindowCap, Crash, NoRequest
    <1>3. OnlyFailuresOrphan'
        <2> SUFFICES ASSUME NEW j \in Keys, j \notin orphaned'
                     PROVE  HasTTL(j)'
            BY DEF OnlyFailuresOrphan
        <2>1. HasTTL(j) /\ \A g \in Handlers: ~(At(g, "expire") /\ req[g].key = j)
            BY DEF RateInv, OnlyFailuresOrphan, Crash
        <2>2. QED
            BY <2>1 DEF HasTTL, Crash
    <1>4. QED
        BY <1>1, <1>2, <1>3 DEF RateInv

LEMMA TickKeeps ==
    ASSUME RateInv, Tick
    PROVE  RateInv'
    <1>1. recent' \in [Keys -> [Ages -> Nat]]
        <2> SUFFICES ASSUME NEW k \in Keys, NEW a \in Ages, a # 0
                     PROVE  recent[k][a - 1] \in Nat
            BY DEF Tick, RateInv, TypeOK
        <2>1. a - 1 \in Ages
            BY DEF Ages
        <2>2. QED
            BY <2>1 DEF RateInv, TypeOK
    <1>2. ttl' \in [Keys -> 0..WindowTTL]
        <2> SUFFICES ASSUME NEW k \in Keys, ttl[k] # 0
                     PROVE  ttl[k] - 1 \in 0..WindowTTL
            BY DEF Tick, RateInv, TypeOK
        <2>1. ttl[k] \in 0..WindowTTL
            BY DEF RateInv, TypeOK
        <2>2. QED
            BY <2>1
    <1>3. TypeOK'
        BY <1>1, <1>2 DEF Tick, RateInv, TypeOK
    <1>4. (Keyed /\ Counting /\ WindowCap)'
        BY DEF Tick, RateInv, TypeOK, Keyed, Counting, WindowCap
    <1>5. OnlyFailuresOrphan'
        BY DEF Tick, RateInv, TypeOK, OnlyFailuresOrphan, HasTTL, Expires, At
    <1>6. QED
        BY <1>3, <1>4, <1>5 DEF RateInv

LEMMA NextRate == RateInv /\ [Next]_vars => RateInv'
    <1> SUFFICES ASSUME RateInv, [Next]_vars PROVE RateInv'
        OBVIOUS
    <1>1. CASE \E h \in Handlers: Step(h)
        BY <1>1, IncrKeeps, IncrFailsKeeps, ExpireKeeps, ExpireFailsKeeps, WakeKeeps DEF Step
    <1>2. CASE \E h \in Handlers, k \in Keys: Arrive(h, k)
        BY <1>2, ArriveKeeps
    <1>3. CASE Crash
        BY <1>3, CrashKeeps
    <1>4. CASE Tick
        BY <1>4, TickKeeps
    <1>5. CASE UNCHANGED vars
        BY <1>5 DEF vars, RateInv, TypeOK, Keyed, Counting, WindowCap, OnlyFailuresOrphan,
                    HasTTL, At
    <1>6. QED
        BY <1>1, <1>2, <1>3, <1>4, <1>5 DEF Next

LEMMA RateInvariance == Spec => []RateInv
    BY InitRate, NextRate, PTL DEF Spec
-----------------------------------------------------------------------------
(* Any hour meets two counters of a key.  The ticks of the present hour that *)
(* its counter has lived through are the youngest ages of recent; what was   *)
(* let through at an older age was let through before.                       *)

Lived(k) == 0 .. (WindowTTL - ttl[k] - 1)

\* While its hour runs, whatever was let through was counted by the counter.
CountedWhileLived == \A k \in Keys: ttl[k] > 0 => SumOver(recent[k], Lived(k)) <= window[k]

\* What the present counter did not let through, one counter before it did.
OneCounterBefore == \A k \in Keys: PassedWithinTheHour(k) <= 2 * MaxPerHour + window[k]

HourInv == CountedWhileLived /\ OneCounterBefore

LEMMA AgesFinite ==
    ASSUME TypeOK, NEW k \in Keys, NEW n \in Int, n <= WindowTTL - 1
    PROVE  /\ 0 .. n \subseteq Ages /\ IsFiniteSet(0 .. n) /\ IsFiniteSet(Ages)
           /\ \A a \in Ages: recent[k][a] \in Nat
           /\ SumOver(recent[k], 0 .. n) \in Nat /\ PassedWithinTheHour(k) \in Nat
           /\ SumOver(recent[k], 0 .. n) <= PassedWithinTheHour(k)
    <1>1. 0 .. n \subseteq Ages /\ IsFiniteSet(0 .. n) /\ IsFiniteSet(Ages)
        BY FS_Interval DEF Ages
    <1>2. \A a \in Ages: recent[k][a] \in Nat
        BY DEF TypeOK
    <1>3. SumOver(recent[k], 0 .. n) \in Nat /\ PassedWithinTheHour(k) \in Nat
        BY <1>1, <1>2, SumType DEF PassedWithinTheHour
    <1>4. SumOver(recent[k], 0 .. n) <= PassedWithinTheHour(k)
        BY <1>1, <1>2, SumMonotone DEF PassedWithinTheHour
    <1>5. QED
        BY <1>1, <1>2, <1>3, <1>4

LEMMA LivedType ==
    ASSUME TypeOK, NEW k \in Keys
    PROVE  /\ WindowTTL - ttl[k] - 1 \in Int /\ WindowTTL - ttl[k] - 1 <= WindowTTL - 1
           /\ ttl[k] \in 0 .. WindowTTL /\ ttl[k] \in Nat /\ window[k] \in Nat
    BY DEF TypeOK

LEMMA InitHour == Init => HourInv
    <1> SUFFICES ASSUME Init PROVE HourInv
        OBVIOUS
    <1>1. TypeOK
        BY InitRate DEF RateInv
    <1>2. ASSUME NEW k \in Keys PROVE PassedWithinTheHour(k) = 0
        <2> DEFINE none == [a \in Ages |-> 0]
        <2>1. IsFiniteSet(Ages)
            BY FS_Interval DEF Ages
        <2>2. recent[k] = none
            BY DEF Init
        <2>3. \A s \in SUBSET Ages: SumOver(none, s) = 0
            BY <2>1, SumOfNothing
        <2>4. QED
            BY <2>2, <2>3 DEF PassedWithinTheHour
    <1>3. \A k \in Keys: ttl[k] = 0 /\ window[k] = 0
        BY DEF Init
    <1>4. QED
        BY <1>2, <1>3 DEF HourInv, CountedWhileLived, OneCounterBefore

\* A step that lets nothing through, changes no counter and takes no time.
LEMMA QuietHour ==
    ASSUME HourInv, UNCHANGED <<window, recent>>,
           \A k \in Keys: ttl'[k] \in {ttl[k], 0, WindowTTL}, TypeOK
    PROVE  HourInv'
    <1> SUFFICES ASSUME NEW k \in Keys
                 PROVE  /\ ttl'[k] > 0 => SumOver(recent'[k], 0 .. (WindowTTL - ttl'[k] - 1)) <= window'[k]
                        /\ PassedWithinTheHour(k)' <= 2 * MaxPerHour + window'[k]
        BY DEF HourInv, CountedWhileLived, OneCounterBefore, Lived
    <1>1. PassedWithinTheHour(k)' <= 2 * MaxPerHour + window'[k]
        BY DEF HourInv, OneCounterBefore, PassedWithinTheHour
    <1>2. CASE ttl'[k] = ttl[k]
        BY <1>1, <1>2 DEF HourInv, CountedWhileLived, Lived
    <1>3. CASE ttl'[k] = 0
        BY <1>1, <1>3
    <1>4. CASE ttl'[k] = WindowTTL
        <2>1. 0 .. (WindowTTL - ttl'[k] - 1) = {}
            BY <1>4
        <2>2. SumOver(recent'[k], {}) = 0
            BY SumEmpty
        <2>3. SumOver(recent'[k], 0 .. (WindowTTL - ttl'[k] - 1)) = 0
            BY <2>1, <2>2
        <2>4. window'[k] \in Nat
            BY DEF TypeOK
        <2>5. 0 <= window'[k]
            BY <2>4
        <2>6. QED
            BY <1>1, <2>3, <2>5
    <1>5. QED
        BY <1>2, <1>3, <1>4

\* One request more, counted at age 0 and by the present counter.
LEMMA IncrHour ==
    ASSUME RateInv, HourInv, NEW h \in Handlers, Incr(h)
    PROVE  HourInv'
    <1> DEFINE j == req[h].key
    <1>1. j \in Keys /\ UNCHANGED ttl /\ (UNCHANGED <<window, recent>> \/ LetThrough(j))
        BY DEF RateInv, Keyed, Incr, At
    <1>2. TypeOK
        BY DEF RateInv
    <1> HIDE DEF j
    <1>3. CASE UNCHANGED <<window, recent>>
        BY <1>1, <1>2, <1>3, QuietHour
    <1>4. CASE LetThrough(j)
        <2> SUFFICES ASSUME NEW k \in Keys
                     PROVE  /\ ttl[k] > 0 => SumOver(recent'[k], Lived(k)) <= window'[k]
                            /\ SumOver(recent'[k], Ages) <= 2 * MaxPerHour + window'[k]
            BY <1>1 DEF HourInv, CountedWhileLived, OneCounterBefore, Lived, PassedWithinTheHour
        <2>1. CASE k # j
            <3>1. recent'[k] = recent[k] /\ window'[k] = window[k]
                BY <1>2, <1>4, <2>1 DEF LetThrough, TypeOK
            <3>2. QED
                BY <3>1 DEF HourInv, CountedWhileLived, OneCounterBefore, PassedWithinTheHour
        <2>2. CASE k = j
            <3>1. /\ \A a \in Ages: recent'[k][a] = IF a = 0 THEN recent[k][a] + 1 ELSE recent[k][a]
                  /\ window'[k] = window[k] + 1
                BY <1>2, <1>4, <2>2 DEF LetThrough, TypeOK
            <3>2. /\ \A a \in Ages: recent[k][a] \in Nat
                  /\ IsFiniteSet(Ages) /\ IsFiniteSet(Lived(k)) /\ Lived(k) \subseteq Ages
                  /\ SumOver(recent[k], Lived(k)) \in Nat /\ SumOver(recent[k], Ages) \in Nat
                  /\ window[k] \in Nat /\ ttl[k] \in Nat
                BY <1>2, AgesFinite, LivedType DEF Lived, PassedWithinTheHour
            <3>3. 0 \in Ages
                BY DEF Ages
            <3>4. SumOver(recent'[k], Ages) = SumOver(recent[k], Ages) + 1
                BY <3>1, <3>2, <3>3, SumBump
            <3>5. SumOver(recent'[k], Lived(k)) <= SumOver(recent[k], Lived(k)) + 1
                <4>1. CASE 0 \in Lived(k)
                    <5>1. SumOver(recent'[k], Lived(k)) = SumOver(recent[k], Lived(k)) + 1
                        BY <3>1, <3>2, <4>1, SumBump
                    <5>2. QED
                        BY <3>2, <5>1
                <4>2. CASE 0 \notin Lived(k)
                    <5>1. SumOver(recent[k], Lived(k)) = SumOver(recent'[k], Lived(k))
                        BY <3>1, <3>2, <4>2, SumSame
                    <5>2. QED
                        BY <3>2, <5>1
                <4>3. QED
                    BY <4>1, <4>2
            <3>6. /\ ttl[k] > 0 => SumOver(recent[k], Lived(k)) <= window[k]
                  /\ SumOver(recent[k], Ages) <= 2 * MaxPerHour + window[k]
                BY DEF HourInv, CountedWhileLived, OneCounterBefore, PassedWithinTheHour
            <3>7. SumOver(recent'[k], Lived(k)) \in Nat
                <4>1. \A a \in Lived(k): recent'[k][a] \in Nat
                    BY <3>1, <3>2
                <4>2. QED
                    BY <3>2, <4>1, SumType
            <3>8. QED
                BY <3>1, <3>2, <3>4, <3>5, <3>6, <3>7
        <2>3. QED
            BY <2>1, <2>2
    <1>5. QED
        BY <1>1, <1>3, <1>4

\* Everything grows a tick older, the oldest is forgotten, and a counter whose hour
\* is over takes with it only what it let through itself.
LEMMA TickHour ==
    ASSUME RateInv, HourInv, Tick
    PROVE  HourInv'
    <1> SUFFICES ASSUME NEW k \in Keys
                 PROVE  /\ ttl'[k] > 0 => SumOver(recent'[k], 0 .. (WindowTTL - ttl'[k] - 1)) <= window'[k]
                        /\ SumOver(recent'[k], Ages) <= 2 * MaxPerHour + window'[k]
        BY DEF HourInv, CountedWhileLived, OneCounterBefore, Lived, PassedWithinTheHour
    <1>1. TypeOK /\ window[k] <= 2 * MaxPerHour
        BY DEF RateInv, WindowCap
    <1>2. /\ window[k] \in Nat /\ ttl[k] \in 0 .. WindowTTL
          /\ ttl[k] > 0 => SumOver(recent[k], 0 .. (WindowTTL - ttl[k] - 1)) <= window[k]
          /\ SumOver(recent[k], Ages) <= 2 * MaxPerHour + window[k]
        BY <1>1, LivedType DEF HourInv, CountedWhileLived, OneCounterBefore, Lived, PassedWithinTheHour
    <1>3. /\ window'[k] = IF ttl[k] = 1 THEN 0 ELSE window[k]
          /\ ttl'[k] = IF ttl[k] = 0 THEN 0 ELSE ttl[k] - 1
          /\ \A a \in Ages: recent'[k][a] = IF a = 0 THEN 0 ELSE recent[k][a - 1]
        BY DEF Tick, Expires
    <1>4. \A n \in 0 .. (WindowTTL - 1):
             SumOver(recent'[k], 0 .. n) = SumOver(recent[k], 0 .. (n - 1))
        <2> SUFFICES ASSUME NEW n \in 0 .. (WindowTTL - 1)
                     PROVE  SumOver(recent'[k], 0 .. n) = SumOver(recent[k], 0 .. (n - 1))
            OBVIOUS
        <2>1. 0 .. n \subseteq Ages /\ n \in Nat
            BY DEF Ages
        <2>2. \A a \in 0 .. n: recent[k][a] \in Nat
            BY <1>1, <2>1 DEF TypeOK
        <2>3. \A a \in 0 .. n: recent'[k][a] = IF a = 0 THEN 0 ELSE recent[k][a - 1]
            BY <1>3, <2>1
        <2>4. QED
            BY <2>1, <2>2, <2>3, SumShift
    <1>5. /\ SumOver(recent[k], 0 .. (WindowTTL - 2)) \in Nat /\ SumOver(recent[k], Ages) \in Nat
          /\ SumOver(recent[k], 0 .. (WindowTTL - 2)) <= SumOver(recent[k], Ages)
        BY <1>1, AgesFinite DEF PassedWithinTheHour
    <1>6. SumOver(recent'[k], Ages) = SumOver(recent[k], 0 .. (WindowTTL - 2))
        <2>1. WindowTTL - 1 \in 0 .. (WindowTTL - 1) /\ (WindowTTL - 1) - 1 = WindowTTL - 2
            OBVIOUS
        <2>2. QED
            BY <1>4, <2>1 DEF Ages
    <1>7. CASE ttl[k] = 0
        BY <1>2, <1>3, <1>5, <1>6, <1>7
    <1>8. CASE ttl[k] = 1
        <2>1. WindowTTL - ttl[k] - 1 = WindowTTL - 2
            BY <1>8
        <2>2. QED
            BY <1>1, <1>2, <1>3, <1>5, <1>6, <1>8, <2>1
    <1>9. CASE ttl[k] > 1
        <2>1. /\ WindowTTL - ttl[k] \in 0 .. (WindowTTL - 1)
              /\ WindowTTL - ttl'[k] - 1 = WindowTTL - ttl[k]
            BY <1>2, <1>3, <1>9
        <2>2. SumOver(recent'[k], 0 .. (WindowTTL - ttl'[k] - 1))
              = SumOver(recent[k], 0 .. (WindowTTL - ttl[k] - 1))
            BY <1>4, <2>1
        <2>3. QED
            BY <1>2, <1>3, <1>5, <1>6, <1>9, <2>2
    <1>10. QED
        BY <1>2, <1>7, <1>8, <1>9

LEMMA NextHour == RateInv /\ HourInv /\ [Next]_vars => HourInv'
    <1> SUFFICES ASSUME RateInv, HourInv, [Next]_vars PROVE HourInv'
        OBVIOUS
    <1>1. TypeOK
        BY DEF RateInv
    <1>2. ASSUME NEW h \in Handlers, Step(h) PROVE HourInv'
        <2>1. CASE Incr(h)
            BY <2>1, IncrHour
        <2>2. CASE Expire(h)
            <3>1. req[h].key \in Keys
                BY <2>2 DEF RateInv, Keyed, Expire, At
            <3>2. UNCHANGED <<window, recent>> /\ \A k \in Keys: ttl'[k] \in {ttl[k], 0, WindowTTL}
                BY <1>1, <2>2, <3>1 DEF Expire, TypeOK
            <3>3. QED
                BY <1>1, <3>2, QuietHour
        <2>3. CASE IncrFails(h) \/ ExpireFails(h) \/ Wake(h)
            BY <1>1, <2>3, QuietHour DEF IncrFails, ExpireFails, Wake
        <2>4. QED
            BY <1>2, <2>1, <2>2, <2>3 DEF Step
    <1>3. CASE Tick
        BY <1>3, TickHour
    <1>4. CASE \/ \E h \in Handlers, k \in Keys: Arrive(h, k)
               \/ Crash
               \/ UNCHANGED vars
        BY <1>1, <1>4, QuietHour DEF Arrive, Crash, vars
    <1>5. QED
        BY <1>2, <1>3, <1>4 DEF Next

LEMMA HourInvariance == Spec => []HourInv
    <1>1. RateInv /\ HourInv /\ [Next]_vars => HourInv'
        BY NextHour
    <1>2. QED
        BY <1>1, InitHour, RateInvariance, PTL DEF Spec
-----------------------------------------------------------------------------
\* Counters, requests and history keep their types (CheckRateLimit).
THEOREM RateTypeCorrect == Spec => []TypeOK
    BY RateInvariance, PTL DEF RateInv

\* The hard block: one counter lets at most twice the limit through of the requests it
\* counts, with any faults and however long the counter lives.
THEOREM HardBlock == Spec => []WindowCap
    BY RateInvariance, PTL DEF RateInv

\* A counter that no failure has kept from its EXPIRE has a time to live or an EXPIRE
\* to come, for every interleaving of the requests that count on it.
THEOREM FailuresOrphan == Spec => []OnlyFailuresOrphan
    BY RateInvariance, PTL DEF RateInv

\* Of the requests that Redis counted, an arbitrary hour lets at most four times the
\* limit through: it meets one counter before the present one, also if EXPIRE fails or
\* is re-sent.  Requests let through by an error of INCR are not among them.
THEOREM HourIsCapped == Spec => []HourCap
    <1>1. RateInv /\ HourInv => HourCap
        <2> SUFFICES ASSUME RateInv, HourInv, NEW k \in Keys
                     PROVE  PassedWithinTheHour(k) <= 4 * MaxPerHour
            BY DEF HourCap
        <2>1. TypeOK /\ WindowTTL - 1 \in Int
            BY DEF RateInv
        <2>2. window[k] \in Nat /\ PassedWithinTheHour(k) \in Nat
            BY <2>1, LivedType, AgesFinite
        <2>3. window[k] <= 2 * MaxPerHour /\ PassedWithinTheHour(k) <= 2 * MaxPerHour + window[k]
            BY DEF RateInv, WindowCap, HourInv, OneCounterBefore
        <2>4. QED
            BY <2>2, <2>3
    <1>2. QED
        BY <1>1, RateInvariance, HourInvariance, PTL

\* A request gets past its INCR without being refused.
Admitted(h) ==
    /\ At(h, "incr") /\ ~At(h, "incr")'
    /\ req'[h].pc \in {"expire", "sleep"} \/ req'[h].resp = 200
Records(h) ==
    LET k == req[h].key IN recent' = [recent EXCEPT ![k][0] = @ + 1]

\* If INCR never fails, no request gets past the limiter uncounted, also not the one
\* that has to see to the EXPIRE first: then HourIsCapped speaks of all requests.
\* This is what an error of INCR takes away (redis.go, "fail open").
THEOREM EveryoneIsCounted ==
    ASSUME Faults \cap {<<"incr", "error">>, <<"incr", "lost">>} = {}
    PROVE  Spec => [][\A h \in Handlers: Admitted(h) => Records(h)]_vars
    <1>1. RateInv /\ [Next]_vars => [\A h \in Handlers: Admitted(h) => Records(h)]_vars
        <2> SUFFICES ASSUME RateInv, Next, NEW h \in Handlers, Admitted(h)
                     PROVE  Records(h)
            OBVIOUS
        <2>1. TypeOK /\ req[h].pc = "incr" /\ req'[h].pc # "incr" /\ req[h].key \in Keys
            BY DEF RateInv, Admitted, At, Keyed
        <2>2. CASE Incr(h)
            <3> DEFINE n == count[req[h].key] + 1
            <3>1. req'[h] = Counted(h, n) /\ n \in Nat
                BY <2>1, <2>2 DEF Incr, TypeOK
            <3>2. ~Blocked(n)
                <4>1. CASE n = 1
                    BY <4>1 DEF Blocked
                <4>2. CASE n # 1
                    BY <3>1, <4>2 DEF Admitted, Counted, Judged, Blocked, Throttled
                <4>3. QED
                    BY <4>1, <4>2
            <3>3. QED
                BY <2>2, <3>2 DEF Incr, LetThrough, Records
        <2>3. ~IncrFails(h)
            BY <2>1 DEF IncrFails
        <2>4. ASSUME NEW g \in Handlers, g # h, Step(g) PROVE FALSE
            BY <2>1, <2>4 DEF Step, Incr, IncrFails, Expire, ExpireFails, Wake, TypeOK
        <2>5. ~Crash
            BY <2>1 DEF Crash, NoRequest, Admitted
        <2>6. QED
            BY <2>1, <2>2, <2>3, <2>4, <2>5
               DEF Next, Step, Expire, ExpireFails, Wake, Arrive, Tick, At, TypeOK
    <1>2. QED
        BY <1>1, RateInvariance, PTL DEF Spec

\* The claim of the docs holds as long as nothing comes between the INCR that creates
\* a counter and its EXPIRE: INCR may fail unexecuted and EXPIRE be sent twice, but no
\* INCR is executed unheard or twice, no EXPIRE fails and no process dies (redis.go,
\* CheckRateLimit).
THEOREM CountersExpire ==
    ASSUME Faults \cap {<<"incr", "lost">>, <<"incr", "resend">>, <<"expire", "error">>} = {},
           ~CrashAllowed
    PROVE  Spec => []CounterHasTTL
    <1> DEFINE NoneOrphaned == orphaned = {}
    <1>1. Init => NoneOrphaned
        BY DEF Init
    <1>2. NoneOrphaned /\ [Next]_vars => NoneOrphaned'
        BY DEF Next, Step, Arrive, Incr, IncrFails, Expire, ExpireFails, Wake, Crash, Tick, vars
    <1>3. OnlyFailuresOrphan /\ NoneOrphaned => CounterHasTTL
        BY DEF OnlyFailuresOrphan, CounterHasTTL
    <1> HIDE DEF NoneOrphaned
    <1>4. QED
        BY <1>1, <1>2, <1>3, FailuresOrphan, PTL DEF Spec
=============================================================================
