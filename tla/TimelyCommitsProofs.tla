------------------------ MODULE TimelyCommitsProofs ------------------------
(***************************************************************************)
(* Proofs about TimelyCommits: with timely handlers and harmless faults    *)
(* the commit lock keeps a paid session from being charged twice, for any  *)
(* number of requests and any times to live that leave the budget room.    *)
(*                                                                         *)
(* The argument is about time.  Whoever holds the lock took it after its   *)
(* lookup, so the lock has at least CommitLockTTL less the holder's age to *)
(* live.  Whoever still believes a charged session uncommitted read that   *)
(* before the sentinel was written, so its own age and the time the lock   *)
(* has left exceed the budget.                                             *)
(***************************************************************************)
EXTENDS SessionsProofs, TimelyCommits

USE QuotaAssumption, TTLAssumption, DeviceAssumption, SessionAssumption, FaultAssumption,
    RestartAssumption, BudgetAssumption DEF SessionSteps, CommitSteps, Steps

Holding(h) == req[h].pc \in {"consume", "mark"}

\* The age of a handler is a number of ticks within the budget.
Ages ==
    /\ age \in [Handlers -> 0..CommitBudget]
    /\ \A h \in Handlers: req[h].pc \notin AfterLookup => age[h] = 0

\* A holder's lock is as old as the holder at most.
Locked == \A h \in Handlers: Holding(h) => commitlock[req[h].sid] + age[h] >= CommitLockTTL

\* Who believes a charged session uncommitted runs out of time before the lock.
Outlasted ==
    \A h \in Handlers:
        (At(h, "lock") /\ charges[req[h].sid] >= 1) => commitlock[req[h].sid] + age[h] > CommitBudget

\* A charged session still looks uncommitted only while its sentinel is on the way.
Marking ==
    \A s \in SessionIds:
        (reserve[s].type = "paid" /\ charges[s] >= 1)
        => \E h \in Handlers: At(h, "mark") /\ req[h].sid = s

\* The charge of a holder is the first.
FirstCharge ==
    /\ \A h \in Handlers: At(h, "consume") => charges[req[h].sid] = 0
    /\ PaidChargedAtMostOnce

Timely == Ages /\ Locked /\ Outlasted /\ Marking /\ FirstCharge /\ CommitExclusive

TInv == IInv /\ Timely
-----------------------------------------------------------------------------
LEMMA TimelySteps == TimelyNext => Next
  BY DEF TimelyNext, TimelyTick, Next

LEMMA InitTimely == TimelyInit => TInv
  BY InitInv DEF TimelyInit, TInv, Timely, Ages, Locked, Outlasted, Marking, FirstCharge,
     CommitExclusive, PaidChargedAtMostOnce, Holding, At, Init, NoRequest, NoReservation

\* A step that moves neither a lock, a reservation nor a charge and brings nobody
\* past the lookup keeps all of it.
LEMMA QuietKeeps ==
    ASSUME TInv, UNCHANGED <<commitlock, charges>>,
           \A s \in SessionIds:
              charges[s] = 0 \/ (kind'[s] = kind[s] /\ reserve'[s].type \in {"none", reserve[s].type}),
           \A h \in Handlers: req'[h].pc \in {"lock", "consume", "mark"} => req'[h] = req[h],
           \A h \in Handlers: req[h].pc = "mark" => req'[h] = req[h],
           age' = [h \in Handlers |-> IF req'[h].pc \in AfterLookup THEN age[h] ELSE 0]
    PROVE  Timely'
<1> USE DEF TInv, Timely
<1>1. charges \in [SessionIds -> Nat]
  BY DEF IInv, TypeOK
<1>2. Ages'
  BY DEF Ages
<1>3. Locked' /\ Outlasted' /\ CommitExclusive'
  BY DEF Locked, Outlasted, CommitExclusive, Holding, At, AfterLookup
<1>4. Marking'
  BY DEF Marking, At
<1>5. FirstCharge'
  BY <1>1 DEF FirstCharge, PaidChargedAtMostOnce, At
<1> QED
  BY <1>2, <1>3, <1>4, <1>5

\* What the age of a handler becomes in a step that takes no time.
AgesGoOn == age' = [h \in Handlers |-> IF req'[h].pc \in AfterLookup THEN age[h] ELSE 0]

LEMMA StepAges ==
    ASSUME TInv, AgesGoOn, NEW h \in Handlers, Step(h)
    PROVE  /\ Ages'
           /\ \A g \in Handlers \ {h}: req'[g] = req[g] /\ age'[g] = age[g]
           /\ req'[h].pc \in AfterLookup => age'[h] = age[h]
           /\ age[h] \in 0..CommitBudget
<1>1. \A g \in Handlers \ {h}: req'[g] = req[g]
  BY StepMoves DEF TInv
<1> QED
  BY <1>1 DEF TInv, Timely, Ages, AgesGoOn

\* The steps of a handler that leave lock, charges and paid reservations alone.
LEMMA OtherStepKeeps ==
    ASSUME TInv, AgesGoOn, Harmless, NEW h \in Handlers,
           \/ ReserveFree(h) \/ ReadPaid(h) \/ ReservePaid(h) \/ SignToken(h) \/ ReadUsed(h)
           \/ (CommitFree(h) /\ ~Claimable(h)) \/ CallFails(h)
    PROVE  Timely'
<1>1. Step(h)
  BY DEF Step
<1>2. IInv /\ req[h].sid \in SessionIds
  BY <1>1, StepMoves, Busy DEF TInv
<1>3. UNCHANGED <<commitlock, charges>>
  BY DEF ReserveFree, ReadPaid, ReservePaid, SignToken, ReadUsed, CommitFree, CallFails, Plant,
         redis, history
<1>4. \/ UNCHANGED <<reserve, kind>>
      \/ req[h].pc \in SessionSteps
  BY DEF ReserveFree, ReadPaid, ReservePaid, SignToken, ReadUsed, CommitFree, CallFails, At,
         redis, history
<1>5. req[h].pc \in SessionSteps => charges[req[h].sid] = 0
  BY <1>2 DEF IInv, Known, Handling, HandlerOK, Keeping, SessionOK
<1>6. \A s \in SessionIds:
         charges[s] = 0 \/ (kind'[s] = kind[s] /\ reserve'[s].type \in {"none", reserve[s].type})
  BY <1>1, <1>2, <1>4, <1>5, StepMoves
<1>7. req[h].pc \in {"reserveFree", "readPaid", "reservePaid", "sign", "readUsed", "commitFree"}
      \/ CallFails(h)
  BY DEF ReserveFree, ReadPaid, ReservePaid, SignToken, ReadUsed, CommitFree, At
<1>8. CallFails(h) => req[h].pc # "mark" /\ req'[h].pc = "idle"
  <2>1. CallFails(h) => <<req[h].pc, "error">> \in Faults /\ req' = [req EXCEPT ![h] = AnswerError(h)]
    BY DEF CallFails
  <2>2. TypeOK /\ AnswerError(h) \in Request /\ AnswerError(h).pc = "idle"
    BY <1>2, AnswersTyped, AnswerShape DEF AnswerError, IInv
  <2>3. CallFails(h) => req'[h].pc = "idle"
    BY <2>1, <2>2 DEF TypeOK
  <2> QED
    BY <2>1, <2>3 DEF Harmless
<1>9. \A g \in Handlers: req'[g].pc \in {"lock", "consume", "mark"} => req'[g] = req[g]
  <2>1. req'[h].pc \notin {"lock", "consume", "mark"}
    BY <1>1, <1>2, <1>7, <1>8, StepMoves DEF Holds
  <2> QED
    BY <1>1, <1>2, <2>1, StepMoves
<1>10. \A g \in Handlers: req[g].pc = "mark" => req'[g] = req[g]
  BY <1>1, <1>2, <1>7, <1>8, StepMoves
<1> QED
  BY <1>3, <1>6, <1>9, <1>10, QuietKeeps DEF AgesGoOn

\* A stale read: the session may have been charged, but then its sentinel is still
\* to be written, and the lock of its holder is young.
LEMMA LookupKeepsTime ==
    ASSUME TInv, AgesGoOn, NEW h \in Handlers, Lookup(h)
    PROVE  Timely'
<1> USE DEF TInv, Timely
<1>1. Step(h) /\ req[h].pc = "lookup"
  BY DEF Step, Lookup, At
<1>2. UNCHANGED <<reserve, commitlock, kind, charges>>
  BY DEF Lookup, redis, history
<1>3. /\ \A g \in Handlers \ {h}: req'[g] = req[g] /\ age'[g] = age[g]
      /\ req'[h].sid = req[h].sid /\ req'[h].pc \notin {"consume", "mark"}
  BY <1>1, StepMoves, StepAges
<1>4. Ages' /\ Locked' /\ CommitExclusive'
  BY <1>1, <1>2, <1>3, StepAges DEF Locked, CommitExclusive, Holding
<1>5. ASSUME req'[h].pc = "lock", charges[req[h].sid] >= 1
      PROVE  commitlock[req[h].sid] + age'[h] > CommitBudget
  <2>1. reserve[req[h].sid].type = "paid" /\ req[h].sid \in SessionIds
    BY <1>1, <1>5, StepMoves, Busy DEF Holds
  <2>2. PICK g \in Handlers: At(g, "mark") /\ req[g].sid = req[h].sid
    BY <1>5, <2>1 DEF Marking
  <2>3. commitlock[req[h].sid] + age[g] >= CommitLockTTL /\ age[g] \in 0..CommitBudget
    BY <2>2 DEF Locked, Holding, At, Ages
  <2>4. age'[h] \in 0..CommitBudget /\ commitlock[req[h].sid] \in Nat
    BY <1>4, <2>1 DEF Ages, IInv, TypeOK
  <2> QED
    BY <2>3, <2>4
<1>6. Outlasted'
  BY <1>2, <1>3, <1>5 DEF Outlasted, At
<1>7. Marking' /\ FirstCharge'
  BY <1>1, <1>2, <1>3 DEF Marking, FirstCharge, PaidChargedAtMostOnce, At
<1> QED
  BY <1>4, <1>6, <1>7

\* A free charge is none of the lock's business.
LEMMA FreeChargeKeepsTime ==
    ASSUME TInv, AgesGoOn, NEW h \in Handlers, CommitFree(h), Claimable(h)
    PROVE  Timely'
<1> USE DEF TInv, Timely
<1>1. Step(h) /\ req[h].pc = "commitFree"
  BY DEF Step, CommitFree, At
<1>2. req[h].sid \in SessionIds /\ SessionOK(req[h].sid) /\ charges \in [SessionIds -> Nat]
  BY <1>1, Busy DEF IInv, TypeOK
<1>3. kind[req[h].sid] = "free"
  BY <1>2 DEF Claimable, Holds, SessionOK
<1>4. /\ UNCHANGED <<commitlock, kind>> /\ Charge(h) /\ Sentinel(h, "committed-free")
  BY DEF CommitFree, AlreadyCommitted, Claimable, Holds
<1>5. /\ \A s \in SessionIds \ {req[h].sid}: charges'[s] = charges[s] /\ reserve'[s] = reserve[s]
      /\ reserve'[req[h].sid].type = "committed-free"
  BY <1>2, <1>4 DEF Charge, Sentinel, IInv, TypeOK
<1>6. /\ \A g \in Handlers \ {h}: req'[g] = req[g] /\ age'[g] = age[g]
      /\ req'[h].pc \notin {"lock", "consume", "mark"}
  BY <1>1, StepMoves, StepAges
<1>7. \A g \in Handlers: req[g].pc \in {"lock", "consume", "mark"}
                         => req[g].sid \in SessionIds /\ req[g].sid # req[h].sid
  BY <1>3, Busy DEF HandlerOK
<1>8. Ages' /\ Locked' /\ CommitExclusive' /\ Outlasted'
  BY <1>1, <1>4, <1>5, <1>6, <1>7, StepAges DEF Locked, CommitExclusive, Outlasted, Holding, At
<1>9. Marking' /\ FirstCharge'
  BY <1>1, <1>3, <1>4, <1>5, <1>6, <1>7 DEF Marking, FirstCharge, PaidChargedAtMostOnce, At
<1> QED
  BY <1>8, <1>9

\* Taking the lock: it was free, so nobody holds it and the session is uncharged.
LEMMA LockKeepsTime ==
    ASSUME TInv, AgesGoOn, NEW h \in Handlers, Lock(h)
    PROVE  Timely'
<1> USE DEF TInv, Timely
<1>1. Step(h) /\ req[h].pc = "lock"
  BY DEF Step, Lock, At
<1>2. /\ req[h].sid \in SessionIds /\ charges[req[h].sid] \in Nat
      /\ commitlock \in [SessionIds -> 0..CommitLockTTL]
      /\ age[h] \in 0..CommitBudget
  BY <1>1, Busy, StepAges DEF IInv, TypeOK
<1>3. UNCHANGED <<reserve, kind, charges>>
  BY DEF Lock, redis, history
<1>4. /\ \A g \in Handlers \ {h}: req'[g] = req[g] /\ age'[g] = age[g]
      /\ req'[h].sid = req[h].sid /\ req'[h].pc # "mark" /\ Ages'
      /\ req'[h].pc \in AfterLookup => age'[h] = age[h]
  BY <1>1, StepMoves, StepAges
<1>5. CASE LockFree(req[h].sid)
  <2>1. commitlock' = [commitlock EXCEPT ![req[h].sid] = CommitLockTTL]
    BY <1>5 DEF Lock
  <2>2. charges[req[h].sid] = 0
    BY <1>1, <1>2, <1>5 DEF Outlasted, At, LockFree
  <2>3. \A g \in Handlers: Holding(g) => req[g].sid # req[h].sid /\ req[g].sid \in SessionIds
    <3>1. ASSUME NEW g \in Handlers, Holding(g), req[g].sid = req[h].sid PROVE FALSE
      BY <1>2, <1>5, <3>1 DEF Locked, LockFree, Ages
    <3> QED
      BY <3>1, Busy DEF Holding
  <2>4. CommitExclusive'
    BY <1>4, <2>3 DEF CommitExclusive, Holding
  <2>5. Locked'
    BY <1>2, <1>4, <2>1, <2>3 DEF Locked, Holding, AfterLookup
  <2>6. Outlasted'
    <3>1. \A g \in Handlers: At(g, "lock") => req[g].sid \in SessionIds
      BY Busy DEF At
    <3> QED
      BY <1>1, <1>2, <1>3, <1>4, <2>1, <2>2, <3>1 DEF Outlasted, At
  <2>7. Marking' /\ FirstCharge'
    BY <1>1, <1>3, <1>4, <2>2 DEF Marking, FirstCharge, PaidChargedAtMostOnce, At
  <2> QED
    BY <1>4, <2>4, <2>5, <2>6, <2>7
<1>6. CASE ~LockFree(req[h].sid)
  <2>1. commitlock' = commitlock /\ Reply(h, Answer(h, 200))
    BY <1>6 DEF Lock, redis
  <2>2. req'[h].pc \in {"idle", "lock"}
    BY <1>1, <2>1, AnswersTyped, AnswerShape, ReplyMoves DEF IInv
  <2> QED
    BY <1>1, <1>3, <1>4, <2>1, <2>2 DEF CommitExclusive, Locked, Outlasted, Marking, FirstCharge,
       PaidChargedAtMostOnce, Holding, At, AfterLookup
<1> QED
  BY <1>5, <1>6

\* The charge: the holder is alone, and its lock outlives everyone who read the
\* reservation before the sentinel.
LEMMA ConsumeKeepsTime ==
    ASSUME TInv, AgesGoOn, Harmless, NEW h \in Handlers, Consume(h)
    PROVE  Timely'
<1> USE DEF TInv, Timely
<1>1. Step(h) /\ req[h].pc = "consume"
  BY DEF Step, Consume, At
<1>2. /\ req[h].sid \in SessionIds /\ charges \in [SessionIds -> Nat]
      /\ commitlock \in [SessionIds -> 0..CommitLockTTL] /\ age[h] \in 0..CommitBudget
  BY <1>1, Busy, StepAges DEF IInv, TypeOK
<1>3. /\ \A g \in Handlers \ {h}: req'[g] = req[g] /\ age'[g] = age[g]
      /\ req'[h].sid = req[h].sid /\ Ages'
      /\ req'[h].pc \in AfterLookup => age'[h] = age[h]
  BY <1>1, StepMoves, StepAges
<1>4. UNCHANGED <<reserve, commitlock, kind>>
  BY DEF Consume, redis, history
<1>5. CASE HasBalance(req[h].dev)
  <2>1. Charge(h) /\ Reply(h, Goto(h, "mark"))
    BY <1>5 DEF Consume
  <2>2. req' = [req EXCEPT ![h] = Goto(h, "mark")]
    BY <1>1, <2>1 DEF Reply, Harmless
  <2>3. req'[h].pc = "mark"
    <3>1. TypeOK /\ Goto(h, "mark").pc = "mark"
      BY AnswerShape DEF IInv
    <3> QED
      BY <2>2, <3>1 DEF TypeOK
  <2>4. /\ charges'[req[h].sid] = 1
        /\ \A s \in SessionIds \ {req[h].sid}: charges'[s] = charges[s]
    BY <1>1, <1>2, <2>1 DEF Charge, FirstCharge, At
  <2>5. \A g \in Handlers \ {h}: Holding(g) => req[g].sid # req[h].sid
    BY <1>1 DEF CommitExclusive, Holding
  <2>6. Locked' /\ CommitExclusive'
    BY <1>1, <1>3, <1>4, <2>3 DEF Locked, CommitExclusive, Holding, AfterLookup
  <2>7. Outlasted'
    <3>1. \A g \in Handlers: At(g, "lock") => req[g].sid \in SessionIds
      BY Busy DEF At
    <3>2. commitlock[req[h].sid] > CommitBudget
      BY <1>1, <1>2 DEF Locked, Holding
    <3> QED
      BY <1>2, <1>3, <1>4, <2>3, <2>4, <3>1, <3>2 DEF Outlasted, At, Ages
  <2>8. Marking'
    BY <1>1, <1>3, <1>4, <2>3, <2>4 DEF Marking, At
  <2>9. FirstCharge'
    <3>1. \A g \in Handlers \ {h}: At(g, "consume") => req[g].sid \in SessionIds
      BY Busy DEF At
    <3> QED
      BY <1>3, <1>4, <2>3, <2>4, <2>5, <3>1 DEF FirstCharge, PaidChargedAtMostOnce, At, Holding
  <2> QED
    BY <1>3, <2>6, <2>7, <2>8, <2>9
<1>6. CASE ~HasBalance(req[h].dev)
  <2>1. charges' = charges /\ Reply(h, Answer(h, 409))
    BY <1>6 DEF Consume, NoBalance, history
  <2>2. req'[h].pc \in {"idle", "consume"}
    BY <1>1, <2>1, AnswersTyped, AnswerShape, ReplyMoves DEF IInv
  <2> QED
    BY <1>1, <1>3, <1>4, <2>1, <2>2 DEF CommitExclusive, Locked, Outlasted, Marking, FirstCharge,
       PaidChargedAtMostOnce, Holding, At, AfterLookup
<1> QED
  BY <1>5, <1>6

\* The sentinel: from now on nobody reads the session as uncommitted.
LEMMA MarkKeepsTime ==
    ASSUME TInv, AgesGoOn, NEW h \in Handlers, Mark(h)
    PROVE  Timely'
<1> USE DEF TInv, Timely
<1>1. Step(h) /\ req[h].pc = "mark"
  BY DEF Step, Mark, At
<1>2. req[h].sid \in SessionIds
  BY <1>1, Busy
<1>3. /\ \A g \in Handlers \ {h}: req'[g] = req[g] /\ age'[g] = age[g]
      /\ req'[h].sid = req[h].sid /\ req'[h].pc \notin {"lock", "consume"} /\ Ages'
      /\ req'[h].pc \in AfterLookup => age'[h] = age[h]
  BY <1>1, StepMoves, StepAges
<1>4. /\ UNCHANGED <<commitlock, kind, charges>>
      /\ \A s \in SessionIds \ {req[h].sid}: reserve'[s] = reserve[s]
      /\ reserve'[req[h].sid].type = "committed-paid"
  BY <1>2 DEF Mark, Sentinel, history, IInv, TypeOK
<1>5. Locked' /\ CommitExclusive' /\ Outlasted'
  BY <1>1, <1>3, <1>4 DEF Locked, CommitExclusive, Outlasted, Holding, At, AfterLookup
<1>6. Marking' /\ FirstCharge'
  BY <1>1, <1>3, <1>4 DEF Marking, FirstCharge, PaidChargedAtMostOnce, At
<1> QED
  BY <1>3, <1>5, <1>6

\* A tick makes handlers older by as much as it takes from the locks.
LEMMA TickKeepsTime ==
    ASSUME TInv, TimelyTick
    PROVE  Timely'
<1> USE DEF TInv, Timely
<1>1. /\ UNCHANGED <<req, kind, charges>>
      /\ age' = [h \in Handlers |-> IF req[h].pc \in AfterLookup THEN age[h] + 1 ELSE 0]
      /\ \A h \in Handlers: req[h].pc \in AfterLookup => age[h] < CommitBudget
      /\ \A s \in SessionIds: commitlock'[s] = IF LockFree(s) THEN 0 ELSE commitlock[s] - 1
      /\ \A s \in SessionIds: reserve'[s] = Aged(reserve[s])
  BY DEF TimelyTick, Tick
<1>2. commitlock \in [SessionIds -> 0..CommitLockTTL] /\ charges \in [SessionIds -> Nat]
  BY DEF IInv, TypeOK
<1>3. Ages'
  BY <1>1 DEF Ages
<1>4. \A h \in Handlers: req[h].pc \in {"lock", "consume", "mark"}
         => /\ req[h].sid \in SessionIds /\ age'[h] = age[h] + 1
            /\ age[h] \in Nat /\ age[h] < CommitBudget
  BY <1>1, Busy DEF AfterLookup, Ages
<1>5. Locked'
  BY <1>1, <1>2, <1>4 DEF Locked, Holding, LockFree
<1>6. Outlasted'
  BY <1>1, <1>2, <1>4 DEF Outlasted, At, LockFree
<1>7. \A s \in SessionIds: reserve'[s].type = "paid" => reserve[s].type = "paid"
  <2> TAKE s \in SessionIds
  <2>1. reserve[s] \in Reservation /\ reserve'[s] = Aged(reserve[s])
    BY <1>1 DEF IInv, TypeOK
  <2> QED
    BY <2>1 DEF Aged, NoReservation, Reservation
<1>8. Marking' /\ FirstCharge' /\ CommitExclusive'
  BY <1>1, <1>7 DEF Marking, FirstCharge, PaidChargedAtMostOnce, CommitExclusive, At
<1> QED
  BY <1>3, <1>5, <1>6, <1>8

LEMMA TimelyKeeps ==
    ASSUME TInv, Harmless, [TimelyNext]_timely
    PROVE  Timely'
<1>1. CASE TimelyTick
  BY <1>1, TickKeepsTime
<1>2. CASE UNCHANGED timely
  BY <1>2 DEF timely, vars, redis, history, TInv, Timely, Ages, Locked, Outlasted, Marking,
              FirstCharge, CommitExclusive, PaidChargedAtMostOnce, Holding, At
<1>3. CASE Untimed /\ AgesGoOn
  <2>1. ASSUME NEW h \in Handlers, Step(h) PROVE Timely'
    BY <1>3, <2>1, OtherStepKeeps, LookupKeepsTime, FreeChargeKeepsTime, LockKeepsTime,
       ConsumeKeepsTime, MarkKeepsTime DEF Step
  <2>2. ASSUME NEW h \in Handlers, Arrive(h) PROVE Timely'
    <3>1. PICK d \in Devices, s \in SessionIds:
             Session(h, d, s) \/ DevSession(h, d, s) \/ Commit(h, d, s)
      BY <2>2 DEF Arrive
    <3>2. UNCHANGED <<reserve, commitlock, kind, charges>> /\ req[h].pc = "idle"
      BY <3>1 DEF Session, DevSession, Commit, At, redis
    <3>3. /\ \A g \in Handlers \ {h}: req'[g] = req[g]
          /\ req'[h].pc \in {"reserveFree", "sign", "lookup", "idle"}
      BY <2>2, ArriveMoves DEF TInv
    <3> QED
      BY <1>3, <3>2, <3>3, QuietKeeps DEF AgesGoOn
  <2>3. ASSUME NEW d \in Devices, Credit(d) \/ DailyReset(d) PROVE Timely'
    <3>1. UNCHANGED <<reserve, commitlock, req, kind, charges>>
      BY <2>3 DEF Credit, DailyReset, redis
    <3> QED
      BY <1>3, <3>1, QuietKeeps DEF AgesGoOn
  <2>4. ~Crash /\ ~RedisRestart
    BY DEF Harmless, Crash, RedisRestart
  <2> QED
    BY <1>3, <2>1, <2>2, <2>3, <2>4 DEF Untimed
<1> QED
  BY <1>1, <1>2, <1>3 DEF TimelyNext, AgesGoOn

LEMMA TimelyInvariance == ASSUME Harmless PROVE TimelySpec => []TInv
<1>1. TInv /\ [TimelyNext]_timely => TInv'
  BY TimelyKeeps, TimelySteps, NextInv DEF TInv, timely
<1> QED
  BY <1>1, InitTimely, PTL DEF TimelySpec
-----------------------------------------------------------------------------
(* What a 200 of a paid commit is worth, whatever fails *)

\* Whose session was charged, is being charged, or had its lock taken for nothing.
Accounted(s) ==
    \/ charges[s] >= 1
    \/ \E g \in Handlers: At(g, "consume") /\ req[g].sid = s
    \/ s \in abandoned

Accounts ==
    /\ \A s \in SessionIds: commitlock[s] > 0 => Accounted(s)
    /\ PaidOkAccounted

AInv == IInv /\ Accounts

\* The second part of a step that takes no time.
AbandonedGoOn ==
    abandoned' = abandoned \cup {req[h].sid: h \in {g \in Handlers: LockUnheard(g) \/ GivesUp(g)}}

\* No step makes an accounted session unaccounted: a holder that leaves without a
\* charge has given up.
LEMMA AccountedStays ==
    ASSUME AInv, [TimelyNext]_timely, NEW s \in SessionIds, Accounted(s)
    PROVE  Accounted(s)'
<1> USE DEF AInv
<1>1. charges \in [SessionIds -> Nat]
  BY DEF IInv, TypeOK
<1>2. CASE TimelyTick \/ UNCHANGED timely
  BY <1>2 DEF TimelyTick, Tick, timely, vars, history, Accounted, At
<1>3. CASE Untimed /\ AbandonedGoOn
  <2>1. abandoned \subseteq abandoned'
    BY <1>3 DEF AbandonedGoOn
  <2>2. \A t \in SessionIds: charges'[t] = charges[t] \/ charges'[t] = charges[t] + 1
    <3>1. ASSUME NEW h \in Handlers, Step(h) PROVE Charge(h) \/ charges' = charges
      BY <3>1 DEF Step, ReserveFree, ReadPaid, ReservePaid, SignToken, Lookup, CommitFree, ReadUsed,
                  Lock, Consume, Mark, CallFails, Plant, history
    <3>2. ASSUME NEW h \in Handlers, Charge(h)
          PROVE \A t \in SessionIds: charges'[t] \in {charges[t], charges[t] + 1}
      BY <1>1, <3>2 DEF Charge
    <3>3. ASSUME NEW h \in Handlers, Arrive(h) PROVE charges' = charges
      BY <3>3, ArriveMoves
    <3> QED
      BY <1>3, <3>1, <3>2, <3>3 DEF Untimed, Credit, DailyReset, Crash, RedisRestart
  <2>3. ASSUME NEW g \in Handlers, At(g, "consume"), req[g].sid = s PROVE Accounted(s)'
    <3>1. CASE charges'[s] = charges[s] /\ req'[g].pc = "idle"
      BY <1>3, <2>3, <3>1 DEF AbandonedGoOn, GivesUp, Accounted
    <3>2. CASE req'[g].pc # "idle" /\ charges'[s] = charges[s]
      <4>1. ASSUME NEW h \in Handlers, Step(h), h # g PROVE req'[g] = req[g]
        BY <4>1, StepMoves
      <4>2. ASSUME Step(g) PROVE req'[g].pc = "consume" /\ req'[g].sid = s
        <5>1. Consume(g) \/ CallFails(g)
          BY <2>3, <4>2 DEF Step, ReserveFree, ReadPaid, ReservePaid, SignToken, Lookup, CommitFree,
             ReadUsed, Lock, Mark, At
        <5>2. ~HasBalance(req[g].dev) \/ CallFails(g)
          BY <1>1, <2>3, <3>2, <5>1 DEF Consume, Charge
        <5>3. Reply(g, Answer(g, 409)) \/ req' = [req EXCEPT ![g] = AnswerError(g)]
          BY <5>1, <5>2 DEF Consume, NoBalance, CallFails
        <5>4. req'[g].pc \in {"idle", "consume"}
          <6>1. TypeOK /\ req[g].pc = "consume" /\ AnswerError(g).pc = "idle"
            BY <2>3, AnswerShape DEF AnswerError, At, IInv
          <6>2. CASE Reply(g, Answer(g, 409))
            BY <6>1, <6>2, AnswersTyped, AnswerShape, ReplyMoves
          <6>3. CASE req' = [req EXCEPT ![g] = AnswerError(g)]
            BY <6>1, <6>3 DEF TypeOK
          <6> QED
            BY <5>3, <6>2, <6>3
        <5> QED
          BY <2>3, <3>2, <4>2, <5>4, StepMoves
      <4>3. ASSUME NEW h \in Handlers, Arrive(h) PROVE req'[g] = req[g]
        <5>1. req[h].pc = "idle"
          BY <4>3 DEF Arrive, Session, DevSession, Commit, At
        <5> QED
          BY <2>3, <4>3, <5>1, ArriveMoves DEF At
      <4>4. ASSUME Crash PROVE FALSE
        BY <3>2, <4>4 DEF Crash, NoRequest
      <4>5. ASSUME RedisRestart \/ \E d \in Devices: Credit(d) \/ DailyReset(d) PROVE req' = req
        BY <4>5 DEF RedisRestart, Credit, DailyReset
      <4>6. req'[g].pc = "consume" /\ req'[g].sid = s
        BY <1>3, <2>3, <4>1, <4>2, <4>3, <4>4, <4>5 DEF Untimed, At
      <4> QED
        BY <4>6 DEF Accounted, At
    <3>3. CASE charges'[s] # charges[s]
      BY <1>1, <2>2, <3>3 DEF Accounted
    <3> QED
      BY <3>1, <3>2, <3>3
  <2> QED
    BY <1>1, <2>1, <2>2, <2>3 DEF Accounted
<1> QED
  BY <1>2, <1>3 DEF TimelyNext, AbandonedGoOn

\* A 200 to a commit of a paid session has seen a charge or a busy lock.
LEMMA OkHasSeen ==
    ASSUME IInv, NEW h \in Handlers, Step(h), kind[req[h].sid] = "paid",
           req'[h].pc = "idle", req'[h].op = "commit", req'[h].resp = 200
    PROVE  charges[req[h].sid] >= 1 \/ commitlock[req[h].sid] > 0
<1>1. /\ req[h].pc # "idle" /\ req[h] \in Request /\ HandlerOK(h) /\ req[h].sid \in SessionIds
      /\ SessionOK(req[h].sid) /\ TypeOK
  BY StepMoves, Busy DEF IInv
<1>2. /\ \A code \in Nat: /\ Answer(h, code) \in Request /\ Answer(h, code).op = req[h].op
                          /\ Answer(h, code).resp = code
      /\ \A step \in Steps: Goto(h, step) \in Request /\ Goto(h, step).pc = step
      /\ AnswerError(h).op = req[h].op
  BY <1>1, AnswersTyped, AnswerShape DEF AnswerError
<1>3. \A next \in Request: Reply(h, next) => req'[h] \in {next, AnswerError(h), req[h]}
  <2>1. ASSUME NEW next \in Request, Reply(h, next) PROVE req'[h] \in {next, AnswerError(h), req[h]}
    <3>1. PICK r \in Request: req' = [req EXCEPT ![h] = r] /\ r \in {next, AnswerError(h), req[h]}
      BY <1>1, <2>1, ReplyShape
    <3> QED
      BY <1>1, <3>1 DEF TypeOK
  <2> QED
    BY <2>1
<1>4. req'[h] = AnswerError(h) => At(h, "mark")
  BY <1>2 DEF AnswerError
<1>5. req'[h] # req[h]
  BY <1>1
<1>6. At(h, "mark") \/ At(h, "readUsed") => charges[req[h].sid] >= 1
  BY <1>1 DEF HandlerOK, At
<1>7. CASE CallFails(h)
  <2>1. req'[h] = AnswerError(h)
    BY <1>1, <1>7 DEF CallFails, TypeOK
  <2> QED
    BY <1>4, <1>6, <2>1
<1>8. CASE ReserveFree(h) \/ ReadPaid(h) \/ ReservePaid(h) \/ SignToken(h)
  <2>1. req[h].op = "session"
    BY <1>1, <1>8 DEF ReserveFree, ReadPaid, ReservePaid, SignToken, At, HandlerOK
  <2>2. \E next \in Request: next.op \in {"session"} /\ Reply(h, next)
    <3>1. \/ \E code \in {200, 403, 503}: Reply(h, Answer(h, code))
          \/ \E step \in {"readPaid", "reservePaid", "sign"}: Reply(h, Goto(h, step))
      BY <1>8 DEF ReserveFree, ReadPaid, ReservePaid, SignToken, Reply
    <3>2. \A step \in Steps: Goto(h, step).op = req[h].op
      BY <1>1, AnswerShape
    <3> QED
      BY <1>2, <2>1, <3>1, <3>2
  <2> QED
    BY <1>2, <1>3, <2>1, <2>2
<1>9. CASE Lookup(h)
  <2>1. Routed(h) \in Request /\ (Routed(h).pc = "idle" /\ Routed(h).resp = 200
        => Holds(h, "committed-free") \/ Holds(h, "committed-paid"))
    BY <1>2, AnswerShape DEF Routed, IInv
  <2>2. Holds(h, "committed-free") \/ Holds(h, "committed-paid") => charges[req[h].sid] >= 1
    BY <1>1 DEF Holds, SessionOK
  <2> QED
    BY <1>3, <1>4, <1>5, <1>6, <1>9, <2>1, <2>2 DEF Lookup
<1>10. CASE CommitFree(h)
  <2>1. ~Claimable(h)
    BY <1>1 DEF Claimable, Holds, SessionOK
  <2>2. Reply(h, Goto(h, "readUsed")) \/ Reply(h, Answer(h, 410))
    BY <1>10, <2>1 DEF CommitFree
  <2> QED
    BY <1>2, <1>3, <1>4, <1>5, <1>6, <2>2
<1>11. CASE Lock(h)
  <2>1. Reply(h, Goto(h, "consume")) \/ ~LockFree(req[h].sid)
    BY <1>11 DEF Lock
  <2>2. ~LockFree(req[h].sid) => commitlock[req[h].sid] > 0
    BY <1>1 DEF LockFree, TypeOK
  <2> QED
    BY <1>2, <1>3, <1>4, <1>5, <1>6, <2>1, <2>2
<1>12. CASE Consume(h)
  <2>1. Reply(h, Goto(h, "mark")) \/ Reply(h, Answer(h, 409))
    BY <1>12 DEF Consume, NoBalance
  <2> QED
    BY <1>2, <1>3, <1>4, <1>5, <1>6, <2>1
<1>13. CASE ReadUsed(h) \/ Mark(h)
  BY <1>6, <1>13 DEF ReadUsed, Mark
<1> QED
  BY <1>7, <1>8, <1>9, <1>10, <1>11, <1>12, <1>13 DEF Step

\* A session that a client has keeps the allowance it drew on.
LEMMA KindStays ==
    ASSUME IInv, [Next]_vars, NEW s \in issued'
    PROVE  kind'[s] = kind[s]
<1>1. ASSUME NEW h \in Handlers, Step(h) PROVE kind'[s] = kind[s]
  <2>1. CASE s = req[h].sid /\ req[h].pc \in SessionSteps \ {"sign"}
    <3>1. s \notin issued
      BY <1>1, <2>1, StepMoves, Busy DEF HandlerOK
    <3>2. issued' = issued
      BY <1>1, <2>1 DEF Step, ReserveFree, ReadPaid, ReservePaid, SignToken, Lookup, CommitFree,
         ReadUsed, Lock, Consume, Mark, CallFails, Plant, history, At
    <3> QED
      BY <3>1, <3>2
  <2>2. CASE req[h].pc \in CommitSteps \cup {"sign"}
    BY <1>1, <2>2 DEF Step, ReserveFree, ReadPaid, ReservePaid, SignToken, Lookup, CommitFree,
       ReadUsed, Lock, Consume, Mark, CallFails, history, At
  <2>3. s \in SessionIds /\ req[h].pc \in Steps
    <3>1. req[h].sid \in SessionIds /\ issued \subseteq SessionIds /\ req[h].pc \in Steps
      BY <1>1, StepMoves, Busy DEF IInv, TypeOK, Request
    <3>2. issued' \subseteq issued \cup {req[h].sid}
      BY <1>1 DEF Step, ReserveFree, ReadPaid, ReservePaid, SignToken, Lookup, CommitFree,
         ReadUsed, Lock, Consume, Mark, CallFails, Plant, history
    <3> QED
      BY <3>1, <3>2
  <2> QED
    BY <1>1, <2>1, <2>2, <2>3, StepMoves
<1> QED
  BY <1>1, ArriveMoves
     DEF Next, Untimed, Tick, Credit, DailyReset, Crash, RedisRestart, vars, history

LEMMA AccountsKeep ==
    ASSUME AInv, [TimelyNext]_timely
    PROVE  Accounts'
<1> USE DEF AInv, Accounts
<1>1. commitlock \in [SessionIds -> 0..CommitLockTTL] /\ charges \in [SessionIds -> Nat]
  BY DEF IInv, TypeOK
<1>2. ASSUME NEW s \in SessionIds, commitlock'[s] > 0, ~(commitlock[s] > 0) PROVE Accounted(s)'
  <2>1. CASE TimelyTick \/ UNCHANGED timely
    BY <1>1, <1>2, <2>1 DEF TimelyTick, Tick, LockFree, timely, vars, redis
  <2>2. CASE Untimed /\ AbandonedGoOn
    <3>1. PICK h \in Handlers: Lock(h)
      <4>1. ASSUME NEW h \in Handlers, Step(h) PROVE Lock(h) \/ commitlock' = commitlock
        BY <4>1 DEF Step, ReserveFree, ReadPaid, ReservePaid, SignToken, Lookup, CommitFree, ReadUsed,
                    Consume, Mark, CallFails, Plant, redis
      <4>2. ASSUME NEW h \in Handlers, Arrive(h) PROVE commitlock' = commitlock
        BY <4>2 DEF Arrive, Session, DevSession, Commit, redis
      <4>3. ASSUME Crash \/ RedisRestart \/ \E d \in Devices: Credit(d) \/ DailyReset(d)
            PROVE  commitlock' = commitlock \/ commitlock'[s] = 0
        BY <4>3 DEF Crash, RedisRestart, Credit, DailyReset, redis
      <4> QED
        BY <1>2, <2>2, <4>1, <4>2, <4>3 DEF Untimed
    <3>2. /\ req[h].sid = s /\ At(h, "lock") /\ commitlock'[s] > commitlock[s]
          /\ req'[h].sid = s
      <4>1. Step(h) /\ commitlock' # commitlock
        BY <1>2, <3>1 DEF Step
      <4>2. commitlock' = [commitlock EXCEPT ![req[h].sid] = CommitLockTTL]
        BY <3>1, <4>1 DEF Lock, redis
      <4> QED
        BY <1>1, <1>2, <3>1, <4>1, <4>2, StepMoves DEF Lock
    <3>3. CASE req'[h].pc = "consume"
      BY <3>2, <3>3 DEF Accounted, At
    <3>4. CASE req'[h].pc # "consume"
      BY <2>2, <3>2, <3>4 DEF Accounted, AbandonedGoOn, LockUnheard
    <3> QED
      BY <3>3, <3>4
  <2> QED
    BY <2>1, <2>2 DEF TimelyNext, AbandonedGoOn
<1>3. ASSUME NEW h \in Handlers, req'[h].pc = "idle", req'[h].op = "commit", req'[h].resp = 200,
             req'[h].dev \notin DevAllowlist, kind'[req'[h].sid] = "paid",
             NEW s \in SessionIds, s = req'[h].sid
      PROVE  Accounted(s)'
  <2>1. IInv' /\ [Next]_vars
    BY NextInv, TimelySteps DEF timely
  <2>2. s \in issued'
    BY <1>3, <2>1 DEF IInv, Known, Handling, HandlerOK
  <2>3. kind[s] = "paid"
    BY <1>3, <2>1, <2>2, KindStays
  <2>4. CASE req'[h] = req[h]
    <3>1. Accounted(s)
      BY <1>3, <2>3, <2>4 DEF PaidOkAccounted, Accounted, At
    <3> QED
      BY <3>1, AccountedStays
  <2>5. CASE Step(h)
    <3>1. req'[h].sid = req[h].sid
      BY <2>5, StepMoves
    <3>2. charges[s] >= 1 \/ commitlock[s] > 0
      BY <1>3, <2>3, <2>5, <3>1, OkHasSeen
    <3>3. Accounted(s)
      BY <3>2 DEF Accounted
    <3> QED
      BY <3>3, AccountedStays
  <2>6. ~Arrive(h) /\ ~Crash
    <3>1. req \in [Handlers -> Request]
      BY DEF IInv, TypeOK
    <3> QED
      BY <1>3, <3>1 DEF Arrive, Session, DevSession, Commit, Crash, NoRequest
  <2>7. ASSUME NEW g \in Handlers, g # h, Step(g) \/ Arrive(g) PROVE req'[h] = req[h]
    BY <2>7, StepMoves, ArriveMoves
  <2>8. ASSUME \/ TimelyTick \/ UNCHANGED timely \/ RedisRestart
               \/ \E d \in Devices: Credit(d) \/ DailyReset(d)
        PROVE  req'[h] = req[h]
    BY <2>8 DEF TimelyTick, Tick, timely, vars, RedisRestart, Credit, DailyReset
  <2> QED
    BY <2>4, <2>5, <2>6, <2>7, <2>8 DEF TimelyNext, Untimed
<1>4. PaidOkAccounted'
  <2>1. \A h \in Handlers: req'[h].op = "commit" => req'[h].sid \in SessionIds
    BY NextInv, TimelySteps DEF timely, IInv, TypeOK, Known, Handling, HandlerOK
  <2> QED
    BY <1>3, <2>1 DEF PaidOkAccounted, Accounted, At
<1> QED
  BY <1>2, <1>4, AccountedStays

LEMMA AccountsInvariance == TimelySpec => []AInv
<1>1. TimelyInit => AInv
  BY InitInv DEF TimelyInit, AInv, Accounts, PaidOkAccounted, Init, NoRequest
<1>2. AInv /\ [TimelyNext]_timely => AInv'
  BY AccountsKeep, TimelySteps, NextInv DEF AInv, timely
<1> QED
  BY <1>1, <1>2, PTL DEF TimelySpec
-----------------------------------------------------------------------------
(* Theorems *)

\* With timely handlers and harmless faults a paid session is charged at most once,
\* by any number of commits that run at once or are retried (the commit lock of
\* session_commit.go, which is never released).
THEOREM PaidChargedOnce == ASSUME Harmless PROVE TimelySpec => []PaidChargedAtMostOnce
<1>1. TInv => PaidChargedAtMostOnce
  BY DEF TInv, Timely, FirstCharge
<1> QED
  BY <1>1, TimelyInvariance, PTL

\* The lock of a paid commit excludes: it does not expire under its holder.
THEOREM LockExcludes == ASSUME Harmless PROVE TimelySpec => []CommitExclusive
<1>1. TInv => CommitExclusive
  BY DEF TInv, Timely
<1> QED
  BY <1>1, TimelyInvariance, PTL

\* Whoever read a paid reservation before its sentinel was written finds the lock
\* taken (the lookup of session_commit.go is not repeated under the lock).
THEOREM StaleReadHarmless == ASSUME Harmless PROVE TimelySpec => []StaleReadIsHarmless
<1>1. TInv => StaleReadIsHarmless
  BY Busy DEF TInv, Timely, Outlasted, Ages, StaleReadIsHarmless, LockFree, At, IInv, TypeOK
<1> QED
  BY <1>1, TimelyInvariance, PTL

\* A commit of a paid session that was answered with 200 is accounted for, whatever
\* calls fail, are lost or re-sent: the session was charged, is about to be, or its
\* lock was taken for nothing (the busy branch of session_commit.go answers on trust).
THEOREM PaidOkIsAccounted == TimelySpec => []PaidOkAccounted
<1>1. AInv => PaidOkAccounted
  BY DEF AInv, Accounts
<1> QED
  BY <1>1, AccountsInvariance, PTL

\* Timely handlers are handlers: what Sessions keeps without a clock for its commits it
\* keeps with one, that it implements the ledger included.
THEOREM TimelyKeepsLedger ==
    TimelySpec => /\ ImplementsLedger
                  /\ [](FreeChargedAtMostOnce /\ FreeOkMeansCharged)
                  /\ [](CommittedMeansCharged /\ PaidConserved)
<1>1. TimelyInit => Init
  BY DEF TimelyInit
<1>2. [TimelyNext]_timely => [Next]_vars
  BY TimelySteps DEF timely
<1> QED
  BY <1>1, <1>2, LedgerKept, FreeChargedOnce, FreeOkIsCharged, SentinelIsCharged,
     PaidIsConserved, PTL DEF TimelySpec, Spec
=============================================================================
