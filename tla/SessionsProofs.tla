--------------------------- MODULE SessionsProofs ---------------------------
(***************************************************************************)
(* Proofs about Sessions and SessionsLedger, for every number of devices,  *)
(* sessions and handlers, every limit and time to live, and every set of   *)
(* faults.                                                                 *)
(***************************************************************************)
EXTENDS SessionsLedger, SumsProofs

USE QuotaAssumption, TTLAssumption, DeviceAssumption, SessionAssumption, FaultAssumption,
    RestartAssumption

\* What a handler knows about the session it is working on.
HandlerOK(h) ==
    /\ req[h].pc \in SessionSteps => /\ req[h].op = "session"
                                     /\ req[h].dev \in Devices
                                     /\ req[h].sid \in SessionIds \ issued
                                     /\ owner[req[h].sid] # NoDevice
    /\ req[h].pc \in CommitSteps => req[h].op = "commit" /\ req[h].dev \in Devices
    /\ req[h].op = "commit" => req[h].sid \in issued
    /\ req[h].pc \in {"lock", "consume", "mark"} => kind[req[h].sid] = "paid"
    /\ req[h].pc \in {"readUsed", "mark"} => charges[req[h].sid] >= 1

\* How the key of a session, its allowance and its charges fit together.
SessionOK(s) ==
    /\ owner[s] = NoDevice => s \notin issued
    /\ s \notin issued => charges[s] = 0
    /\ reserve[s].type = "none" <=> reserve[s].ttl = 0
    /\ reserve[s].type # "none" => reserve[s].dev \in Devices
    /\ reserve[s].type \in {"free", "committed-free"} => kind[s] = "free"
    /\ reserve[s].type \in {"paid", "committed-paid"} => kind[s] = "paid"
    /\ reserve[s].type = "free" => charges[s] = 0
    /\ reserve[s].type \in {"committed-free", "committed-paid"} => charges[s] >= 1
    /\ kind[s] = "free" => charges[s] <= 1

\* A session id belongs to one /session request.
OneDrawer ==
    \A g, h \in Handlers:
        (req[g].pc \in SessionSteps /\ req[h].pc \in SessionSteps /\ req[g].sid = req[h].sid)
        => g = h

\* The time a free reservation has left and the time its device has been at the
\* limit add up to at most one reservation lifetime.
Window ==
    /\ \A d \in Devices: daily[d] < FreeBumpsPerDay => fullFor[d] = 0
    /\ \A s \in SessionIds:
          reserve[s].type = "free" => reserve[s].ttl + fullFor[reserve[s].dev] <= ReservationTTL

Handling == \A h \in Handlers: HandlerOK(h)
Keeping == \A s \in SessionIds: SessionOK(s)

Known == Handling /\ Keeping /\ OneDrawer /\ Window /\ FreeOkMeansCharged

IInv == TypeOK /\ Known
-----------------------------------------------------------------------------
(* Lemmas about the replies *)

\* A handler's answers are requests, whatever its code.
LEMMA AnswersTyped ==
    ASSUME TypeOK, NEW h \in Handlers
    PROVE  /\ \A code \in Nat: Answer(h, code) \in Request
           /\ \A step \in Steps: Goto(h, step) \in Request
           /\ AnswerError(h) \in Request
           /\ NoBalance(h) \in Request
<1>1. req[h] \in Request
  BY DEF TypeOK
<1>2. ASSUME NEW code \in Nat PROVE Answer(h, code) \in Request
  BY <1>1 DEF Answer, Request
<1>3. ASSUME NEW step \in Steps PROVE Goto(h, step) \in Request
  BY <1>1 DEF Goto, Request
<1>4. AnswerError(h) \in Request
  BY <1>2 DEF AnswerError
<1>5. NoBalance(h) \in Request
  BY <1>2 DEF NoBalance
<1> QED
  BY <1>2, <1>3, <1>4, <1>5

\* A reply changes the request of its handler only, and to one of three records.
LEMMA ReplyShape ==
    ASSUME TypeOK, NEW h \in Handlers, NEW next \in Request, Reply(h, next)
    PROVE  \E r \in Request: /\ req' = [req EXCEPT ![h] = r]
                             /\ r \in {next, AnswerError(h), req[h]}
<1>1. AnswerError(h) \in Request /\ req[h] \in Request
  BY AnswersTyped DEF TypeOK
<1>2. req = [req EXCEPT ![h] = req[h]]
  BY DEF TypeOK
<1> QED
  BY <1>1, <1>2 DEF Reply
-----------------------------------------------------------------------------
(* Type correctness *)

LEMMA InitType == Init => TypeOK
  BY DEF Init, TypeOK, NoReservation, NoRequest, Reservation, Request,
         ReservationTypes, Steps

\* A reservation planted, a sentinel written and a charge made are typed.
LEMMA WritesTyped ==
    ASSUME TypeOK, Handling, NEW h \in Handlers, req[h].pc # "idle"
    PROVE  /\ req[h].dev \in Devices /\ req[h].sid \in SessionIds
           /\ \A type \in {"free", "paid"}:
                 Plant(h, type) => /\ reserve' \in [SessionIds -> Reservation]
                                   /\ kind' \in [SessionIds -> {"none", "free", "paid"}]
           /\ \A type \in {"committed-free", "committed-paid"}:
                 Sentinel(h, type) => reserve' \in [SessionIds -> Reservation]
           /\ Charge(h) => /\ charges' \in [SessionIds -> Nat]
                           /\ billed' \subseteq Handlers
<1>1. req[h].dev \in Devices /\ req[h].sid \in SessionIds
  BY DEF TypeOK, Handling, HandlerOK, Steps, SessionSteps, CommitSteps, Request
<1>2. ASSUME NEW type \in {"free", "paid"}, Plant(h, type)
      PROVE  /\ reserve' \in [SessionIds -> Reservation]
             /\ kind' \in [SessionIds -> {"none", "free", "paid"}]
  BY <1>1, <1>2 DEF TypeOK, Plant, Reservation, ReservationTypes
<1>3. ASSUME NEW type \in {"committed-free", "committed-paid"}, Sentinel(h, type)
      PROVE  reserve' \in [SessionIds -> Reservation]
  BY <1>1, <1>3 DEF TypeOK, Sentinel, Reservation, ReservationTypes
<1>4. ASSUME Charge(h)
      PROVE  charges' \in [SessionIds -> Nat] /\ billed' \subseteq Handlers
  BY <1>1, <1>4 DEF TypeOK, Charge
<1> QED
  BY <1>1, <1>2, <1>3, <1>4

LEMMA NextType == TypeOK /\ Handling /\ [Next]_vars => TypeOK'
<1> SUFFICES ASSUME TypeOK, Handling, [Next]_vars PROVE TypeOK'
  OBVIOUS
<1> USE DEF SessionSteps, CommitSteps, Steps
<1>1. ASSUME NEW h \in Handlers, Step(h) PROVE TypeOK'
  <2>1. CASE ReserveFree(h)
    <3>1. Goto(h, "readPaid") \in Request /\ Goto(h, "sign") \in Request /\ Answer(h, 503) \in Request
      BY AnswersTyped
    <3>2. req' \in [Handlers -> Request]
      BY <2>1, <3>1, ReplyShape DEF ReserveFree, TypeOK
    <3>3. Plant(h, "free") => /\ reserve' \in [SessionIds -> Reservation]
                              /\ kind' \in [SessionIds -> {"none", "free", "paid"}]
      BY <2>1, WritesTyped DEF ReserveFree, At
    <3> QED
      BY <2>1, <3>2, <3>3 DEF ReserveFree, TypeOK, Plant, redis, history
  <2>2. CASE ReadPaid(h)
    <3>1. Goto(h, "reservePaid") \in Request /\ Answer(h, 403) \in Request
      BY AnswersTyped
    <3>2. req' \in [Handlers -> Request]
      BY <2>2, <3>1, ReplyShape DEF ReadPaid, TypeOK
    <3> QED
      BY <2>2, <3>2 DEF ReadPaid, TypeOK, redis, history
  <2>3. CASE ReservePaid(h)
    <3>1. Goto(h, "sign") \in Request /\ Answer(h, 503) \in Request
      BY AnswersTyped
    <3>2. req' \in [Handlers -> Request]
      BY <2>3, <3>1, ReplyShape DEF ReservePaid, TypeOK
    <3>3. Plant(h, "paid") => /\ reserve' \in [SessionIds -> Reservation]
                              /\ kind' \in [SessionIds -> {"none", "free", "paid"}]
      BY <2>3, WritesTyped DEF ReservePaid, At
    <3> QED
      BY <2>3, <3>2, <3>3 DEF ReservePaid, TypeOK, Plant, redis, history
  <2>4. CASE SignToken(h)
    <3>1. req[h].sid \in SessionIds /\ Answer(h, 200) \in Request
      BY <2>4, AnswersTyped, WritesTyped DEF SignToken, At
    <3> QED
      BY <2>4, <3>1 DEF SignToken, TypeOK, redis
  <2>5. CASE Lookup(h)
    <3>1. Routed(h) \in Request
      BY AnswersTyped DEF Routed, TypeOK
    <3>2. req' \in [Handlers -> Request]
      BY <2>5, <3>1, ReplyShape DEF Lookup, TypeOK
    <3> QED
      BY <2>5, <3>2 DEF Lookup, TypeOK, redis, history
  <2>6. CASE CommitFree(h)
    <3>1. Goto(h, "readUsed") \in Request /\ Answer(h, 200) \in Request /\ Answer(h, 410) \in Request
      BY AnswersTyped
    <3>2. req' \in [Handlers -> Request]
      BY <2>6, <3>1, ReplyShape DEF CommitFree, TypeOK
    <3>3. /\ req[h].dev \in Devices
          /\ Sentinel(h, "committed-free") => reserve' \in [SessionIds -> Reservation]
          /\ Charge(h) => charges' \in [SessionIds -> Nat] /\ billed' \subseteq Handlers
      BY <2>6, WritesTyped DEF CommitFree, At
    <3> QED
      BY <2>6, <3>2, <3>3 DEF CommitFree, TypeOK, redis, history
  <2>7. CASE ReadUsed(h)
    <3>1. req' \in [Handlers -> Request]
      BY <2>7, AnswersTyped, ReplyShape DEF ReadUsed, TypeOK
    <3> QED
      BY <2>7, <3>1 DEF ReadUsed, TypeOK, redis, history
  <2>8. CASE Lock(h)
    <3>1. Goto(h, "consume") \in Request /\ Answer(h, 200) \in Request
      BY AnswersTyped
    <3>2. req' \in [Handlers -> Request]
      BY <2>8, <3>1, ReplyShape DEF Lock, TypeOK
    <3> QED
      BY <2>8, <3>2 DEF Lock, TypeOK, redis, history
  <2>9. CASE Consume(h)
    <3>1. Goto(h, "mark") \in Request /\ NoBalance(h) \in Request
      BY AnswersTyped
    <3>2. req' \in [Handlers -> Request]
      BY <2>9, <3>1, ReplyShape DEF Consume, TypeOK
    <3>3. /\ req[h].dev \in Devices
          /\ Charge(h) => charges' \in [SessionIds -> Nat] /\ billed' \subseteq Handlers
      BY <2>9, WritesTyped DEF Consume, At
    <3> QED
      BY <2>9, <3>2, <3>3 DEF Consume, HasBalance, TypeOK, redis, history
  <2>10. CASE Mark(h)
    <3>0. Answer(h, 200) \in Request
      BY AnswersTyped
    <3>1. req' \in [Handlers -> Request]
      BY <2>10, <3>0, AnswersTyped, ReplyShape DEF Mark, TypeOK
    <3>2. Sentinel(h, "committed-paid") => reserve' \in [SessionIds -> Reservation]
      BY <2>10, WritesTyped DEF Mark, At
    <3> QED
      BY <2>10, <3>1, <3>2 DEF Mark, TypeOK, history
  <2>11. CASE CallFails(h)
    BY <2>11, AnswersTyped DEF CallFails, TypeOK, redis, history
  <2> QED
    BY <1>1, <2>1, <2>2, <2>3, <2>4, <2>5, <2>6, <2>7, <2>8, <2>9, <2>10, <2>11 DEF Step
<1>2. ASSUME NEW h \in Handlers, Arrive(h) PROVE TypeOK'
  <2>1. PICK d \in Devices, s \in SessionIds: Session(h, d, s) \/ DevSession(h, d, s) \/ Commit(h, d, s)
    BY <1>2 DEF Arrive
  <2> QED
    BY <2>1 DEF Session, DevSession, Commit, TypeOK, Request, redis
<1>3. ASSUME NEW d \in Devices, Credit(d) \/ DailyReset(d) PROVE TypeOK'
  BY <1>3 DEF Credit, DailyReset, TypeOK, redis
<1>4. CASE Crash
  BY <1>4 DEF Crash, TypeOK, NoRequest, Request, redis
<1>5. CASE Tick
  <2>1. NoReservation \in Reservation
    BY DEF NoReservation, Reservation, ReservationTypes
  <2>2. \A r \in Reservation: r.ttl > 1 => [r EXCEPT !.ttl = @ - 1] \in Reservation
    BY DEF Reservation
  <2>3. \A s \in SessionIds: Aged(reserve[s]) \in Reservation
    BY <2>1, <2>2 DEF TypeOK, Aged
  <2> QED
    BY <1>5, <2>3 DEF Tick, TypeOK, LockFree
<1>6. CASE RedisRestart
  BY <1>6 DEF RedisRestart, TypeOK, NoReservation, Reservation, ReservationTypes
<1>7. CASE UNCHANGED vars
  BY <1>7 DEF vars, redis, history, TypeOK
<1> QED
  BY <1>1, <1>2, <1>3, <1>4, <1>5, <1>6, <1>7 DEF Next, Untimed

-----------------------------------------------------------------------------
(* The inductive invariant *)

\* The steps of a handler, one lemma each: they keep what the other handlers
\* and the sessions know.
LEMMA RequestFrame ==
    ASSUME TypeOK, Handling, NEW h \in Handlers, NEW r \in Request,
           req' = [req EXCEPT ![h] = r]
    PROVE  req'[h] = r /\ \A g \in Handlers \ {h}: req'[g] = req[g]
  BY DEF TypeOK

\* A step of a handler that issues no session, keeps the allowance of those
\* issued and takes back no charge keeps the knowledge of every handler, if the
\* one that moves knows what its new request claims.
LEMMA StepKeepsHandling ==
    ASSUME TypeOK, Handling, OneDrawer, FreeOkMeansCharged, NEW h \in Handlers, NEW r \in Request,
           req' = [req EXCEPT ![h] = r],
           r.sid = req[h].sid, r.dev = req[h].dev, r.op = req[h].op,
           UNCHANGED <<owner, issued>>,
           \A s \in issued: kind'[s] = kind[s] /\ charges'[s] >= charges[s],
           charges' \in [SessionIds -> Nat],
           r.pc \in SessionSteps => req[h].pc \in SessionSteps,
           r.pc \in CommitSteps => req[h].pc \in CommitSteps,
           r.pc \in {"lock", "consume", "mark"} => kind'[r.sid] = "paid",
           r.pc \in {"readUsed", "mark"} => charges'[r.sid] >= 1,
           (r.pc = "idle" /\ r.op = "commit" /\ r.resp = 200 /\ kind'[r.sid] = "free")
              => charges'[r.sid] >= 1
    PROVE  Handling' /\ OneDrawer' /\ FreeOkMeansCharged'
<1>1. req'[h] = r /\ \A g \in Handlers \ {h}: req'[g] = req[g]
  BY RequestFrame
<1>2. Handling'
  <2>1. HandlerOK(h)'
    BY <1>1 DEF Handling, HandlerOK, SessionSteps, CommitSteps, TypeOK
  <2>2. ASSUME NEW g \in Handlers \ {h} PROVE HandlerOK(g)'
    BY <1>1 DEF Handling, HandlerOK, SessionSteps, CommitSteps, TypeOK
  <2> QED
    BY <2>1, <2>2 DEF Handling
<1>3. OneDrawer'
  BY <1>1 DEF OneDrawer
<1>4. FreeOkMeansCharged'
  BY <1>1 DEF FreeOkMeansCharged, Handling, HandlerOK, At, TypeOK
<1> QED
  BY <1>2, <1>3, <1>4

\* The same for a step that ends in Reply: a lost reply and a call made once more
\* claim nothing that the handler did not know before.
LEMMA ReplyKeepsHandling ==
    ASSUME TypeOK, Handling, OneDrawer, FreeOkMeansCharged, NEW h \in Handlers,
           NEW next \in Request, Reply(h, next), req[h].pc # "idle",
           next.sid = req[h].sid, next.dev = req[h].dev, next.op = req[h].op,
           UNCHANGED <<owner, issued>>,
           \A s \in issued: kind'[s] = kind[s] /\ charges'[s] >= charges[s],
           charges' \in [SessionIds -> Nat],
           next.pc \in SessionSteps => req[h].pc \in SessionSteps,
           next.pc \in CommitSteps => req[h].pc \in CommitSteps,
           next.pc \in {"lock", "consume", "mark"} => kind'[next.sid] = "paid",
           next.pc \in {"readUsed", "mark"} => charges'[next.sid] >= 1,
           (next.pc = "idle" /\ next.op = "commit" /\ next.resp = 200 /\ kind'[next.sid] = "free")
              => charges'[next.sid] >= 1
    PROVE  Handling' /\ OneDrawer' /\ FreeOkMeansCharged'
<1>1. PICK r \in Request: req' = [req EXCEPT ![h] = r] /\ r \in {next, AnswerError(h), req[h]}
  BY ReplyShape
<1>2. HandlerOK(h) /\ req[h] \in Request
  BY DEF Handling, TypeOK
<1>3. CASE r = next
  BY <1>1, <1>3, StepKeepsHandling
<1>4. CASE r = AnswerError(h)
  <2>1. /\ r.sid = req[h].sid /\ r.dev = req[h].dev /\ r.op = req[h].op /\ r.pc = "idle"
        /\ r.resp = 200 => At(h, "mark")
    BY <1>2, <1>4 DEF AnswerError, Answer, Request
  <2>2. At(h, "mark") => kind'[r.sid] = "paid"
    BY <1>2, <2>1 DEF HandlerOK, At, CommitSteps, TypeOK
  <2> QED
    BY <1>1, <2>1, <2>2, StepKeepsHandling DEF SessionSteps, CommitSteps
<1>5. CASE r = req[h]
  <2>1. /\ r.pc \in {"lock", "consume", "mark"} => kind'[r.sid] = "paid"
        /\ r.pc \in {"readUsed", "mark"} => charges'[r.sid] >= 1
    BY <1>2, <1>5 DEF HandlerOK, CommitSteps, TypeOK
  <2> QED
    BY <1>1, <1>5, <2>1, StepKeepsHandling
<1> QED
  BY <1>1, <1>3, <1>4, <1>5

\* A step that only moves its handler on.
LEMMA QuietReply ==
    ASSUME IInv, NEW h \in Handlers, NEW next \in Request, Reply(h, next),
           req[h].pc # "idle", UNCHANGED <<redis, paid, history>>,
           next.sid = req[h].sid, next.dev = req[h].dev, next.op = req[h].op,
           next.pc \in SessionSteps => req[h].pc \in SessionSteps,
           next.pc \in CommitSteps => req[h].pc \in CommitSteps,
           next.pc \in {"lock", "consume", "mark"} => kind[next.sid] = "paid",
           next.pc \in {"readUsed", "mark"} => charges[next.sid] >= 1,
           (next.pc = "idle" /\ next.op = "commit" /\ next.resp = 200 /\ kind[next.sid] = "free")
              => charges[next.sid] >= 1
    PROVE  Known'
<1>1. UNCHANGED <<reserve, daily, owner, kind, issued, charges, fullFor>>
  BY DEF redis, history
<1>2. charges \in [SessionIds -> Nat] /\ issued \subseteq SessionIds
  BY DEF IInv, TypeOK
<1>3. Handling' /\ OneDrawer' /\ FreeOkMeansCharged'
  BY <1>1, <1>2, ReplyKeepsHandling DEF IInv, Known
<1>4. Keeping' /\ Window'
  BY <1>1 DEF IInv, Known, Keeping, SessionOK, Window
<1> QED
  BY <1>3, <1>4 DEF Known

\* Going on and answering keep whom the request is about.
LEMMA AnswerShape ==
    ASSUME TypeOK, NEW h \in Handlers
    PROVE  /\ \A code \in Nat:
                 /\ Answer(h, code).sid = req[h].sid /\ Answer(h, code).dev = req[h].dev
                 /\ Answer(h, code).op = req[h].op /\ Answer(h, code).pc = "idle"
                 /\ Answer(h, code).resp = code
           /\ \A step \in Steps:
                 /\ Goto(h, step).sid = req[h].sid /\ Goto(h, step).dev = req[h].dev
                 /\ Goto(h, step).op = req[h].op /\ Goto(h, step).pc = step
<1>1. req[h] \in Request
  BY DEF TypeOK
<1> QED
  BY <1>1 DEF Answer, Goto, Request

\* Planting a reservation of the type "free" or "paid" under a dead key of an
\* id that no client has: the session id is free for the taking.
LEMMA PlantKeeps ==
    ASSUME IInv, NEW h \in Handlers, NEW type \in {"free", "paid"},
           At(h, "reserveFree") \/ At(h, "reservePaid"),
           Plant(h, type), Reply(h, Goto(h, "sign")),
           type = "free" => HasRoom(req[h].dev)
    PROVE  Known'
<1> USE DEF SessionSteps, CommitSteps, Steps
<1>1. /\ req[h].pc # "idle" /\ req[h].pc \in SessionSteps
      /\ req[h].dev \in Devices /\ req[h].sid \in SessionIds \ issued /\ owner[req[h].sid] # NoDevice
      /\ charges[req[h].sid] = 0
  BY DEF IInv, Known, Handling, HandlerOK, Keeping, SessionOK, At
<1>2. /\ Goto(h, "sign") \in Request /\ Goto(h, "sign").sid = req[h].sid
      /\ Goto(h, "sign").dev = req[h].dev /\ Goto(h, "sign").op = req[h].op
      /\ Goto(h, "sign").pc = "sign"
  BY AnswersTyped, AnswerShape DEF IInv
<1>3. /\ UNCHANGED <<daily, owner, issued, charges, fullFor>>
      /\ \A s \in SessionIds \ {req[h].sid}: kind'[s] = kind[s] /\ reserve'[s] = reserve[s]
      /\ kind'[req[h].sid] = type
      /\ reserve'[req[h].sid] = [dev |-> req[h].dev, type |-> type, ttl |-> ReservationTTL]
  BY <1>1 DEF Plant, IInv, TypeOK
<1>4. Handling' /\ OneDrawer' /\ FreeOkMeansCharged'
  BY <1>1, <1>2, <1>3, ReplyKeepsHandling DEF IInv, Known, TypeOK
<1>5. Keeping'
  <2>1. ASSUME NEW s \in SessionIds \ {req[h].sid} PROVE SessionOK(s)'
    BY <1>3 DEF IInv, Known, Keeping, SessionOK
  <2>2. ASSUME NEW s \in SessionIds, s = req[h].sid PROVE SessionOK(s)'
    BY <1>1, <1>3, <2>2 DEF IInv, Known, Keeping, SessionOK
  <2> QED
    BY <2>1, <2>2 DEF Keeping
<1>6. Window'
  BY <1>1, <1>3 DEF IInv, Known, Window, HasRoom, TypeOK
<1> QED
  BY <1>4, <1>5, <1>6 DEF Known

\* The handlers of /session.
LEMMA SessionStepKeeps ==
    ASSUME IInv, NEW h \in Handlers,
           ReserveFree(h) \/ ReadPaid(h) \/ ReservePaid(h) \/ SignToken(h)
    PROVE  Known'
<1> USE DEF SessionSteps, CommitSteps, Steps
<1>1. HandlerOK(h) /\ req[h] \in Request
  BY DEF IInv, Known, Handling, TypeOK
<1>2. /\ \A code \in Nat: Answer(h, code) \in Request
      /\ \A step \in Steps: Goto(h, step) \in Request
  BY AnswersTyped DEF IInv
<1>3. CASE ReserveFree(h)
  <2>1. CASE Plant(h, "free") /\ HasRoom(req[h].dev) /\ Reply(h, Goto(h, "sign"))
    BY <1>3, <2>1, PlantKeeps DEF ReserveFree
  <2>2. CASE Reply(h, Goto(h, "readPaid")) /\ UNCHANGED <<redis, paid, history>>
    BY <1>1, <1>2, <1>3, <2>2, QuietReply, AnswerShape DEF ReserveFree, At, IInv
  <2>3. CASE Reply(h, Answer(h, 503)) /\ UNCHANGED <<redis, paid, history>>
    BY <1>1, <1>2, <1>3, <2>3, QuietReply, AnswerShape DEF ReserveFree, At, IInv
  <2> QED
    BY <1>3, <2>1, <2>2, <2>3 DEF ReserveFree
<1>4. CASE ReadPaid(h)
  <2>1. CASE Reply(h, Goto(h, "reservePaid")) /\ UNCHANGED <<redis, paid, history>>
    BY <1>1, <1>2, <1>4, <2>1, QuietReply, AnswerShape DEF ReadPaid, At, IInv
  <2>2. CASE Reply(h, Answer(h, 403)) /\ UNCHANGED <<redis, paid, history>>
    BY <1>1, <1>2, <1>4, <2>2, QuietReply, AnswerShape DEF ReadPaid, At, IInv
  <2> QED
    BY <1>4, <2>1, <2>2 DEF ReadPaid
<1>5. CASE ReservePaid(h)
  <2>1. CASE Plant(h, "paid") /\ Reply(h, Goto(h, "sign"))
    BY <1>5, <2>1, PlantKeeps DEF ReservePaid
  <2>2. CASE Reply(h, Answer(h, 503)) /\ UNCHANGED <<redis, paid, history>>
    BY <1>1, <1>2, <1>5, <2>2, QuietReply, AnswerShape DEF ReservePaid, At, IInv
  <2> QED
    BY <1>5, <2>1, <2>2 DEF ReservePaid
<1>6. CASE SignToken(h)
  <2>1. /\ req[h].op = "session" /\ owner[req[h].sid] # NoDevice /\ req[h].sid \in SessionIds
    BY <1>1, <1>6 DEF HandlerOK, SignToken, At
  <2>2. /\ req'[h] = Answer(h, 200) /\ \A g \in Handlers \ {h}: req'[g] = req[g]
        /\ req'[h].op = "session" /\ req'[h].pc = "idle"
    BY <1>2, <1>6, <2>1, AnswerShape DEF SignToken, IInv, TypeOK
  <2>3. /\ issued' = issued \cup {req[h].sid}
        /\ UNCHANGED <<reserve, daily, owner, kind, charges, fullFor>>
    BY <1>6 DEF SignToken, redis
  <2>4. \A g \in Handlers \ {h}: req[g].pc \in SessionSteps => req[g].sid # req[h].sid
    BY <1>6 DEF SignToken, At, IInv, Known, OneDrawer
  <2>5. Handling'
    BY <2>2, <2>3, <2>4 DEF IInv, Known, Handling, HandlerOK
  <2>6. Keeping' /\ Window'
    BY <2>1, <2>3 DEF IInv, Known, Keeping, SessionOK, Window
  <2>7. OneDrawer' /\ FreeOkMeansCharged'
    BY <2>2, <2>3 DEF IInv, Known, OneDrawer, FreeOkMeansCharged, At
  <2> QED
    BY <2>5, <2>6, <2>7 DEF Known
<1> QED
  BY <1>3, <1>4, <1>5, <1>6

\* The steps of /session/commit that write nothing but the lock.
LEMMA LookupKeeps ==
    ASSUME IInv, NEW h \in Handlers, Lookup(h)
    PROVE  Known'
<1> USE DEF SessionSteps, CommitSteps, Steps
<1>1. /\ req[h] \in Request /\ req[h].op = "commit" /\ req[h].sid \in issued
      /\ req[h].pc = "lookup" /\ req[h].sid \in SessionIds
  BY DEF IInv, Known, Handling, HandlerOK, Lookup, At, TypeOK
<1>2. /\ \A code \in Nat: Answer(h, code) \in Request
      /\ \A step \in Steps: Goto(h, step) \in Request
  BY AnswersTyped DEF IInv
<1>3. SessionOK(req[h].sid)
  BY <1>1 DEF IInv, Known, Keeping
<1>4. CASE Routed(h) = Goto(h, "lock") /\ Holds(h, "paid")
  <2>1. kind[req[h].sid] = "paid"
    BY <1>3, <1>4 DEF SessionOK, Holds
  <2> QED
    BY <1>1, <1>2, <1>4, <2>1, QuietReply, AnswerShape DEF Lookup, IInv
<1>5. CASE Routed(h) = Goto(h, "commitFree")
  BY <1>1, <1>2, <1>5, QuietReply, AnswerShape DEF Lookup, IInv
<1>6. CASE Routed(h) = Answer(h, 200) /\ (Holds(h, "committed-free") \/ Holds(h, "committed-paid"))
  <2>1. charges[req[h].sid] >= 1
    BY <1>3, <1>6 DEF SessionOK, Holds
  <2> QED
    BY <1>1, <1>2, <1>6, <2>1, QuietReply, AnswerShape DEF Lookup, IInv
<1>7. CASE \E code \in {403, 410, 500}: Routed(h) = Answer(h, code)
  BY <1>1, <1>2, <1>7, QuietReply, AnswerShape DEF Lookup, IInv
<1> QED
  BY <1>4, <1>5, <1>6, <1>7 DEF Routed

LEMMA CommitStepKeeps ==
    ASSUME IInv, NEW h \in Handlers,
           ReadUsed(h) \/ Lock(h) \/ CallFails(h)
    PROVE  Known'
<1> USE DEF SessionSteps, CommitSteps, Steps
<1>1. HandlerOK(h) /\ req[h] \in Request
  BY DEF IInv, Known, Handling, TypeOK
<1>2. /\ \A code \in Nat: Answer(h, code) \in Request
      /\ \A step \in Steps: Goto(h, step) \in Request
  BY AnswersTyped DEF IInv
<1>3. CASE ReadUsed(h)
  <2>1. charges[req[h].sid] >= 1
    BY <1>1, <1>3 DEF HandlerOK, ReadUsed, At
  <2> QED
    BY <1>1, <1>2, <1>3, <2>1, QuietReply, AnswerShape DEF ReadUsed, At, IInv
<1>4. CASE Lock(h)
  <2>1. kind[req[h].sid] = "paid" /\ req[h].pc = "lock"
    BY <1>1, <1>4 DEF HandlerOK, Lock, At
  <2>2. CASE Reply(h, Answer(h, 200)) /\ UNCHANGED <<redis, paid, history>>
    BY <1>1, <1>2, <2>1, <2>2, QuietReply, AnswerShape DEF IInv
  <2>3. CASE Reply(h, Goto(h, "consume")) /\ UNCHANGED <<reserve, daily, paid, history>>
    <3>1. UNCHANGED <<owner, kind, issued, charges, fullFor>>
      BY <2>3 DEF history
    <3>2. charges \in [SessionIds -> Nat] /\ issued \subseteq SessionIds
      BY DEF IInv, TypeOK
    <3>3. Handling' /\ OneDrawer' /\ FreeOkMeansCharged'
      BY <1>1, <1>2, <2>1, <2>3, <3>1, <3>2, ReplyKeepsHandling, AnswerShape DEF IInv, Known
    <3>4. Keeping' /\ Window'
      BY <2>3, <3>1 DEF IInv, Known, Keeping, SessionOK, Window
    <3> QED
      BY <3>3, <3>4 DEF Known
  <2> QED
    BY <1>4, <2>2, <2>3 DEF Lock
<1>5. CASE CallFails(h)
  <2>1. req[h].pc \in Steps
    BY <1>5 DEF CallFails, FaultKinds
  <2>2. /\ AnswerError(h).pc = "idle" /\ AnswerError(h).sid = req[h].sid
        /\ AnswerError(h).dev = req[h].dev /\ AnswerError(h).op = req[h].op
        /\ AnswerError(h).resp = 200 => At(h, "mark")
        /\ AnswerError(h) \in Request
    BY AnswerShape, AnswersTyped DEF AnswerError, IInv
  <2>3. At(h, "mark") => kind[req[h].sid] = "paid"
    BY <1>1 DEF HandlerOK, At
  <2>4. Reply(h, AnswerError(h))
    BY <1>5 DEF CallFails, Reply
  <2> QED
    BY <1>5, <2>1, <2>2, <2>3, <2>4, QuietReply DEF CallFails
<1> QED
  BY <1>3, <1>4, <1>5

\* A free charge: the script finds the reservation free, hence uncharged.
LEMMA CommitFreeKeeps ==
    ASSUME IInv, NEW h \in Handlers, CommitFree(h)
    PROVE  Known'
<1> USE DEF SessionSteps, CommitSteps, Steps
<1>1. /\ req[h] \in Request /\ req[h].op = "commit" /\ req[h].sid \in issued
      /\ req[h].pc = "commitFree" /\ req[h].sid \in SessionIds /\ req[h].dev \in Devices
  BY DEF IInv, Known, Handling, HandlerOK, CommitFree, At, TypeOK
<1>2. /\ \A code \in Nat: Answer(h, code) \in Request
      /\ \A step \in Steps: Goto(h, step) \in Request
  BY AnswersTyped DEF IInv
<1>3. SessionOK(req[h].sid)
  BY <1>1 DEF IInv, Known, Keeping
<1>4. CASE Claimable(h)
  <2>1. /\ Sentinel(h, "committed-free") /\ Charge(h) /\ Reply(h, Answer(h, 200))
        /\ daily' = [daily EXCEPT ![req[h].dev] = @ + 1]
        /\ UNCHANGED <<owner, kind, issued, fullFor>>
    BY <1>4 DEF CommitFree, AlreadyCommitted, Claimable, Holds
  <2>2. charges[req[h].sid] = 0 /\ kind[req[h].sid] = "free"
    BY <1>3, <1>4 DEF SessionOK, Claimable, Holds
  <2>3. /\ charges'[req[h].sid] = 1 /\ charges' \in [SessionIds -> Nat]
        /\ \A s \in SessionIds \ {req[h].sid}: charges'[s] = charges[s]
    BY <1>1, <2>1, <2>2 DEF Charge, IInv, TypeOK
  <2>4. /\ \A s \in SessionIds \ {req[h].sid}: reserve'[s] = reserve[s]
        /\ reserve'[req[h].sid] =
              [dev |-> req[h].dev, type |-> "committed-free", ttl |-> CommittedSentinelTTL]
    BY <1>1, <2>1 DEF Sentinel, IInv, TypeOK
  <2>5. \A s \in issued: kind'[s] = kind[s] /\ charges'[s] >= charges[s]
    BY <2>1, <2>2, <2>3 DEF IInv, TypeOK
  <2>6. Handling' /\ OneDrawer' /\ FreeOkMeansCharged'
    BY <1>1, <1>2, <2>1, <2>3, <2>5, ReplyKeepsHandling, AnswerShape DEF IInv, Known
  <2>7. Keeping'
    <3>1. ASSUME NEW s \in SessionIds \ {req[h].sid} PROVE SessionOK(s)'
      BY <2>1, <2>3, <2>4 DEF IInv, Known, Keeping, SessionOK
    <3>2. ASSUME NEW s \in SessionIds, s = req[h].sid PROVE SessionOK(s)'
      BY <1>1, <1>3, <2>1, <2>2, <2>3, <2>4, <3>2 DEF SessionOK
    <3> QED
      BY <3>1, <3>2 DEF Keeping
  <2>8. Window'
    <3>1. \A d \in Devices: daily'[d] < FreeBumpsPerDay => daily[d] < FreeBumpsPerDay
      BY <1>1, <2>1 DEF IInv, TypeOK
    <3> QED
      BY <2>1, <2>4, <3>1 DEF IInv, Known, Window
  <2> QED
    BY <2>6, <2>7, <2>8 DEF Known
<1>5. CASE AlreadyCommitted(h)
  <2>1. Reply(h, Goto(h, "readUsed")) /\ UNCHANGED <<redis, paid, history>>
    BY <1>5 DEF CommitFree, AlreadyCommitted, Claimable, Holds
  <2>2. charges[req[h].sid] >= 1
    BY <1>3, <1>5 DEF SessionOK, AlreadyCommitted, Holds
  <2> QED
    BY <1>1, <1>2, <2>1, <2>2, QuietReply, AnswerShape DEF IInv
<1>6. CASE ~Claimable(h) /\ ~AlreadyCommitted(h)
  <2>1. Reply(h, Answer(h, 410)) /\ UNCHANGED <<redis, paid, history>>
    BY <1>6 DEF CommitFree
  <2> QED
    BY <1>1, <1>2, <2>1, QuietReply, AnswerShape DEF IInv
<1> QED
  BY <1>4, <1>5, <1>6

\* A paid charge and its sentinel: both are for a session that reserved a paid
\* bump, and the sentinel comes after the charge.
LEMMA PaidStepKeeps ==
    ASSUME IInv, NEW h \in Handlers, Consume(h) \/ Mark(h)
    PROVE  Known'
<1> USE DEF SessionSteps, CommitSteps, Steps
<1>1. /\ req[h] \in Request /\ req[h].op = "commit" /\ req[h].sid \in issued
      /\ req[h].pc \in {"consume", "mark"} /\ req[h].sid \in SessionIds
      /\ req[h].dev \in Devices /\ kind[req[h].sid] = "paid"
      /\ At(h, "mark") => charges[req[h].sid] >= 1
  BY DEF IInv, Known, Handling, HandlerOK, Consume, Mark, At, TypeOK
<1>2. /\ \A code \in Nat: Answer(h, code) \in Request
      /\ \A step \in Steps: Goto(h, step) \in Request
  BY AnswersTyped DEF IInv
<1>3. SessionOK(req[h].sid)
  BY <1>1 DEF IInv, Known, Keeping
<1>4. CASE Consume(h) /\ HasBalance(req[h].dev)
  <2>1. /\ Charge(h) /\ Reply(h, Goto(h, "mark"))
        /\ UNCHANGED <<reserve, daily, owner, kind, issued, fullFor>>
    BY <1>4 DEF Consume, redis
  <2>2. /\ charges'[req[h].sid] = charges[req[h].sid] + 1 /\ charges' \in [SessionIds -> Nat]
        /\ \A s \in SessionIds \ {req[h].sid}: charges'[s] = charges[s]
    BY <1>1, <2>1 DEF Charge, IInv, TypeOK
  <2>3. \A s \in issued: kind'[s] = kind[s] /\ charges'[s] >= charges[s]
    BY <2>1, <2>2 DEF IInv, TypeOK
  <2>4. charges'[req[h].sid] >= 1
    BY <1>1, <2>2 DEF IInv, TypeOK
  <2>5. Handling' /\ OneDrawer' /\ FreeOkMeansCharged'
    BY <1>1, <1>2, <2>1, <2>2, <2>3, <2>4, ReplyKeepsHandling, AnswerShape DEF IInv, Known
  <2>6. Keeping'
    <3>1. ASSUME NEW s \in SessionIds \ {req[h].sid} PROVE SessionOK(s)'
      BY <2>1, <2>2 DEF IInv, Known, Keeping, SessionOK
    <3>2. ASSUME NEW s \in SessionIds, s = req[h].sid PROVE SessionOK(s)'
      BY <1>1, <1>3, <2>1, <2>4, <3>2 DEF SessionOK
    <3> QED
      BY <3>1, <3>2 DEF Keeping
  <2>7. Window'
    BY <2>1 DEF IInv, Known, Window
  <2> QED
    BY <2>5, <2>6, <2>7 DEF Known
<1>5. CASE Consume(h) /\ ~HasBalance(req[h].dev)
  <2>1. Reply(h, Answer(h, 409)) /\ UNCHANGED <<redis, paid, history>>
    BY <1>5 DEF Consume, NoBalance
  <2> QED
    BY <1>1, <1>2, <2>1, QuietReply, AnswerShape DEF IInv
<1>6. CASE Mark(h)
  <2>1. /\ Sentinel(h, "committed-paid") /\ Reply(h, Answer(h, 200))
        /\ UNCHANGED <<daily, owner, kind, issued, charges, fullFor>>
        /\ charges[req[h].sid] >= 1
    BY <1>1, <1>6 DEF Mark, history
  <2>2. /\ \A s \in SessionIds \ {req[h].sid}: reserve'[s] = reserve[s]
        /\ reserve'[req[h].sid] =
              [dev |-> req[h].dev, type |-> "committed-paid", ttl |-> CommittedSentinelTTL]
    BY <1>1, <2>1 DEF Sentinel, IInv, TypeOK
  <2>3. \A s \in issued: kind'[s] = kind[s] /\ charges'[s] >= charges[s]
    BY <2>1 DEF IInv, TypeOK
  <2>4. charges' \in [SessionIds -> Nat] /\ kind'[req[h].sid] = "paid"
    BY <1>1, <2>1 DEF IInv, TypeOK
  <2>5. Handling' /\ OneDrawer' /\ FreeOkMeansCharged'
    BY <1>1, <1>2, <2>1, <2>3, <2>4, ReplyKeepsHandling, AnswerShape DEF IInv, Known
  <2>6. Keeping'
    <3>1. ASSUME NEW s \in SessionIds \ {req[h].sid} PROVE SessionOK(s)'
      BY <2>1, <2>2 DEF IInv, Known, Keeping, SessionOK
    <3>2. ASSUME NEW s \in SessionIds, s = req[h].sid PROVE SessionOK(s)'
      BY <1>1, <1>3, <2>1, <2>2, <3>2 DEF SessionOK
    <3> QED
      BY <3>1, <3>2 DEF Keeping
  <2>7. Window'
    BY <2>1, <2>2 DEF IInv, Known, Window
  <2> QED
    BY <2>5, <2>6, <2>7 DEF Known
<1> QED
  BY <1>4, <1>5, <1>6

\* A new request: a session id that is drawn has not been drawn before.
LEMMA ArriveKeeps ==
    ASSUME IInv, NEW h \in Handlers, Arrive(h)
    PROVE  Known'
<1> USE DEF SessionSteps, CommitSteps, Steps
<1>1. PICK d \in Devices, s \in SessionIds: Session(h, d, s) \/ DevSession(h, d, s) \/ Commit(h, d, s)
  BY DEF Arrive
<1>2. UNCHANGED <<reserve, daily, kind, issued, charges, fullFor>>
  BY <1>1 DEF Session, DevSession, Commit, redis
<1>3. CASE Session(h, d, s) \/ DevSession(h, d, s)
  <2>1. /\ owner[s] = NoDevice /\ d # NoDevice
        /\ \A t \in SessionIds: owner'[t] = IF t = s THEN d ELSE owner[t]
    BY <1>3 DEF Session, DevSession, IInv, TypeOK
  <2>2. s \notin issued
    BY <2>1 DEF IInv, Known, Keeping, SessionOK
  <2>3. /\ req'[h].pc \in {"reserveFree", "sign"} /\ req'[h].op = "session"
        /\ req'[h].dev = d /\ req'[h].sid = s
        /\ \A g \in Handlers \ {h}: req'[g] = req[g]
    BY <1>3 DEF Session, DevSession, IInv, TypeOK
  <2>4. \A g \in Handlers: req[g].pc \in SessionSteps => req[g].sid \in SessionIds /\ req[g].sid # s
    BY <2>1 DEF IInv, Known, Handling, HandlerOK
  <2>5. Handling'
    <3>1. ASSUME NEW g \in Handlers \ {h} PROVE HandlerOK(g)'
      BY <1>2, <2>1, <2>3, <2>4 DEF IInv, Known, Handling, HandlerOK
    <3>2. ASSUME NEW g \in Handlers, g = h PROVE HandlerOK(g)'
      BY <1>2, <2>1, <2>2, <2>3, <3>2 DEF HandlerOK
    <3> QED
      BY <3>1, <3>2 DEF Handling
  <2>6. Keeping'
    BY <1>2, <2>1, <2>2 DEF IInv, Known, Keeping, SessionOK
  <2>7. OneDrawer'
    BY <2>3, <2>4 DEF IInv, Known, OneDrawer
  <2>8. FreeOkMeansCharged' /\ Window'
    BY <1>2, <2>3 DEF IInv, Known, FreeOkMeansCharged, At, Window
  <2> QED
    BY <2>5, <2>6, <2>7, <2>8 DEF Known
<1>4. CASE Commit(h, d, s)
  <2>1. owner' = owner /\ s \in issued
    BY <1>4 DEF Commit
  <2>2. /\ req'[h].op = "commit" /\ req'[h].dev = d /\ req'[h].sid = s
        /\ req'[h].pc = "lookup" \/ (req'[h].pc = "idle" /\ d \in DevAllowlist)
        /\ \A g \in Handlers \ {h}: req'[g] = req[g]
        /\ req'[h].pc = "lookup" => req'[h].resp = 0
    BY <1>4 DEF Commit, IInv, TypeOK
  <2>3. Handling'
    <3>1. ASSUME NEW g \in Handlers \ {h} PROVE HandlerOK(g)'
      BY <1>2, <2>1, <2>2 DEF IInv, Known, Handling, HandlerOK
    <3>2. ASSUME NEW g \in Handlers, g = h PROVE HandlerOK(g)'
      BY <1>2, <2>1, <2>2, <3>2 DEF HandlerOK
    <3> QED
      BY <3>1, <3>2 DEF Handling
  <2>4. Keeping' /\ Window'
    BY <1>2, <2>1 DEF IInv, Known, Keeping, SessionOK, Window
  <2>5. OneDrawer' /\ FreeOkMeansCharged'
    BY <1>2, <2>2 DEF IInv, Known, OneDrawer, FreeOkMeansCharged, At
  <2> QED
    BY <2>3, <2>4, <2>5 DEF Known
<1> QED
  BY <1>1, <1>3, <1>4

\* Credits, midnight, a crash and a restart of Redis.
LEMMA EnvironmentKeeps ==
    ASSUME IInv, Crash \/ RedisRestart \/ \E d \in Devices: Credit(d) \/ DailyReset(d)
    PROVE  Known'
<1>1. CASE Crash
  <2>1. /\ UNCHANGED <<reserve, daily, owner, kind, issued, charges, fullFor>>
        /\ \A h \in Handlers: req'[h].pc = "idle" /\ req'[h].op = "none"
    BY <1>1 DEF Crash, NoRequest, redis
  <2> QED
    BY <2>1 DEF IInv, Known, Handling, HandlerOK, Keeping, SessionOK, OneDrawer, Window,
                FreeOkMeansCharged, At, SessionSteps, CommitSteps
<1>2. CASE \E d \in Devices: Credit(d)
  BY <1>2 DEF Credit, redis, IInv, Known, Handling, HandlerOK, Keeping, SessionOK, OneDrawer,
              Window, FreeOkMeansCharged, At
<1>3. CASE \E d \in Devices: DailyReset(d)
  <2>1. PICK d \in Devices: DailyReset(d)
    BY <1>3
  <2>2. /\ UNCHANGED <<reserve, req, owner, kind, issued, charges>>
        /\ daily'[d] = 0 /\ fullFor'[d] = 0
        /\ \A e \in Devices \ {d}: daily'[e] = daily[e] /\ fullFor'[e] = fullFor[e]
    BY <2>1 DEF DailyReset, IInv, TypeOK
  <2>3. Handling' /\ Keeping' /\ OneDrawer' /\ FreeOkMeansCharged'
    BY <2>2 DEF IInv, Known, Handling, HandlerOK, Keeping, SessionOK, OneDrawer,
                FreeOkMeansCharged, At
  <2>4. ASSUME NEW s \in SessionIds, reserve[s].type = "free"
        PROVE  reserve[s].ttl + fullFor'[reserve[s].dev] <= ReservationTTL
    <3>1. reserve[s].dev \in Devices /\ reserve[s].ttl \in Nat
      BY <2>4 DEF IInv, TypeOK, Reservation, Known, Keeping, SessionOK
    <3>2. /\ reserve[s].ttl + fullFor[reserve[s].dev] <= ReservationTTL
          /\ fullFor[reserve[s].dev] \in Nat
      BY <2>4, <3>1 DEF IInv, TypeOK, Known, Window
    <3> QED
      BY <2>2, <3>1, <3>2
  <2>5. Window'
    BY <2>2, <2>4 DEF IInv, Known, Window
  <2> QED
    BY <2>3, <2>5 DEF Known
<1>4. CASE RedisRestart
  <2>1. /\ UNCHANGED <<req, owner, kind, issued, charges>>
        /\ \A s \in SessionIds: reserve'[s] = NoReservation
        /\ \A d \in Devices: daily'[d] = 0 /\ fullFor'[d] = 0
    BY <1>4 DEF RedisRestart
  <2>2. Handling' /\ OneDrawer' /\ FreeOkMeansCharged'
    BY <2>1 DEF IInv, Known, Handling, HandlerOK, OneDrawer, FreeOkMeansCharged, At
  <2>3. Keeping' /\ Window'
    BY <2>1 DEF IInv, Known, Keeping, SessionOK, Window, NoReservation
  <2> QED
    BY <2>2, <2>3 DEF Known
<1> QED
  BY <1>1, <1>2, <1>3, <1>4

\* Time: a free reservation gets older at least as fast as the limit.
LEMMA TickKeeps ==
    ASSUME IInv, Tick
    PROVE  Known'
<1>1. UNCHANGED <<daily, req, owner, kind, issued, charges>>
  BY DEF Tick
<1>2. \A s \in SessionIds:
         \/ reserve[s].ttl > 1 /\ reserve'[s] = [reserve[s] EXCEPT !.ttl = @ - 1]
         \/ reserve[s].ttl <= 1 /\ reserve'[s] = NoReservation
  BY DEF Tick, Aged, IInv, TypeOK, Reservation
<1>3. Handling' /\ OneDrawer' /\ FreeOkMeansCharged'
  BY <1>1 DEF IInv, Known, Handling, HandlerOK, OneDrawer, FreeOkMeansCharged, At
<1>4. ASSUME NEW s \in SessionIds PROVE SessionOK(s)'
  <2>1. SessionOK(s) /\ reserve[s] \in Reservation
    BY DEF IInv, Known, Keeping, TypeOK
  <2>2. CASE reserve[s].ttl > 1 /\ reserve'[s] = [reserve[s] EXCEPT !.ttl = @ - 1]
    <3>1. /\ reserve'[s].type = reserve[s].type /\ reserve'[s].dev = reserve[s].dev
          /\ reserve'[s].ttl # 0 /\ reserve[s].ttl # 0
      BY <2>1, <2>2 DEF Reservation
    <3> QED
      BY <1>1, <2>1, <3>1 DEF SessionOK
  <2>3. CASE reserve'[s] = NoReservation
    BY <1>1, <2>1, <2>3 DEF SessionOK, NoReservation
  <2> QED
    BY <1>2, <2>2, <2>3
<1>5. \A d \in Devices: daily'[d] < FreeBumpsPerDay => fullFor'[d] = 0
  BY <1>1 DEF Tick
<1>6. ASSUME NEW s \in SessionIds, reserve'[s].type = "free"
      PROVE  reserve'[s].ttl + fullFor'[reserve'[s].dev] <= ReservationTTL
  <2>1. /\ reserve[s].ttl > 1 /\ reserve[s] \in Reservation
        /\ reserve'[s] = [reserve[s] EXCEPT !.ttl = @ - 1]
    BY <1>2, <1>6 DEF NoReservation, IInv, TypeOK
  <2>2. /\ reserve'[s].ttl = reserve[s].ttl - 1 /\ reserve[s].ttl \in Nat
        /\ reserve'[s].dev = reserve[s].dev /\ reserve[s].type = "free"
    BY <1>6, <2>1 DEF Reservation
  <2>3. reserve[s].dev \in Devices
    BY <2>2 DEF IInv, Known, Keeping, SessionOK
  <2>4. /\ reserve[s].ttl + fullFor[reserve[s].dev] <= ReservationTTL
        /\ fullFor[reserve[s].dev] \in Nat
    BY <2>2, <2>3 DEF IInv, Known, Window, TypeOK
  <2>5. fullFor'[reserve[s].dev] \in {0, fullFor[reserve[s].dev] + 1}
    BY <2>1, <2>2, <2>3, <2>4 DEF Tick
  <2> QED
    BY <2>1, <2>2, <2>4, <2>5
<1> QED
  BY <1>3, <1>4, <1>5, <1>6 DEF Known, Keeping, Window

LEMMA InitInv == Init => IInv
<1> SUFFICES ASSUME Init PROVE IInv
  OBVIOUS
<1>1. TypeOK
  BY InitType
<1>2. Known
  BY DEF Init, Known, Handling, HandlerOK, Keeping, SessionOK, OneDrawer, Window,
         FreeOkMeansCharged, NoRequest, NoReservation, At, SessionSteps, CommitSteps
<1> QED
  BY <1>1, <1>2 DEF IInv

LEMMA NextInv == IInv /\ [Next]_vars => IInv'
<1> SUFFICES ASSUME IInv, [Next]_vars PROVE IInv'
  OBVIOUS
<1>1. TypeOK'
  BY NextType DEF IInv, Known
<1>2. Known'
  <2>1. ASSUME NEW h \in Handlers, Step(h) PROVE Known'
    BY <2>1, SessionStepKeeps, LookupKeeps, CommitFreeKeeps, CommitStepKeeps, PaidStepKeeps DEF Step
  <2>2. CASE UNCHANGED vars
    BY <2>2 DEF vars, redis, history, IInv, Known, Handling, HandlerOK, Keeping, SessionOK,
                OneDrawer, Window, FreeOkMeansCharged, At
  <2> QED
    BY <2>1, <2>2, ArriveKeeps, EnvironmentKeeps, TickKeeps DEF Next, Untimed
<1> QED
  BY <1>1, <1>2 DEF IInv

LEMMA Invariance == Spec => []IInv
  BY InitInv, NextInv, PTL DEF Spec
-----------------------------------------------------------------------------
(* Theorems *)

\* In every reachable state the stores and the requests are well typed; no paid
\* balance is ever negative (TryConsumePaidBump).
THEOREM TypeCorrect == Spec => []TypeOK
<1>1. IInv => TypeOK
  BY DEF IInv
<1> QED
  BY <1>1, Invariance, PTL

\* A session that reserved a free bump is never charged twice, for any number of
\* concurrent, repeated, re-sent and interrupted commits (commitFreeBumpScript).
THEOREM FreeChargedOnce == Spec => []FreeChargedAtMostOnce
<1>1. IInv => FreeChargedAtMostOnce
  BY DEF IInv, Known, Keeping, SessionOK, FreeChargedAtMostOnce
<1> QED
  BY <1>1, Invariance, PTL

\* The commit handler never reports success for a free session that was not
\* charged (the 200 and 410 paths of session_commit.go).
THEOREM FreeOkIsCharged == Spec => []FreeOkMeansCharged
<1>1. IInv => FreeOkMeansCharged
  BY DEF IInv, Known
<1> QED
  BY <1>1, Invariance, PTL

\* A sentinel, free or paid, stands for a charge that was made: the replay
\* branches of session_commit.go answer for a bump that was spent.
THEOREM SentinelIsCharged == Spec => []CommittedMeansCharged
<1>1. IInv => CommittedMeansCharged
  BY DEF IInv, Known, Keeping, SessionOK, CommittedMeansCharged
<1> QED
  BY <1>1, Invariance, PTL

\* A step of CommitFree that charges over the limit does so while the limit is
\* younger than a reservation.
LEMMA OvershootStep ==
    ASSUME IInv, [Next]_vars, NEW d \in Devices,
           daily'[d] > daily[d], daily[d] >= FreeBumpsPerDay
    PROVE  fullFor[d] < ReservationTTL
<1>1. PICK h \in Handlers: CommitFree(h) /\ Claimable(h)
  <2>1. ASSUME NEW h \in Handlers, Step(h), daily' # daily PROVE CommitFree(h) /\ Claimable(h)
    BY <2>1 DEF Step, ReserveFree, ReadPaid, ReservePaid, SignToken, Lookup, CommitFree, ReadUsed,
                Lock, Consume, Mark, CallFails, Plant, redis
  <2>2. ASSUME NEW h \in Handlers, Arrive(h) PROVE daily' = daily
    BY <2>2 DEF Arrive, Session, DevSession, Commit, redis
  <2>3. ASSUME NEW e \in Devices, Credit(e) PROVE daily' = daily
    BY <2>3 DEF Credit, redis
  <2>4. ASSUME NEW e \in Devices, DailyReset(e) PROVE daily'[d] \in {0, daily[d]}
    BY <2>4 DEF DailyReset, IInv, TypeOK
  <2>5. daily'[d] # daily[d] /\ daily'[d] # 0
    BY DEF IInv, TypeOK
  <2>6. ASSUME Crash \/ Tick \/ UNCHANGED vars PROVE daily' = daily
    BY <2>6 DEF Crash, Tick, vars, redis
  <2>7. ASSUME RedisRestart PROVE daily'[d] = 0
    BY <2>7 DEF RedisRestart
  <2> QED
    BY <2>1, <2>2, <2>3, <2>4, <2>5, <2>6, <2>7 DEF Next, Untimed
<1>2. /\ req[h].sid \in SessionIds /\ req[h].dev \in Devices
      /\ daily' = [daily EXCEPT ![req[h].dev] = @ + 1]
  <2>1. req[h].pc = "commitFree"
    BY <1>1 DEF CommitFree, At
  <2>2. req[h].sid \in issued /\ req[h].dev \in Devices
    BY <2>1 DEF IInv, Known, Handling, HandlerOK, CommitSteps
  <2>3. daily' = [daily EXCEPT ![req[h].dev] = @ + 1]
    BY <1>1 DEF CommitFree, AlreadyCommitted, Claimable, Holds
  <2> QED
    BY <2>2, <2>3 DEF IInv, TypeOK
<1>3. req[h].dev = d
  BY <1>2 DEF IInv, TypeOK
<1>4. /\ reserve[req[h].sid].type = "free" /\ reserve[req[h].sid].dev = d
      /\ reserve[req[h].sid].ttl > 0 /\ reserve[req[h].sid].ttl \in Nat
  BY <1>1, <1>2, <1>3 DEF Claimable, Holds, Owned, Live, IInv, TypeOK, Reservation
<1>5. reserve[req[h].sid].ttl + fullFor[d] <= ReservationTTL /\ fullFor[d] \in Nat
  BY <1>2, <1>4 DEF IInv, Known, Window, TypeOK
<1> QED
  BY <1>4, <1>5

\* Free charges over the daily limit stop within one reservation lifetime of the
\* limit being reached, however many reservations were granted while there was
\* room (reserveFreeBumpScript counts nothing).
THEOREM OvershootIsShort == Spec => OvershootWindow
<1>1. IInv /\ [Next]_vars =>
        [\A d \in Devices:
            (daily'[d] > daily[d] /\ daily[d] >= FreeBumpsPerDay)
            => fullFor[d] < ReservationTTL]_vars
  BY OvershootStep
<1> QED
  BY <1>1, Invariance, PTL DEF Spec, OvershootWindow
-----------------------------------------------------------------------------
(* Errors without a charge *)

\* Who has charged is on the way to a 200, or has been answered with it.
BilledOK(h) ==
    (h \in billed /\ req[h].op = "commit")
    => req[h].pc = "mark" \/ (req[h].pc = "idle" /\ req[h].resp = 200)

Billing == \A h \in Handlers: BilledOK(h)

\* A call that was not executed is answered with an error only before the charge.
LEMMA CleanReply ==
    ASSUME Faults \subseteq Steps \X {"error"}, NEW h \in Handlers, NEW next, Reply(h, next)
    PROVE  req' = [req EXCEPT ![h] = next]
  BY DEF Reply

LEMMA BillingKeeps ==
    ASSUME Faults \subseteq Steps \X {"error"}, IInv, Billing, [Next]_vars
    PROVE  Billing'
<1> USE DEF SessionSteps, CommitSteps, Steps, Billing, BilledOK
<1>1. ASSUME NEW h \in Handlers, Step(h) PROVE Billing'
  <2>1. HandlerOK(h) /\ req[h] \in Request /\ TypeOK
    BY DEF IInv, Known, Handling, TypeOK
  <2>2. /\ \A code \in Nat: /\ Answer(h, code).op = req[h].op /\ Answer(h, code).pc = "idle"
                            /\ Answer(h, code).resp = code
        /\ \A step \in Steps: Goto(h, step).op = req[h].op /\ Goto(h, step).pc = step
    BY <2>1, AnswerShape
  <2>3. \A r: req' = [req EXCEPT ![h] = r] => req'[h] = r /\ \A g \in Handlers \ {h}: req'[g] = req[g]
    BY <2>1 DEF TypeOK
  <2>4. CASE CommitFree(h) /\ Claimable(h)
    <3>1. req' = [req EXCEPT ![h] = Answer(h, 200)] /\ billed' = billed \cup {h}
      BY <2>4, CleanReply DEF CommitFree, AlreadyCommitted, Claimable, Holds, Charge
    <3>2. req'[h] = Answer(h, 200) /\ \A g \in Handlers \ {h}: req'[g] = req[g]
      BY <2>1, <3>1 DEF TypeOK
    <3>3. Answer(h, 200).pc = "idle" /\ Answer(h, 200).resp = 200
      BY <2>2
    <3> QED
      BY <3>1, <3>2, <3>3
  <2>5. CASE Consume(h) /\ HasBalance(req[h].dev)
    <3>1. req' = [req EXCEPT ![h] = Goto(h, "mark")] /\ billed' = billed \cup {h}
      BY <2>5, CleanReply DEF Consume, Charge
    <3>2. req'[h] = Goto(h, "mark") /\ \A g \in Handlers \ {h}: req'[g] = req[g]
      BY <2>1, <3>1 DEF TypeOK
    <3>3. Goto(h, "mark").pc = "mark"
      BY <2>2
    <3> QED
      BY <3>1, <3>2, <3>3
  <2>6. CASE Mark(h)
    <3>1. req' = [req EXCEPT ![h] = Answer(h, 200)] /\ billed' = billed
      BY <2>6, CleanReply DEF Mark, history
    <3>2. req'[h] = Answer(h, 200) /\ \A g \in Handlers \ {h}: req'[g] = req[g]
      BY <2>1, <3>1 DEF TypeOK
    <3>3. Answer(h, 200).pc = "idle" /\ Answer(h, 200).resp = 200
      BY <2>2
    <3> QED
      BY <3>1, <3>2, <3>3
  <2>7. CASE CallFails(h)
    <3>1. req' = [req EXCEPT ![h] = AnswerError(h)] /\ billed' = billed /\ req[h].pc \in Steps
      BY <2>7 DEF CallFails, history
    <3>2. req[h].pc = "mark" => AnswerError(h) = Answer(h, 200)
      BY DEF AnswerError, At
    <3>3. req[h].op = "commit" /\ h \in billed => req[h].pc = "mark"
      BY <3>1
    <3>4. AnswerError(h).op = req[h].op
      BY <2>2 DEF AnswerError
    <3> QED
      BY <2>2, <2>3, <3>1, <3>2, <3>3, <3>4
  <2>8. CASE \/ ReserveFree(h) \/ ReadPaid(h) \/ ReservePaid(h) \/ SignToken(h) \/ Lookup(h)
             \/ (CommitFree(h) /\ ~Claimable(h)) \/ ReadUsed(h) \/ Lock(h)
             \/ (Consume(h) /\ ~HasBalance(req[h].dev))
    <3>1. /\ billed' = billed /\ req[h].pc \notin {"mark", "idle"}
          /\ \E r: req' = [req EXCEPT ![h] = r] /\ r.op = req[h].op
      <4>1. ASSUME Lookup(h) PROVE Routed(h).op = req[h].op
        BY <2>2 DEF Routed
      <4> QED
        BY <2>2, <2>8, <4>1, CleanReply DEF ReserveFree, ReadPaid, ReservePaid, SignToken, Lookup,
           CommitFree, ReadUsed, Lock, Consume, NoBalance, Plant, At, history
    <3> QED
      BY <2>3, <3>1
  <2> QED
    BY <1>1, <2>4, <2>5, <2>6, <2>7, <2>8 DEF Step
<1>2. ASSUME NEW h \in Handlers, Arrive(h) PROVE Billing'
  <2>1. PICK d \in Devices, s \in SessionIds: Session(h, d, s) \/ DevSession(h, d, s) \/ Commit(h, d, s)
    BY <1>2 DEF Arrive
  <2>2. billed' = billed \ {h} /\ \A g \in Handlers \ {h}: req'[g] = req[g]
    BY <2>1 DEF Session, DevSession, Commit, IInv, TypeOK
  <2> QED
    BY <2>2
<1>3. CASE Crash
  BY <1>3 DEF Crash
<1>4. CASE RedisRestart \/ Tick \/ UNCHANGED vars \/ \E d \in Devices: Credit(d) \/ DailyReset(d)
  BY <1>4 DEF RedisRestart, Tick, vars, history, Credit, DailyReset
<1> QED
  BY <1>1, <1>2, <1>3, <1>4 DEF Next, Untimed

\* When calls fail without being executed and nothing else goes wrong with them, a
\* commit that is answered with an error has charged nobody, through crashes and
\* restarts of Redis (the order of the calls in session_commit.go).
THEOREM CleanErrors ==
    ASSUME Faults \subseteq Steps \X {"error"}
    PROVE  Spec => []ErrorMeansNotCharged
<1>1. Init => Billing
  BY DEF Init, Billing, BilledOK
<1>2. IInv /\ Billing /\ [Next]_vars => Billing'
  BY BillingKeeps
<1>3. Billing => ErrorMeansNotCharged
  BY DEF Billing, BilledOK, ErrorMeansNotCharged, At
<1> QED
  BY <1>1, <1>2, <1>3, Invariance, PTL DEF Spec
-----------------------------------------------------------------------------
(* How far one step reaches *)

USE DEF SessionSteps, CommitSteps, Steps

\* What IInv and TypeOK say of a handler that is not idle.
LEMMA Busy ==
    ASSUME IInv, NEW h \in Handlers, req[h].pc # "idle"
    PROVE  /\ req[h].sid \in SessionIds /\ req[h].dev \in Devices
           /\ req[h] \in Request
           /\ HandlerOK(h) /\ SessionOK(req[h].sid)
<1>1. req[h] \in Request /\ HandlerOK(h)
  BY DEF IInv, TypeOK, Known, Handling
<1>2. req[h].pc \in Steps
  BY <1>1 DEF Request
<1>3. req[h].sid \in SessionIds /\ req[h].dev \in Devices
  BY <1>1, <1>2 DEF HandlerOK, IInv, TypeOK
<1> QED
  BY <1>1, <1>3 DEF IInv, Known, Keeping

\* After a reply the handler is where the code sends it, has been answered with an
\* error, or makes its call once more.
LEMMA ReplyMoves ==
    ASSUME IInv, NEW h \in Handlers, NEW next \in Request, Reply(h, next),
           next.sid = req[h].sid, next.dev = req[h].dev
    PROVE  /\ \A g \in Handlers \ {h}: req'[g] = req[g]
           /\ req'[h].sid = req[h].sid /\ req'[h].dev = req[h].dev
           /\ req'[h].pc \in {next.pc, "idle", req[h].pc}
<1>1. TypeOK
  BY DEF IInv
<1>2. PICK r \in Request: req' = [req EXCEPT ![h] = r] /\ r \in {next, AnswerError(h), req[h]}
  BY <1>1, ReplyShape
<1>3. /\ AnswerError(h).sid = req[h].sid /\ AnswerError(h).dev = req[h].dev
      /\ AnswerError(h).pc = "idle"
  BY <1>1, AnswerShape DEF AnswerError
<1> QED
  BY <1>1, <1>2, <1>3, RequestFrame

\* The steps of a handler that draws no session.
LEMMA StepMoves ==
    ASSUME IInv, NEW h \in Handlers, Step(h)
    PROVE  /\ req[h].pc # "idle"
           /\ \A g \in Handlers \ {h}: req'[g] = req[g]
           /\ req'[h].sid = req[h].sid /\ req'[h].dev = req[h].dev
           /\ UNCHANGED owner
           /\ \A s \in SessionIds \ {req[h].sid}: reserve'[s] = reserve[s] /\ kind'[s] = kind[s]
           /\ req'[h].pc \in SessionSteps => req[h].pc \in SessionSteps
           /\ req'[h].pc = "lock" => req[h].pc = "lock" \/ (req[h].pc = "lookup" /\ Holds(h, "paid"))
           /\ req'[h].pc = "consume" => req[h].pc \in {"lock", "consume"}
           /\ req'[h].pc = "mark" => req[h].pc \in {"consume", "mark"}
<1>1. /\ \A code \in Nat: Answer(h, code) \in Request
      /\ \A step \in Steps: Goto(h, step) \in Request
      /\ AnswerError(h) \in Request
  BY AnswersTyped DEF IInv
<1>2. /\ \A code \in Nat: /\ Answer(h, code).sid = req[h].sid /\ Answer(h, code).dev = req[h].dev
                          /\ Answer(h, code).pc = "idle"
      /\ \A step \in Steps: /\ Goto(h, step).sid = req[h].sid /\ Goto(h, step).dev = req[h].dev
                            /\ Goto(h, step).pc = step
  BY AnswerShape DEF IInv
<1>3. req[h].pc # "idle"
  <2>1. CallFails(h) => req[h].pc \in Steps
    BY DEF CallFails
  <2> QED
    BY <2>1 DEF Step, At, ReserveFree, ReadPaid, ReservePaid, SignToken, Lookup, CommitFree,
                ReadUsed, Lock, Consume, Mark
<1>4. req[h].sid \in SessionIds /\ req[h].dev \in Devices /\ TypeOK
  BY <1>3, Busy DEF IInv
<1>5. CASE ReserveFree(h)
  <2>1. \E next \in {Goto(h, "readPaid"), Goto(h, "sign"), Answer(h, 503)}: Reply(h, next)
    BY <1>5 DEF ReserveFree
  <2>2. At(h, "reserveFree") /\ (Plant(h, "free") \/ UNCHANGED <<redis, paid, history>>)
    BY <1>5 DEF ReserveFree
  <2>3. /\ UNCHANGED owner
        /\ \A s \in SessionIds \ {req[h].sid}: reserve'[s] = reserve[s] /\ kind'[s] = kind[s]
    BY <1>4, <2>2 DEF Plant, redis, history, TypeOK
  <2> QED
    BY <1>1, <1>2, <1>3, <2>1, <2>2, <2>3, ReplyMoves DEF At
<1>6. CASE ReadPaid(h)
  <2>1. \E next \in {Goto(h, "reservePaid"), Answer(h, 403)}: Reply(h, next)
    BY <1>6 DEF ReadPaid
  <2> QED
    BY <1>1, <1>2, <1>4, <1>6, <2>1, ReplyMoves DEF ReadPaid, At, redis, history
<1>7. CASE ReservePaid(h)
  <2>1. \E next \in {Goto(h, "sign"), Answer(h, 503)}: Reply(h, next)
    BY <1>7 DEF ReservePaid
  <2>2. At(h, "reservePaid") /\ (Plant(h, "paid") \/ UNCHANGED <<redis, paid, history>>)
    BY <1>7 DEF ReservePaid
  <2>3. /\ UNCHANGED owner
        /\ \A s \in SessionIds \ {req[h].sid}: reserve'[s] = reserve[s] /\ kind'[s] = kind[s]
    BY <1>4, <2>2 DEF Plant, redis, history, TypeOK
  <2> QED
    BY <1>1, <1>2, <1>3, <2>1, <2>2, <2>3, ReplyMoves DEF At
<1>8. CASE SignToken(h)
  BY <1>1, <1>2, <1>4, <1>8, RequestFrame DEF SignToken, At, redis
<1>9. CASE Lookup(h)
  <2>1. /\ Routed(h) \in Request /\ Routed(h).sid = req[h].sid /\ Routed(h).dev = req[h].dev
        /\ Routed(h).pc \in {"idle", "commitFree", "lock"}
        /\ Routed(h).pc = "lock" => Holds(h, "paid")
    BY <1>1, <1>2 DEF Routed
  <2>2. Reply(h, Routed(h)) /\ UNCHANGED <<redis, paid, history>> /\ req[h].pc = "lookup"
    BY <1>9 DEF Lookup, At
  <2> QED
    BY <1>4, <2>1, <2>2, ReplyMoves DEF redis, history
<1>10. CASE CommitFree(h)
  <2>1. \E next \in {Goto(h, "readUsed"), Answer(h, 200), Answer(h, 410)}: Reply(h, next)
    BY <1>10 DEF CommitFree
  <2>2. At(h, "commitFree") /\ UNCHANGED <<owner, kind>>
        /\ (Sentinel(h, "committed-free") \/ UNCHANGED reserve)
    BY <1>10 DEF CommitFree, redis, history
  <2>3. \A s \in SessionIds \ {req[h].sid}: reserve'[s] = reserve[s]
    BY <1>4, <2>2 DEF Sentinel, TypeOK
  <2> QED
    BY <1>1, <1>2, <2>1, <2>2, <2>3, ReplyMoves DEF At
<1>11. CASE ReadUsed(h)
  BY <1>1, <1>2, <1>4, <1>11, ReplyMoves DEF ReadUsed, At, redis, history
<1>12. CASE Lock(h)
  <2>1. \E next \in {Goto(h, "consume"), Answer(h, 200)}: Reply(h, next)
    BY <1>12 DEF Lock
  <2> QED
    BY <1>1, <1>2, <1>4, <1>12, <2>1, ReplyMoves DEF Lock, At, redis, history
<1>13. CASE Consume(h)
  <2>1. \E next \in {Goto(h, "mark"), Answer(h, 409)}: Reply(h, next)
    BY <1>13 DEF Consume, NoBalance
  <2> QED
    BY <1>1, <1>2, <1>4, <1>13, <2>1, ReplyMoves DEF Consume, At, redis, history
<1>14. CASE Mark(h)
  <2>1. Reply(h, Answer(h, 200)) /\ req[h].pc = "mark" /\ UNCHANGED <<owner, kind>>
    BY <1>14 DEF Mark, At, history
  <2>2. \A s \in SessionIds \ {req[h].sid}: reserve'[s] = reserve[s]
    BY <1>4, <1>14 DEF Mark, Sentinel, TypeOK
  <2> QED
    BY <1>1, <1>2, <2>1, <2>2, ReplyMoves
<1>15. CASE CallFails(h)
  <2>1. /\ AnswerError(h).sid = req[h].sid /\ AnswerError(h).dev = req[h].dev
        /\ AnswerError(h).pc = "idle"
    BY <1>2 DEF AnswerError
  <2> QED
    BY <1>1, <1>4, <1>15, <2>1, RequestFrame DEF CallFails, redis, history
<1> QED
  BY <1>3, <1>5, <1>6, <1>7, <1>8, <1>9, <1>10, <1>11, <1>12, <1>13, <1>14, <1>15 DEF Step

\* What a handler's step leaves under the key of its session.
LEMMA StepWrites ==
    ASSUME IInv, NEW h \in Handlers, Step(h)
    PROVE  \/ reserve'[req[h].sid] = reserve[req[h].sid]
           \/ /\ reserve'[req[h].sid].dev = req[h].dev
              /\ req[h].pc \in SessionSteps \cup {"mark"} \/ Claimable(h)
              /\ reserve'[req[h].sid].type \in {"free", "paid"} => req[h].pc \in SessionSteps
<1>1. req[h].sid \in SessionIds /\ reserve \in [SessionIds -> Reservation]
  BY StepMoves, Busy DEF IInv, TypeOK
<1>2. ASSUME NEW type \in {"free", "paid"}, Plant(h, type)
      PROVE  reserve'[req[h].sid] = [dev |-> req[h].dev, type |-> type, ttl |-> ReservationTTL]
  BY <1>1, <1>2 DEF Plant
<1>3. ASSUME NEW type \in {"committed-free", "committed-paid"}, Sentinel(h, type)
      PROVE  reserve'[req[h].sid] = [dev |-> req[h].dev, type |-> type, ttl |-> CommittedSentinelTTL]
  BY <1>1, <1>3 DEF Sentinel
<1>4. CASE ReserveFree(h) \/ ReservePaid(h)
  BY <1>2, <1>4 DEF ReserveFree, ReservePaid, At, redis
<1>5. CASE CommitFree(h)
  BY <1>3, <1>5 DEF CommitFree, redis
<1>6. CASE Mark(h)
  BY <1>3, <1>6 DEF Mark, At
<1>7. CASE \/ ReadPaid(h) \/ SignToken(h) \/ Lookup(h) \/ ReadUsed(h) \/ Lock(h) \/ Consume(h)
           \/ CallFails(h)
  BY <1>7 DEF ReadPaid, SignToken, Lookup, ReadUsed, Lock, Consume, CallFails, redis
<1> QED
  BY <1>4, <1>5, <1>6, <1>7 DEF Step

\* A new request is at its first call, and only the id it draws is new.
LEMMA ArriveMoves ==
    ASSUME IInv, NEW h \in Handlers, Arrive(h)
    PROVE  /\ \A g \in Handlers \ {h}: req'[g] = req[g]
           /\ req'[h].pc \in {"reserveFree", "sign", "lookup", "idle"}
           /\ req'[h].pc \in SessionSteps => owner'[req'[h].sid] = req'[h].dev
           /\ \A s \in SessionIds: owner[s] # NoDevice => owner'[s] = owner[s]
           /\ UNCHANGED <<reserve, kind, issued, charges, paid>>
<1>1. PICK d \in Devices, s \in SessionIds: Session(h, d, s) \/ DevSession(h, d, s) \/ Commit(h, d, s)
  BY DEF Arrive
<1>2. req \in [Handlers -> Request] /\ owner \in [SessionIds -> Devices \cup {NoDevice}]
  BY DEF IInv, TypeOK
<1> QED
  BY <1>1, <1>2 DEF Session, DevSession, Commit, redis

\* A session that a client has was drawn for a device.
LEMMA IssuedOwned ==
    ASSUME IInv, NEW s \in issued
    PROVE  s \in SessionIds /\ owner[s] \in Devices
  BY DEF IInv, TypeOK, Known, Keeping, SessionOK
-----------------------------------------------------------------------------
\* Whose key and whose request it is: the refinement takes a charge out of the
\* balance of the session's own device, the code out of the caller's.
Belongs ==
    /\ \A s \in SessionIds: reserve[s].type # "none" => reserve[s].dev = owner[s]
    /\ \A h \in Handlers:
          req[h].pc \in SessionSteps \cup {"lock", "consume", "mark"}
          => req[h].dev = owner[req[h].sid]

LInv == IInv /\ Belongs
-----------------------------------------------------------------------------
LEMMA InitBelongs == Init => Belongs
  BY DEF Init, Belongs, NoReservation, NoRequest

LEMMA NextBelongs == LInv /\ [Next]_vars => Belongs'
<1> SUFFICES ASSUME LInv, [Next]_vars PROVE Belongs'
  OBVIOUS
<1> USE DEF LInv
<1>1. ASSUME NEW h \in Handlers, Step(h) PROVE Belongs'
  <2>1. /\ \A g \in Handlers \ {h}: req'[g] = req[g]
        /\ req'[h].sid = req[h].sid /\ req'[h].dev = req[h].dev /\ UNCHANGED owner
        /\ req[h].sid \in SessionIds
    BY <1>1, StepMoves, Busy
  <2>2. Holds(h, "paid") \/ Claimable(h) => req[h].dev = owner[req[h].sid]
    BY <2>1 DEF Claimable, Holds, Owned, Belongs
  <2>3. req'[h].pc \in SessionSteps \cup {"lock", "consume", "mark"}
        => req'[h].dev = owner'[req'[h].sid]
    BY <1>1, <2>1, <2>2, StepMoves DEF Belongs
  <2>4. reserve'[req[h].sid].type # "none" => reserve'[req[h].sid].dev = owner[req[h].sid]
    BY <1>1, <2>1, <2>2, StepWrites DEF Belongs
  <2>5. \A s \in SessionIds \ {req[h].sid}: reserve'[s] = reserve[s]
    BY <1>1, StepMoves
  <2> QED
    BY <2>1, <2>3, <2>4, <2>5 DEF Belongs
<1>2. ASSUME NEW h \in Handlers, Arrive(h) PROVE Belongs'
  <2>1. ASSUME NEW s \in SessionIds, reserve[s].type # "none" PROVE owner[s] # NoDevice
    BY <2>1 DEF Belongs, IInv, Known, Keeping, SessionOK
  <2>2. ASSUME NEW g \in Handlers, req[g].pc \in SessionSteps \cup {"lock", "consume", "mark"}
        PROVE  req[g].sid \in SessionIds /\ owner[req[g].sid] # NoDevice
    BY <2>2, Busy, IssuedOwned DEF HandlerOK
  <2> QED
    BY <1>2, <2>1, <2>2, ArriveMoves DEF Belongs
<1>3. CASE Crash
  BY <1>3 DEF Crash, Belongs, NoRequest, redis
<1>4. CASE RedisRestart
  BY <1>4 DEF RedisRestart, Belongs, NoReservation
<1>5. CASE \E d \in Devices: Credit(d) \/ DailyReset(d)
  BY <1>5 DEF Credit, DailyReset, Belongs, redis
<1>6. CASE Tick
  <2>1. ASSUME NEW s \in SessionIds, reserve'[s].type # "none"
        PROVE  reserve'[s].dev = reserve[s].dev /\ reserve'[s].type = reserve[s].type
    <3>1. reserve'[s] = Aged(reserve[s]) /\ reserve[s] \in Reservation
      BY <1>6 DEF Tick, IInv, TypeOK
    <3> QED
      BY <2>1, <3>1 DEF Aged, NoReservation, Reservation
  <2> QED
    BY <1>6, <2>1 DEF Tick, Belongs
<1>7. CASE UNCHANGED vars
  BY <1>7 DEF vars, redis, history, Belongs
<1> QED
  BY <1>1, <1>2, <1>3, <1>4, <1>5, <1>6, <1>7 DEF Next, Untimed

LEMMA BelongsInvariance == Spec => []LInv
<1>1. Init => LInv
  BY InitInv, InitBelongs DEF LInv
<1>2. LInv /\ [Next]_vars => LInv'
  BY NextInv, NextBelongs DEF LInv
<1> QED
  BY <1>1, <1>2, PTL DEF Spec
-----------------------------------------------------------------------------
(* What a device bought *)

\* The sessions that have been drawn, and those of d that draw on its balance.
Drawn == {s \in SessionIds: owner[s] # NoDevice}
OnBalance(d) == {s \in SessionIds: owner[s] = d /\ kind[s] = "paid"}

Conserved == PaidConserved /\ IsFiniteSet(Drawn)

LEMMA OnBalanceFinite ==
    ASSUME TypeOK, IsFiniteSet(Drawn), NEW d \in Devices
    PROVE  /\ IsFiniteSet(OnBalance(d))
           /\ \A s \in SessionIds: charges[s] \in Nat
           /\ PaidChargesOf(d) = SumOver(charges, OnBalance(d)) /\ PaidChargesOf(d) \in Nat
           /\ paid[d] \in Nat /\ credited[d] \in Nat
<1>1. OnBalance(d) \subseteq Drawn
  BY DEF OnBalance, Drawn
<1>2. IsFiniteSet(OnBalance(d))
  BY <1>1, FS_Subset
<1>3. \A s \in OnBalance(d): charges[s] \in Nat
  BY DEF OnBalance, TypeOK
<1>4. PaidChargesOf(d) = SumOver(charges, OnBalance(d))
  BY DEF PaidChargesOf, OnBalance
<1>5. PaidChargesOf(d) \in Nat
  BY <1>2, <1>3, <1>4, SumType
<1> QED
  BY <1>2, <1>4, <1>5 DEF TypeOK

LEMMA InitConserved == Init => Conserved
<1> SUFFICES ASSUME Init PROVE Conserved
  OBVIOUS
<1>1. Drawn = {}
  BY DEF Init, Drawn
<1>2. IsFiniteSet(Drawn)
  BY <1>1, FS_EmptySet
<1>3. ASSUME NEW d \in Devices PROVE paid[d] + PaidChargesOf(d) = credited[d]
  <2>1. OnBalance(d) = {}
    BY DEF Init, OnBalance
  <2>2. PaidChargesOf(d) = 0
    BY <2>1, SumEmpty DEF PaidChargesOf, OnBalance
  <2> QED
    BY <2>2 DEF Init
<1> QED
  BY <1>2, <1>3 DEF Conserved, PaidConserved

\* An id that is drawn, or whose allowance is decided, has not been charged yet.
LEMMA UnchargedMove ==
    ASSUME TypeOK, TypeOK', Conserved, NEW s \in SessionIds, charges[s] = 0,
           \A t \in SessionIds \ {s}: owner'[t] = owner[t] /\ kind'[t] = kind[t],
           UNCHANGED <<charges, paid, credited>>
    PROVE  Conserved'
<1>1. Drawn' \subseteq Drawn \cup {s}
  BY DEF Drawn
<1>2. IsFiniteSet(Drawn')
  BY <1>1, FS_AddElement, FS_Subset DEF Conserved
<1>3. ASSUME NEW d \in Devices PROVE PaidChargesOf(d)' = PaidChargesOf(d)
  <2>1. IsFiniteSet(OnBalance(d)) /\ PaidChargesOf(d) = SumOver(charges, OnBalance(d))
    BY OnBalanceFinite DEF Conserved
  <2>2. OnBalance(d)' \subseteq Drawn'
    BY DEF OnBalance, Drawn
  <2>3. IsFiniteSet(OnBalance(d)')
    BY <1>2, <2>2, FS_Subset
  <2>4. PaidChargesOf(d)' = SumOver(charges, OnBalance(d)')
    BY DEF PaidChargesOf, OnBalance
  <2>5. OnBalance(d) \ {s} = OnBalance(d)' \ {s}
    BY DEF OnBalance
  <2>6. \A t \in OnBalance(d) \cup OnBalance(d)': charges[t] \in Nat
    BY DEF OnBalance, TypeOK
  <2>7. SumOver(charges, OnBalance(d)) = SumOver(charges, OnBalance(d)')
    BY <2>1, <2>3, <2>5, <2>6, SumAside
  <2> QED
    BY <2>1, <2>4, <2>7
<1> QED
  BY <1>2, <1>3 DEF Conserved, PaidConserved

\* A charge of a paid session is a bump less in the balance of its own device, and
\* a charge of a free one touches no balance.
LEMMA ChargeConserves ==
    ASSUME TypeOK, Conserved, NEW h \in Handlers, NEW s \in SessionIds, s = req[h].sid, Charge(h),
           UNCHANGED <<owner, kind, credited>>,
           \/ kind[s] = "free" /\ UNCHANGED paid
           \/ /\ kind[s] = "paid" /\ owner[s] \in Devices
              /\ paid' = [paid EXCEPT ![owner[s]] = @ - 1]
    PROVE  Conserved'
<1>1. Drawn' = Drawn
  BY DEF Drawn
<1>2. \A t \in SessionIds: charges'[t] = IF t = s THEN charges[t] + 1 ELSE charges[t]
  BY DEF Charge, TypeOK
<1>3. ASSUME NEW d \in Devices PROVE paid'[d] + PaidChargesOf(d)' = credited[d]
  <2>1. /\ IsFiniteSet(OnBalance(d)) /\ PaidChargesOf(d) = SumOver(charges, OnBalance(d))
        /\ \A t \in SessionIds: charges[t] \in Nat
        /\ PaidChargesOf(d) \in Nat /\ paid[d] \in Nat /\ credited[d] \in Nat
    BY OnBalanceFinite DEF Conserved
  <2>2. PaidChargesOf(d)' = SumOver(charges', OnBalance(d))
    BY DEF PaidChargesOf, OnBalance
  <2>3. paid[d] + PaidChargesOf(d) = credited[d]
    BY DEF Conserved, PaidConserved
  <2>4. OnBalance(d) \subseteq SessionIds
    BY DEF OnBalance
  <2>5. CASE s \in OnBalance(d)
    <3>1. paid'[d] = paid[d] - 1
      BY <2>5 DEF OnBalance, TypeOK
    <3>2. SumOver(charges', OnBalance(d)) = SumOver(charges, OnBalance(d)) + 1
      BY <1>2, <2>1, <2>4, <2>5, SumBump
    <3> QED
      BY <2>1, <2>2, <2>3, <3>1, <3>2
  <2>6. CASE s \notin OnBalance(d)
    <3>1. paid'[d] = paid[d]
      BY <2>6 DEF OnBalance, TypeOK
    <3>2. \A t \in OnBalance(d): charges[t] = charges'[t]
      BY <1>2, <2>4, <2>6
    <3>3. SumOver(charges, OnBalance(d)) = SumOver(charges', OnBalance(d))
      BY <2>1, <3>2, SumSame
    <3> QED
      BY <2>1, <2>2, <2>3, <3>1, <3>3
  <2> QED
    BY <2>5, <2>6
<1> QED
  BY <1>1, <1>3 DEF Conserved, PaidConserved

LEMMA NextConserved == LInv /\ LInv' /\ Conserved /\ [Next]_vars => Conserved'
<1> SUFFICES ASSUME LInv, LInv', Conserved, [Next]_vars PROVE Conserved'
  OBVIOUS
<1>1. TypeOK /\ TypeOK'
  BY DEF LInv, IInv
<1>2. ASSUME UNCHANGED <<owner, kind, charges, paid, credited>> PROVE Conserved'
  BY <1>2 DEF Conserved, PaidConserved, PaidChargesOf, Drawn
<1>3. ASSUME NEW h \in Handlers, Step(h) PROVE Conserved'
  <2>1. req[h].sid \in SessionIds /\ req[h].dev \in Devices /\ HandlerOK(h) /\ SessionOK(req[h].sid)
    BY <1>3, StepMoves, Busy DEF LInv
  <2>2. CASE CommitFree(h) /\ Claimable(h)
    <3>1. kind[req[h].sid] = "free"
      BY <2>1, <2>2 DEF Claimable, Holds, SessionOK
    <3>2. Charge(h) /\ UNCHANGED <<owner, kind, credited, paid>>
      BY <2>2 DEF CommitFree, AlreadyCommitted, Claimable, Holds
    <3> QED
      BY <1>1, <2>1, <3>1, <3>2, ChargeConserves
  <2>3. CASE Consume(h) /\ HasBalance(req[h].dev)
    <3>1. kind[req[h].sid] = "paid" /\ req[h].dev = owner[req[h].sid]
      BY <2>1, <2>3 DEF Consume, At, HandlerOK, LInv, Belongs
    <3>2. /\ Charge(h) /\ UNCHANGED <<owner, kind, credited>>
          /\ paid' = [paid EXCEPT ![req[h].dev] = @ - 1]
      BY <2>3 DEF Consume
    <3> QED
      BY <1>1, <2>1, <3>1, <3>2, ChargeConserves
  <2>4. CASE ReserveFree(h) \/ ReservePaid(h)
    <3>1. UNCHANGED <<charges, paid, owner, credited>>
      BY <2>4 DEF ReserveFree, ReservePaid, Plant, history
    <3>2. charges[req[h].sid] = 0
      BY <2>1, <2>4 DEF HandlerOK, SessionOK, ReserveFree, ReservePaid, At
    <3>3. \A t \in SessionIds \ {req[h].sid}: owner'[t] = owner[t] /\ kind'[t] = kind[t]
      BY <1>3, <3>1, StepMoves DEF LInv
    <3> QED
      BY <1>1, <2>1, <3>1, <3>2, <3>3, UnchargedMove
  <2>5. CASE \/ (CommitFree(h) /\ ~Claimable(h))
             \/ (Consume(h) /\ ~HasBalance(req[h].dev))
             \/ ReadPaid(h) \/ SignToken(h) \/ Lookup(h) \/ ReadUsed(h) \/ Lock(h) \/ Mark(h)
             \/ CallFails(h)
    BY <1>2, <2>5 DEF CommitFree, Consume, ReadPaid, SignToken, Lookup, ReadUsed, Lock, Mark,
       CallFails, history
  <2> QED
    BY <1>3, <2>2, <2>3, <2>4, <2>5 DEF Step
<1>4. ASSUME NEW h \in Handlers, NEW d \in Devices, NEW s \in SessionIds,
             Session(h, d, s) \/ DevSession(h, d, s)
      PROVE  Conserved'
  <2>1. owner' = [owner EXCEPT ![s] = d] /\ owner[s] = NoDevice
        /\ UNCHANGED <<kind, charges, paid, credited>>
    BY <1>4 DEF Session, DevSession
  <2>2. charges[s] = 0
    BY <2>1 DEF LInv, IInv, Known, Keeping, SessionOK
  <2>3. \A t \in SessionIds \ {s}: owner'[t] = owner[t] /\ kind'[t] = kind[t]
    BY <1>1, <2>1 DEF TypeOK
  <2> QED
    BY <1>1, <2>1, <2>2, <2>3, UnchargedMove
<1>5. ASSUME NEW d \in Devices, Credit(d) PROVE Conserved'
  <2>1. /\ paid' = [paid EXCEPT ![d] = @ + 1] /\ credited' = [credited EXCEPT ![d] = @ + 1]
        /\ UNCHANGED <<owner, kind, charges>>
    BY <1>5 DEF Credit
  <2>2. Drawn' = Drawn /\ \A e \in Devices: PaidChargesOf(e)' = PaidChargesOf(e)
    BY <2>1 DEF Drawn, PaidChargesOf
  <2>3. \A e \in Devices: /\ PaidChargesOf(e) \in Nat /\ paid[e] \in Nat /\ credited[e] \in Nat
                          /\ paid[e] + PaidChargesOf(e) = credited[e]
    BY <1>1, OnBalanceFinite DEF Conserved, PaidConserved
  <2>4. \A e \in Devices: /\ paid'[e] = IF e = d THEN paid[e] + 1 ELSE paid[e]
                          /\ credited'[e] = IF e = d THEN credited[e] + 1 ELSE credited[e]
    BY <1>1, <2>1 DEF TypeOK
  <2>5. \A e \in Devices: paid'[e] + PaidChargesOf(e)' = credited'[e]
    BY <2>2, <2>3, <2>4
  <2> QED
    BY <2>2, <2>5 DEF Conserved, PaidConserved
<1>6. CASE \/ \E h \in Handlers, d \in Devices, s \in SessionIds: Commit(h, d, s)
           \/ \E d \in Devices: DailyReset(d)
           \/ Crash \/ RedisRestart \/ Tick \/ UNCHANGED vars
  BY <1>2, <1>6 DEF Commit, DailyReset, Crash, RedisRestart, Tick, vars, history
<1> QED
  BY <1>3, <1>4, <1>5, <1>6 DEF Next, Untimed, Arrive

\* For any number of devices and sessions, and whatever fails, crashes or is sent
\* twice: what a device bought is in its balance or was charged for one of its own
\* sessions, so no commit spends another's balance and none spends without a charge.
THEOREM PaidIsConserved == Spec => []PaidConserved
<1>1. LInv /\ LInv' /\ Conserved /\ [Next]_vars => Conserved'
  BY NextConserved
<1>2. Conserved => PaidConserved
  BY DEF Conserved
<1> QED
  BY <1>1, <1>2, InitConserved, BelongsInvariance, PTL DEF Spec
-----------------------------------------------------------------------------
(* Sessions implements Ledger: every step of a handler, of time and of the *)
(* faults is a step of Ledger under the mapping of SessionsLedger.         *)

\* A step of a handler is about its own session: the others stay as they are.
LEMMA OthersStay ==
    ASSUME IInv, NEW h \in Handlers, Step(h), NEW s \in SessionIds, s # req[h].sid
    PROVE  Settled(s)' <=> Settled(s)
  BY StepMoves DEF Settled

\* A settled session is never opened again: a reservation is planted only for an
\* id that no client has, and a commit that finds no paid reservation takes no lock.
LEMMA SettledStays ==
    ASSUME IInv, [Next]_vars, NEW s \in issued, Settled(s)
    PROVE  Settled(s)'
<1>1. s \in SessionIds /\ reserve[s] \in Reservation
  BY DEF IInv, TypeOK
<1>2. ASSUME NEW h \in Handlers, Step(h) PROVE Settled(s)'
  <2>1. CASE s # req[h].sid
    BY <1>1, <1>2, <2>1, OthersStay
  <2>2. CASE s = req[h].sid
    <3>1. req[h].pc \notin SessionSteps
      BY <2>2 DEF IInv, Known, Handling, HandlerOK
    <3>2. reserve'[s].type \notin {"free", "paid"}
      BY <1>2, <2>2, <3>1, StepWrites DEF Settled
    <3>3. req[h].pc \notin {"lock", "consume"} /\ ~Holds(h, "paid")
      BY <2>2 DEF Settled, Holds
    <3>4. req'[h].pc \notin {"lock", "consume"}
      BY <1>2, <3>3, StepMoves
    <3>5. \A g \in Handlers \ {h}: req'[g] = req[g]
      BY <1>2, StepMoves
    <3> QED
      BY <3>2, <3>4, <3>5 DEF Settled
  <2> QED
    BY <2>1, <2>2
<1>3. ASSUME NEW h \in Handlers, Arrive(h) PROVE Settled(s)'
  BY <1>3, ArriveMoves DEF Settled
<1>4. CASE Crash
  BY <1>4 DEF Crash, Settled, NoRequest, redis
<1>5. CASE RedisRestart
  BY <1>1, <1>5 DEF RedisRestart, Settled, NoReservation
<1>6. CASE \E d \in Devices: Credit(d) \/ DailyReset(d)
  BY <1>6 DEF Credit, DailyReset, Settled, redis
<1>7. CASE Tick
  <2>1. reserve'[s] = Aged(reserve[s])
    BY <1>1, <1>7 DEF Tick
  <2>2. reserve'[s].type \in {"none", reserve[s].type}
    BY <1>1, <2>1 DEF Aged, NoReservation, Reservation
  <2> QED
    BY <1>7, <2>2 DEF Tick, Settled
<1>8. CASE UNCHANGED vars
  BY <1>8 DEF vars, redis, history, Settled
<1> QED
  BY <1>2, <1>3, <1>4, <1>5, <1>6, <1>7, <1>8 DEF Next, Untimed

\* A step that gives no session away, charges nothing and moves no balance can
\* only close sessions.
LEMMA Closing ==
    ASSUME IInv, [Next]_vars, UNCHANGED <<issued, charges, paid>>,
           \A s \in issued: kind'[s] = kind[s] /\ owner'[s] = owner[s]
    PROVE  L!Close
<1> DEFINE closing == {s \in issued: ~Settled(s) /\ Settled(s)'}
<1>1. issued \subseteq SessionIds
  BY DEF IInv, TypeOK
<1>2. \A s \in issued: Settled(s) => Settled(s)'
  BY SettledStays
<1>3. \A s \in SessionIds: Stage(s)' = IF s \in closing THEN "closed" ELSE Stage(s)
  BY <1>2 DEF Stage
<1>4. closing \subseteq {s \in SessionIds: Stage(s) = "open"}
  BY <1>1 DEF Stage
<1>5. \A s \in SessionIds: Given(s)' = Given(s) /\ Allowance(s)' = Allowance(s)
  BY DEF Given, Allowance
<1> HIDE DEF closing
<1> QED
  BY <1>3, <1>4, <1>5 DEF L!Close
-----------------------------------------------------------------------------
\* The steps that are more than a closing, one lemma each.

\* The answer of /session gives its session away.
LEMMA SignIsGrant ==
    ASSUME LInv, LInv', NEW h \in Handlers, SignToken(h), NEW s, s = req[h].sid
    PROVE  L!Grant(s, req[h].dev)
<1> USE DEF LInv
<1>1. /\ s \in SessionIds \ issued /\ req[h].pc = "sign" /\ req[h].dev \in Devices
      /\ req[h].dev = owner[s]
  BY Busy DEF SignToken, At, HandlerOK, Belongs
<1>2. issued' = issued \cup {s} /\ UNCHANGED <<reserve, paid, owner, kind, charges>>
  BY DEF SignToken, redis
<1>3. Step(h)
  BY DEF Step
<1>4. \A t \in SessionIds \ {s}: Stage(t)' = Stage(t)
  BY <1>2, <1>3, OthersStay DEF Stage
<1>5. Stage(s) = "fresh" /\ Stage(s)' \in {"open", "closed"}
  BY <1>1, <1>2 DEF Stage
<1>6. \A t \in SessionIds: /\ Given(t)' = IF t = s THEN req[h].dev ELSE Given(t)
                           /\ Allowance(t)' = IF t = s THEN kind[s] ELSE Allowance(t)
  BY <1>1, <1>2 DEF Given, Allowance
<1>7. kind[s] \in {"none", "free", "paid"}
  BY <1>1 DEF IInv, TypeOK
<1>8. kind[s] = "none" => Stage(s)' = "closed"
  <2>1. kind'[s] = "none" => Settled(s)'
    BY <1>1, <1>2 DEF IInv, Known, Keeping, SessionOK, Handling, HandlerOK, Settled
  <2> QED
    BY <1>2, <2>1 DEF Stage
<1> QED
  BY <1>1, <1>2, <1>4, <1>5, <1>6, <1>7, <1>8 DEF L!Grant

\* The script of a free commit that finds the reservation.
LEMMA CommitFreeIsCharge ==
    ASSUME LInv, LInv', NEW h \in Handlers, CommitFree(h), Claimable(h),
           NEW s, s = req[h].sid
    PROVE  L!ChargeFree(s)
<1> USE DEF LInv
<1>1. s \in issued /\ s \in SessionIds /\ req[h].pc = "commitFree"
  BY Busy DEF CommitFree, At, HandlerOK
<1>2. reserve[s].type = "free" /\ kind[s] = "free"
  BY <1>1 DEF Claimable, Holds, IInv, Known, Keeping, SessionOK
<1>3. /\ Sentinel(h, "committed-free") /\ Charge(h)
      /\ UNCHANGED <<paid, owner, kind, issued>>
  BY DEF CommitFree, AlreadyCommitted, Claimable, Holds
<1>4. Step(h)
  BY DEF Step
<1>5. \A t \in SessionIds \ {s}: Stage(t)' = Stage(t)
  BY <1>3, <1>4, OthersStay DEF Stage
<1>6. Stage(s) = "open"
  BY <1>1, <1>2 DEF Stage, Settled
<1>7. Stage(s)' = "closed"
  <2>1. reserve'[s].type = "committed-free"
    BY <1>1, <1>3 DEF Sentinel, IInv, TypeOK
  <2>2. \A g \in Handlers: req'[g].sid = s => req'[g].pc \notin {"lock", "consume"}
    BY <1>2, <1>3 DEF IInv, Known, Handling, HandlerOK
  <2> QED
    BY <1>1, <1>3, <2>1, <2>2 DEF Stage, Settled
<1>8. charges' = [charges EXCEPT ![s] = @ + 1]
  BY <1>3 DEF Charge
<1>9. \A t \in SessionIds: Given(t)' = Given(t) /\ Allowance(t)' = Allowance(t)
  BY <1>3 DEF Given, Allowance
<1>10. Allowance(s) = "free"
  BY <1>1, <1>2 DEF Allowance
<1> QED
  BY <1>1, <1>3, <1>5, <1>6, <1>7, <1>8, <1>9, <1>10 DEF L!ChargeFree

\* A paid commit that holds the lock and finds a balance.
LEMMA ConsumeIsCharge ==
    ASSUME LInv, NEW h \in Handlers, Consume(h), HasBalance(req[h].dev),
           NEW s, s = req[h].sid
    PROVE  L!ChargePaid(s)
<1> USE DEF LInv
<1>1. /\ s \in issued /\ s \in SessionIds /\ req[h].pc = "consume" /\ kind[s] = "paid"
      /\ req[h].dev \in Devices /\ req[h].dev = owner[s]
  BY Busy DEF Consume, At, HandlerOK, Belongs
<1>2. /\ paid' = [paid EXCEPT ![req[h].dev] = @ - 1] /\ Charge(h)
      /\ UNCHANGED <<owner, kind, issued>>
  BY DEF Consume
<1>3. Step(h)
  BY DEF Step
<1>4. \A t \in SessionIds \ {s}: Stage(t)' = Stage(t)
  BY <1>2, <1>3, OthersStay DEF Stage
<1>5. Stage(s) = "open"
  BY <1>1 DEF Stage, Settled
<1>6. Stage(s)' \in {"open", "closed"}
  BY <1>1, <1>2 DEF Stage
<1>7. charges' = [charges EXCEPT ![s] = @ + 1]
  BY <1>2 DEF Charge
<1>8. \A t \in SessionIds: Given(t)' = Given(t) /\ Allowance(t)' = Allowance(t)
  BY <1>2 DEF Given, Allowance
<1>9. Allowance(s) = "paid" /\ Given(s) = req[h].dev /\ paid[req[h].dev] > 0
  BY <1>1 DEF Allowance, Given, HasBalance
<1> QED
  BY <1>1, <1>2, <1>4, <1>5, <1>6, <1>7, <1>8, <1>9 DEF L!ChargePaid
-----------------------------------------------------------------------------
LEMMA InitLedger == Init => L!Init
  BY DEF Init, L!Init, Stage, Given, Allowance

LEMMA NextLedger == LInv /\ LInv' /\ [Next]_vars => [L!Next]_L!vars
<1> SUFFICES ASSUME LInv, LInv', [Next]_vars PROVE [L!Next]_L!vars
  OBVIOUS
<1>1. ASSUME UNCHANGED <<issued, charges, paid>>,
             \A s \in issued: kind'[s] = kind[s] /\ owner'[s] = owner[s]
      PROVE  L!Next
  BY <1>1, Closing DEF LInv, L!Next
<1>2. ASSUME NEW h \in Handlers, Step(h) PROVE L!Next
  <2>1. req[h].sid \in SessionIds /\ req[h].dev \in Devices /\ HandlerOK(h)
    BY <1>2, StepMoves, Busy DEF LInv
  <2>2. CASE SignToken(h)
    BY <2>1, <2>2, SignIsGrant DEF L!Next
  <2>3. CASE CommitFree(h) /\ Claimable(h)
    BY <2>1, <2>3, CommitFreeIsCharge DEF L!Next
  <2>4. CASE Consume(h) /\ HasBalance(req[h].dev)
    BY <2>1, <2>4, ConsumeIsCharge DEF L!Next
  <2>5. CASE ReserveFree(h) \/ ReservePaid(h)
    <3>1. UNCHANGED <<issued, charges, paid, owner>>
      BY <2>5 DEF ReserveFree, ReservePaid, Plant, history
    <3>2. req[h].sid \notin issued
      BY <2>1, <2>5 DEF HandlerOK, ReserveFree, ReservePaid, At
    <3>3. \A s \in issued: kind'[s] = kind[s]
      BY <1>2, <3>2, StepMoves DEF LInv, IInv, TypeOK
    <3> QED
      BY <1>1, <3>1, <3>3
  <2>6. CASE \/ CommitFree(h) /\ ~Claimable(h)
             \/ Consume(h) /\ ~HasBalance(req[h].dev)
             \/ ReadPaid(h) \/ Lookup(h) \/ ReadUsed(h) \/ Lock(h) \/ Mark(h) \/ CallFails(h)
    BY <1>1, <2>6 DEF CommitFree, Consume, ReadPaid, Lookup, ReadUsed, Lock, Mark, CallFails, history
  <2> QED
    BY <1>2, <2>2, <2>3, <2>4, <2>5, <2>6 DEF Step
<1>3. ASSUME NEW h \in Handlers, Arrive(h) PROVE L!Next
  <2>1. \A s \in issued: s \in SessionIds /\ owner[s] # NoDevice
    BY IssuedOwned DEF LInv
  <2> QED
    BY <1>1, <1>3, <2>1, ArriveMoves DEF LInv
<1>4. ASSUME NEW d \in Devices, Credit(d) PROVE L!Next
  <2>1. /\ paid' = [paid EXCEPT ![d] = @ + 1]
        /\ UNCHANGED <<reserve, req, owner, kind, issued, charges>>
    BY <1>4 DEF Credit, redis
  <2>2. \A s \in SessionIds:
           Stage(s)' = Stage(s) /\ Given(s)' = Given(s) /\ Allowance(s)' = Allowance(s)
    BY <2>1 DEF Stage, Settled, Given, Allowance
  <2>3. L!Deposit(d)
    BY <2>1, <2>2 DEF L!Deposit
  <2> QED
    BY <2>3 DEF L!Next
<1>5. CASE Crash \/ RedisRestart \/ Tick \/ (\E d \in Devices: DailyReset(d))
  BY <1>1, <1>5 DEF Crash, RedisRestart, Tick, DailyReset
<1>6. CASE UNCHANGED vars
  BY <1>1, <1>6 DEF vars, history
<1> QED
  BY <1>2, <1>3, <1>4, <1>5, <1>6 DEF Next, Untimed

\* For any number of devices, sessions and handlers, and whatever calls fail, are
\* lost or are sent again, the handlers of /session and /session/commit implement
\* Ledger: they charge open sessions only, for their own device, and reopen none.
THEOREM LedgerKept == Spec => ImplementsLedger
  BY InitLedger, NextLedger, BelongsInvariance, PTL DEF Spec, ImplementsLedger, L!Spec

\* Only a session that is not settled is charged.
LEMMA SettledUncharged ==
    ASSUME IInv, [Next]_vars, NEW s \in SessionIds, Settled(s)
    PROVE  charges'[s] = charges[s]
<1>1. ASSUME NEW h \in Handlers, Step(h) PROVE charges'[s] = charges[s]
  <2>1. CASE CommitFree(h) /\ Claimable(h)
    <3>1. s # req[h].sid
      BY <2>1 DEF Claimable, Holds, Settled
    <3> QED
      BY <2>1, <3>1 DEF CommitFree, AlreadyCommitted, Claimable, Holds, Charge, IInv, TypeOK
  <2>2. CASE Consume(h) /\ HasBalance(req[h].dev)
    <3>1. s # req[h].sid
      BY <2>2 DEF Consume, At, Settled
    <3> QED
      BY <2>2, <3>1 DEF Consume, Charge, IInv, TypeOK
  <2>3. CASE ~(CommitFree(h) /\ Claimable(h)) /\ ~(Consume(h) /\ HasBalance(req[h].dev))
    BY <1>1, <2>3 DEF Step, ReserveFree, ReadPaid, ReservePaid, SignToken, Lookup, CommitFree,
                      ReadUsed, Lock, Consume, Mark, CallFails, Plant, history
  <2> QED
    BY <2>1, <2>2, <2>3
<1>2. CASE \/ \E h \in Handlers: Arrive(h)
           \/ \E d \in Devices: Credit(d) \/ DailyReset(d)
           \/ Crash \/ RedisRestart \/ Tick \/ UNCHANGED vars
  BY <1>2 DEF Arrive, Session, DevSession, Commit, Credit, DailyReset, Crash, RedisRestart, Tick,
              vars, history
<1> QED
  BY <1>1, <1>2 DEF Next, Untimed

\* A session that has been given to a client and is settled stays so: no retry, late
\* commit or restart opens it again, and it is never charged again.  What is left of
\* ChargesSettle is that a session is settled at some time.
SettledForGood ==
    [][\A s \in issued: Settled(s) => Settled(s)' /\ charges'[s] = charges[s]]_vars

\* Whatever fails and whoever commits how often, a settled session is settled for good
\* (the scripts of redis.go and the order of the calls in session_commit.go).
THEOREM SettledIsFinal == Spec => SettledForGood
<1>1. IInv /\ [Next]_vars =>
        [\A s \in issued: Settled(s) => Settled(s)' /\ charges'[s] = charges[s]]_vars
  BY SettledStays, SettledUncharged DEF IInv, TypeOK
<1> QED
  BY <1>1, Invariance, PTL DEF Spec, SettledForGood
=============================================================================
