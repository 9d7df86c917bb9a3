------------------------------ MODULE Sessions ------------------------------
(***************************************************************************)
(* POST /session and POST /session/commit over their two stores.           *)
(*                                                                         *)
(* /session reserves a bump (handlers/session.go), /session/commit charges *)
(* it (handlers/session_commit.go).  Redis holds the reservation, the      *)
(* daily counter of free bumps and the paid commit lock (cache/redis.go);  *)
(* Postgres holds the paid balance (db/queries.go).  A handler is a        *)
(* goroutine that makes one store call after the other; every store call   *)
(* is one action, and other handlers, expiry, midnight and a crash may     *)
(* come between two of them.                                               *)
(*                                                                         *)
(* Time is counted in ticks.  A key set with a time to live of n ticks     *)
(* disappears at the n-th tick after it was set.                           *)
(***************************************************************************)
EXTENDS Integers, Sums

CONSTANTS
    Devices,              \* device hashes
    SessionIds,           \* the ids newSessionID can draw
    Handlers,             \* the requests the server can be serving at once
    DevAllowlist,         \* BUMP_DEV_DEVICE_HASHES
    FreeBumpsPerDay,      \* FREE_BUMPS_PER_DAY
    ReservationTTL,       \* 60 s, in ticks
    CommittedSentinelTTL, \* 10 s, in ticks
    CommitLockTTL,        \* 30 s, in ticks
    MaxCredits,           \* bound: how often /verify credits a device
    Faults,               \* which store calls can fail, and how
    CrashAllowed,         \* whether the process can die with requests in flight
    RedisForgets,         \* whether Redis can restart without its data
    NoDevice,
    NoSession

SessionSteps == {"reserveFree", "readPaid", "reservePaid", "sign"}
CommitSteps == {"lookup", "commitFree", "readUsed", "lock", "consume", "mark"}
Steps == SessionSteps \cup CommitSteps

(***************************************************************************)
(* A call "error"s when the store did not execute it, and is "lost" when   *)
(* the store did but the handler sees an error (a broken connection, a     *)
(* request context cancelled because the client hung up).  The Redis       *)
(* client re-sends a command whose connection broke: "resend" is a call    *)
(* that was executed and that the handler makes once more.                 *)
(***************************************************************************)
FaultKinds == {"error", "lost", "resend"}

ASSUME QuotaAssumption == FreeBumpsPerDay \in Nat /\ MaxCredits \in Nat
ASSUME TTLAssumption == /\ ReservationTTL \in Nat \ {0}
                        /\ CommittedSentinelTTL \in Nat \ {0}
                        /\ CommitLockTTL \in Nat \ {0}
ASSUME DeviceAssumption == DevAllowlist \subseteq Devices /\ NoDevice \notin Devices
ASSUME SessionAssumption == NoSession \notin SessionIds
ASSUME FaultAssumption == Faults \subseteq Steps \X FaultKinds /\ CrashAllowed \in BOOLEAN
ASSUME RestartAssumption == RedisForgets \in BOOLEAN

VARIABLES
    reserve,     \* reserve:<sid>, Redis: device, type and remaining time to live
    daily,       \* daily:<dh>, Redis: free bumps charged since the last reset
    commitlock,  \* commitlock:<sid>, Redis: remaining time to live, 0 when free
    paid,        \* device_bumps.paid_balance, Postgres
    req,         \* what each handler is doing
    owner,       \* the device a session id was drawn for
    kind,        \* the allowance the session's reservation drew on
    issued,      \* the session ids a 200 of /session has given to a client
    charges,     \* how often a session has been charged
    billed,      \* the handlers whose current or last request charged
    credited,    \* how often /verify has credited a device
    fullFor      \* ticks for which a device has been at its daily limit

redis == <<reserve, daily, commitlock>>
history == <<owner, kind, issued, charges, billed, credited, fullFor>>
vars == <<redis, paid, req, history>>

ReservationTypes == {"none", "free", "paid", "committed-free", "committed-paid"}
NoReservation == [dev |-> NoDevice, type |-> "none", ttl |-> 0]
NoRequest == [op |-> "none", pc |-> "idle", dev |-> NoDevice, sid |-> NoSession, resp |-> 0]

Reservation == [dev: Devices \cup {NoDevice}, type: ReservationTypes, ttl: Nat]
Request == [op: {"none", "session", "commit"}, pc: Steps \cup {"idle"},
            dev: Devices \cup {NoDevice}, sid: SessionIds \cup {NoSession}, resp: Nat]

Init ==
    /\ reserve = [s \in SessionIds |-> NoReservation]
    /\ daily = [d \in Devices |-> 0]
    /\ commitlock = [s \in SessionIds |-> 0]
    /\ paid = [d \in Devices |-> 0]
    /\ req = [h \in Handlers |-> NoRequest]
    /\ owner = [s \in SessionIds |-> NoDevice]
    /\ kind = [s \in SessionIds |-> "none"]
    /\ issued = {}
    /\ charges = [s \in SessionIds |-> 0]
    /\ billed = {}
    /\ credited = [d \in Devices |-> 0]
    /\ fullFor = [d \in Devices |-> 0]
-----------------------------------------------------------------------------
At(h, step) == req[h].pc = step
Live(s) == reserve[s].ttl > 0

HasRoomAtLimit(d) == daily[d] <= FreeBumpsPerDay
HasRoom(d) == daily[d] < FreeBumpsPerDay

HasBalanceAlways(d) == TRUE
HasBalance(d) == paid[d] > 0

LockFreeAlways(s) == TRUE
LockFree(s) == commitlock[s] = 0

Goto(h, step) == [req[h] EXCEPT !.pc = step]
Answer(h, code) == [req[h] EXCEPT !.pc = "idle", !.resp = code]

AnswerErrorAlways503(h) == Answer(h, 503)
AnswerErrorUnlessConsume(h) == IF At(h, "consume") THEN Goto(h, "mark") ELSE Answer(h, 503)

\* What the handler answers when the call of its current step reports an error.
\* A failed sentinel write is only logged; a failed signature is a 500.
AnswerError(h) ==
    Answer(h, CASE At(h, "mark") -> 200 [] At(h, "sign") -> 500 [] OTHER -> 503)

\* The store executed the call of h; its reply takes h to the request record
\* next, unless the reply is lost or the client sends the command once more.
Reply(h, next) ==
    \/ req' = [req EXCEPT ![h] = next]
    \/ /\ <<req[h].pc, "lost">> \in Faults
       /\ req' = [req EXCEPT ![h] = AnswerError(h)]
    \/ /\ <<req[h].pc, "resend">> \in Faults
       /\ UNCHANGED req

\* The store did not execute the call of h.
CallFails(h) ==
    /\ <<req[h].pc, "error">> \in Faults
    /\ req' = [req EXCEPT ![h] = AnswerError(h)]
    /\ UNCHANGED <<redis, paid, history>>
-----------------------------------------------------------------------------
(* POST /session *)

\* A device that is neither blocked nor rate limited asks for a session.
\* The id is drawn from 16 random bytes: it has not been drawn before.
Session(h, d, s) ==
    /\ At(h, "idle")
    /\ d \notin DevAllowlist
    /\ owner[s] = NoDevice
    /\ owner' = [owner EXCEPT ![s] = d]
    /\ req' = [req EXCEPT ![h] = [op |-> "session", pc |-> "reserveFree",
                                  dev |-> d, sid |-> s, resp |-> 0]]
    /\ billed' = billed \ {h}
    /\ UNCHANGED <<redis, paid, kind, issued, charges, credited, fullFor>>

\* A device of the allowlist gets a session without any reservation.
DevSession(h, d, s) ==
    /\ At(h, "idle")
    /\ d \in DevAllowlist
    /\ owner[s] = NoDevice
    /\ owner' = [owner EXCEPT ![s] = d]
    /\ req' = [req EXCEPT ![h] = [op |-> "session", pc |-> "sign",
                                  dev |-> d, sid |-> s, resp |-> 0]]
    /\ billed' = billed \ {h}
    /\ UNCHANGED <<redis, paid, kind, issued, charges, credited, fullFor>>

\* SET reserve:<sid> <dev>|<type> NX EX 60, for the session of h.
Plant(h, type) ==
    /\ reserve' = [reserve EXCEPT ![req[h].sid] =
                      [dev |-> req[h].dev, type |-> type, ttl |-> ReservationTTL]]
    /\ kind' = [kind EXCEPT ![req[h].sid] = type]
    /\ UNCHANGED <<daily, commitlock, paid, owner, issued, charges, billed, credited, fullFor>>

\* The script of TryReserveFreeBump: room today, then SET NX.
ReserveFree(h) ==
    /\ At(h, "reserveFree")
    /\ \/ /\ ~HasRoom(req[h].dev)
          /\ Reply(h, Goto(h, "readPaid"))
          /\ UNCHANGED <<redis, paid, history>>
       \/ /\ HasRoom(req[h].dev) /\ Live(req[h].sid)
          /\ Reply(h, Answer(h, 503))
          /\ UNCHANGED <<redis, paid, history>>
       \/ /\ HasRoom(req[h].dev) /\ ~Live(req[h].sid)
          /\ Plant(h, "free")
          /\ Reply(h, Goto(h, "sign"))

ReadPaid(h) ==
    /\ At(h, "readPaid")
    /\ Reply(h, IF HasBalance(req[h].dev) THEN Goto(h, "reservePaid") ELSE Answer(h, 403))
    /\ UNCHANGED <<redis, paid, history>>

ReservePaid(h) ==
    /\ At(h, "reservePaid")
    /\ \/ /\ Live(req[h].sid)
          /\ Reply(h, Answer(h, 503))
          /\ UNCHANGED <<redis, paid, history>>
       \/ /\ ~Live(req[h].sid)
          /\ Plant(h, "paid")
          /\ Reply(h, Goto(h, "sign"))

\* Balances for the body, the session log and the token; only an error of the
\* signer stops the 200 that hands the session id to the client.
SignToken(h) ==
    /\ At(h, "sign")
    /\ req' = [req EXCEPT ![h] = Answer(h, 200)]
    /\ issued' = issued \cup {req[h].sid}
    /\ UNCHANGED <<redis, paid, owner, kind, charges, billed, credited, fullFor>>
-----------------------------------------------------------------------------
(* POST /session/commit *)

\* Any device may present any session id a client was given.
Commit(h, d, s) ==
    /\ At(h, "idle")
    /\ s \in issued
    /\ req' = [req EXCEPT ![h] =
                  [op |-> "commit", dev |-> d, sid |-> s,
                   pc |-> IF d \in DevAllowlist THEN "idle" ELSE "lookup",
                   resp |-> IF d \in DevAllowlist THEN 200 ELSE 0]]
    /\ billed' = billed \ {h}
    /\ UNCHANGED <<redis, paid, owner, kind, issued, charges, credited, fullFor>>

OwnedByAnyone(h) == TRUE
Owned(h) == reserve[req[h].sid].dev = req[h].dev

\* The caller's reservation, of the given type, is there.
Holds(h, type) == Live(req[h].sid) /\ Owned(h) /\ reserve[req[h].sid].type = type

\* GetReservation and the switch on what it returned.
Routed(h) ==
    CASE ~Live(req[h].sid) -> Answer(h, 410)
      [] Live(req[h].sid) /\ ~Owned(h) -> Answer(h, 403)
      [] Holds(h, "free") -> Goto(h, "commitFree")
      [] Holds(h, "paid") -> Goto(h, "lock")
      [] Holds(h, "committed-free") \/ Holds(h, "committed-paid") -> Answer(h, 200)
      [] OTHER -> Answer(h, 500)

Lookup(h) ==
    /\ At(h, "lookup")
    /\ Reply(h, Routed(h))
    /\ UNCHANGED <<redis, paid, history>>

\* The sentinel a charge leaves under the reservation's key.
Sentinel(h, type) ==
    reserve' = [reserve EXCEPT ![req[h].sid] =
                   [dev |-> req[h].dev, type |-> type, ttl |-> CommittedSentinelTTL]]

Charge(h) ==
    /\ charges' = [charges EXCEPT ![req[h].sid] = @ + 1]
    /\ billed' = billed \cup {h}

ClaimableOnTrust(h) == Live(req[h].sid)
AlreadyCommittedOrGone(h) == ~Holds(h, "free")

\* Whether the script of CommitFreeBump still finds what the lookup saw, or
\* finds that another commit of the session got there first.
Claimable(h) == Holds(h, "free")
AlreadyCommitted(h) == Holds(h, "committed-free")

CommitFree(h) ==
    /\ At(h, "commitFree")
    /\ \/ /\ Claimable(h)
          /\ daily' = [daily EXCEPT ![req[h].dev] = @ + 1]
          /\ Sentinel(h, "committed-free")
          /\ Charge(h)
          /\ Reply(h, Answer(h, 200))
          /\ UNCHANGED <<commitlock, paid, owner, kind, issued, credited, fullFor>>
       \/ /\ AlreadyCommitted(h)
          /\ Reply(h, Goto(h, "readUsed"))
          /\ UNCHANGED <<redis, paid, history>>
       \/ /\ ~Claimable(h) /\ ~AlreadyCommitted(h)
          /\ Reply(h, Answer(h, 410))
          /\ UNCHANGED <<redis, paid, history>>

\* The GET that follows "already committed": its error is reported.
ReadUsed(h) ==
    /\ At(h, "readUsed")
    /\ Reply(h, Answer(h, 200))
    /\ UNCHANGED <<redis, paid, history>>

\* AcquirePaidCommitLock.  A busy lock is answered with 200.
Lock(h) ==
    /\ At(h, "lock")
    /\ \/ /\ LockFree(req[h].sid)
          /\ commitlock' = [commitlock EXCEPT ![req[h].sid] = CommitLockTTL]
          /\ Reply(h, Goto(h, "consume"))
          /\ UNCHANGED <<reserve, daily, paid, history>>
       \/ /\ ~LockFree(req[h].sid)
          /\ Reply(h, Answer(h, 200))
          /\ UNCHANGED <<redis, paid, history>>

NoBalanceIgnored(h) == Goto(h, "mark")
NoBalance(h) == Answer(h, 409)

\* TryConsumePaidBump.
Consume(h) ==
    /\ At(h, "consume")
    /\ \/ /\ HasBalance(req[h].dev)
          /\ paid' = [paid EXCEPT ![req[h].dev] = @ - 1]
          /\ Charge(h)
          /\ Reply(h, Goto(h, "mark"))
          /\ UNCHANGED <<redis, owner, kind, issued, credited, fullFor>>
       \/ /\ ~HasBalance(req[h].dev)
          /\ Reply(h, NoBalance(h))
          /\ UNCHANGED <<redis, paid, history>>

\* MarkPaidCommitted: an unconditional SET, whatever has become of the key.
Mark(h) ==
    /\ At(h, "mark")
    /\ Sentinel(h, "committed-paid")
    /\ Reply(h, Answer(h, 200))
    /\ UNCHANGED <<daily, commitlock, paid, history>>
-----------------------------------------------------------------------------
(* The environment *)

\* /verify credits a device (module Purchases).
Credit(d) ==
    /\ credited[d] < MaxCredits
    /\ credited' = [credited EXCEPT ![d] = @ + 1]
    /\ paid' = [paid EXCEPT ![d] = @ + 1]
    /\ UNCHANGED <<redis, req, owner, kind, issued, charges, billed, fullFor>>

\* The daily counter of d expires.  That may be at any time here: module
\* DailyCounter says when it is.
DailyReset(d) ==
    /\ daily[d] > 0
    /\ daily' = [daily EXCEPT ![d] = 0]
    /\ fullFor' = [fullFor EXCEPT ![d] = 0]
    /\ UNCHANGED <<reserve, commitlock, paid, req,
                   owner, kind, issued, charges, billed, credited>>

\* The process dies, or main returns while handlers run: Redis and Postgres
\* keep what was written, nobody is answered.
Crash ==
    /\ CrashAllowed
    /\ \E h \in Handlers: req[h].pc # "idle"
    /\ req' = [h \in Handlers |-> NoRequest]
    /\ billed' = {}
    /\ UNCHANGED <<redis, paid, owner, kind, issued, charges, credited, fullFor>>

\* Redis restarts without its data, between two commands of the handlers, which
\* the client library connects again.  Postgres and the handlers go on.
RedisRestart ==
    /\ RedisForgets
    /\ reserve' = [s \in SessionIds |-> NoReservation]
    /\ daily' = [d \in Devices |-> 0]
    /\ commitlock' = [s \in SessionIds |-> 0]
    /\ fullFor' = [d \in Devices |-> 0]
    /\ UNCHANGED <<paid, req, owner, kind, issued, charges, billed, credited>>

AgedUnlessFree(r) ==
    CASE r.type = "free" \/ r.ttl = 0 -> r
      [] r.ttl = 1 -> NoReservation
      [] OTHER -> [r EXCEPT !.ttl = @ - 1]
Aged(r) == IF r.ttl > 1 THEN [r EXCEPT !.ttl = @ - 1] ELSE NoReservation

\* One tick of the clock of Redis.
Tick ==
    /\ reserve' = [s \in SessionIds |-> Aged(reserve[s])]
    /\ commitlock' = [s \in SessionIds |->
                         IF LockFree(s) THEN 0 ELSE commitlock[s] - 1]
    /\ fullFor' = [d \in Devices |->
                      IF daily[d] < FreeBumpsPerDay THEN 0
                      ELSE IF fullFor[d] < ReservationTTL THEN fullFor[d] + 1
                      ELSE ReservationTTL]
    /\ UNCHANGED <<daily, paid, req, owner, kind, issued, charges, billed, credited>>

Step(h) ==
    \/ ReserveFree(h) \/ ReadPaid(h) \/ ReservePaid(h) \/ SignToken(h)
    \/ Lookup(h) \/ CommitFree(h) \/ ReadUsed(h) \/ Lock(h) \/ Consume(h) \/ Mark(h)
    \/ CallFails(h)

Arrive(h) ==
    \E d \in Devices, s \in SessionIds:
        Session(h, d, s) \/ DevSession(h, d, s) \/ Commit(h, d, s)

\* Everything that happens between two ticks.
Untimed ==
    \/ \E h \in Handlers: Arrive(h) \/ Step(h)
    \/ \E d \in Devices: Credit(d) \/ DailyReset(d)
    \/ Crash
    \/ RedisRestart

Next == Untimed \/ Tick

Spec == Init /\ [][Next]_vars

\* A running goroutine goes on and time passes.  Nobody has to send a request.
Fairness == WF_vars(Tick) /\ \A h \in Handlers: WF_vars(Step(h))
FairSpec == Spec /\ Fairness
-----------------------------------------------------------------------------
(* Properties *)

\* The stores and the requests hold what their types allow; a paid balance is
\* never negative (the CHECK of device_bumps, kept by TryConsumePaidBump).
TypeOK ==
    /\ reserve \in [SessionIds -> Reservation]
    /\ daily \in [Devices -> Nat]
    /\ commitlock \in [SessionIds -> 0..CommitLockTTL]
    /\ paid \in [Devices -> Nat]
    /\ req \in [Handlers -> Request]
    /\ owner \in [SessionIds -> Devices \cup {NoDevice}]
    /\ kind \in [SessionIds -> {"none", "free", "paid"}]
    /\ issued \subseteq SessionIds
    /\ charges \in [SessionIds -> Nat]
    /\ billed \subseteq Handlers
    /\ credited \in [Devices -> Nat]
    /\ fullFor \in [Devices -> 0..ReservationTTL]

\* A session that reserved a free bump is charged at most once, however many
\* commits of it run at once, are retried, re-sent or cut short (the script of
\* CommitFreeBump).
FreeChargedAtMostOnce ==
    \A s \in SessionIds: kind[s] = "free" => charges[s] <= 1

\* A commit of a free session is answered with 200 only if the session has been
\* charged: the replay, "already committed" and late paths of the handler report
\* no success for a reservation that merely expired.
FreeOkMeansCharged ==
    \A h \in Handlers:
        (/\ At(h, "idle") /\ req[h].op = "commit" /\ req[h].resp = 200
         /\ req[h].dev \notin DevAllowlist /\ kind[req[h].sid] = "free")
        => charges[req[h].sid] >= 1

\* A committed sentinel is found only for a session that has been charged, so the
\* replay branches of the commit handler never wave an unpaid bump through.
CommittedMeansCharged ==
    \A s \in SessionIds:
        reserve[s].type \in {"committed-free", "committed-paid"} => charges[s] >= 1

\* The paid charges of the sessions drawn for d.
PaidChargesOf(d) ==
    SumOver(charges, {s \in SessionIds: owner[s] = d /\ kind[s] = "paid"})

\* What a device bought is either still in its balance or was charged for one
\* of its own sessions: no commit spends another device's balance, and none is
\* spent without a charge.
PaidConserved == \A d \in Devices: paid[d] + PaidChargesOf(d) = credited[d]

\* Reservations granted while there was room may be committed after the daily
\* limit is reached, but only for as long as a reservation lives: the overshoot
\* window that reserving without counting opens is ReservationTTL long.
OvershootWindow ==
    [][\A d \in Devices:
          (daily'[d] > daily[d] /\ daily[d] >= FreeBumpsPerDay)
          => fullFor[d] < ReservationTTL]_vars

\* A commit that is answered with an error has not charged the device
\* (docs/PRODUCTION_VERIFICATION.md: "Failure of /session/commit should not
\* charge the user").
ErrorMeansNotCharged ==
    \A h \in Handlers:
        (At(h, "idle") /\ req[h].op = "commit" /\ req[h].resp >= 400) => h \notin billed

\* Nothing is left that could charge the session: no reservation that a commit
\* could find, and no paid commit that has already found one.
Settled(s) ==
    /\ reserve[s].type \notin {"free", "paid"}
    /\ \A h \in Handlers: req[h].sid = s => req[h].pc \notin {"lock", "consume"}

\* The charge of every session is settled for good in the end, whatever calls
\* fail and whether or not the client ever commits: no session stays open.
ChargesSettle == \A s \in SessionIds: s \in issued ~> []Settled(s)

\* A paid session is charged at most once (session_commit.go: "so we can't
\* double-decrement").  The code does not keep this.
PaidChargedAtMostOnce ==
    \A s \in SessionIds: kind[s] = "paid" => charges[s] <= 1
=============================================================================
