------------------------------ MODULE Balances ------------------------------
(***************************************************************************)
(* The balances that replies show: free_remaining and paid_balance of      *)
(* GET /bumps and of the 200s of /session, /session/commit and /verify,    *)
(* in the server process of Lifecycle.                                     *)
(*                                                                         *)
(* The free count comes from Redis and the paid balance from Postgres, in  *)
(* two calls; between them other requests charge, /verify credits,         *)
(* midnight strikes, and main may close the stores.  What a failed read is *)
(* worth differs from handler to handler: 503, 0, or the full quota.  A    *)
(* purchase that /verify refuses is answered with 200 and 0 for both,      *)
(* whatever the device has.                                                *)
(***************************************************************************)
EXTENDS Lifecycle

CONSTANTS
    Devices,
    DevAllowlist,     \* BUMP_DEV_DEVICE_HASHES
    FreeBumpsPerDay,  \* FREE_BUMPS_PER_DAY
    MaxUsed,          \* bound: the daily counter, which commits take past the limit
    MaxPaid,          \* bound: the paid balance of a device
    Outages,          \* the stores a call to which can fail while they are open
    NoDevice

ASSUME QuotaAssumption ==
    FreeBumpsPerDay \in Nat /\ MaxUsed \in Nat /\ MaxPaid \in Nat /\ FreeBumpsPerDay <= MaxUsed
ASSUME DeviceAssumption == DevAllowlist \subseteq Devices /\ NoDevice \notin Devices
ASSUME OutageAssumption == Outages \subseteq {"redis", "database"}

VARIABLES
    used,   \* daily:<dh> in Redis
    paid,   \* device_bumps.paid_balance in Postgres
    reply,  \* the balances each request has gathered so far, or has shown
    seen    \* what the stores held of the device while the request ran

balances == <<used, paid, reply, seen>>

\* "recommit" stands for the branches of /session/commit that charge no free bump:
\* a replay, a busy lock, a paid commit.
Operations == {"bumps", "session", "commit", "recommit", "verify"}
Reads == {"used", "reserve", "script", "balance", "reservePaid",
          "replay", "check", "credit", "paid"}
NoReply == [op |-> "none", pc |-> "idle", dev |-> NoDevice, free |-> 0, paid |-> 0,
            resp |-> 0, unread |-> {}, refused |-> FALSE]

BalancesInit ==
    /\ Init
    /\ used \in [Devices -> 0..MaxUsed]
    /\ paid \in [Devices -> 0..MaxPaid]
    /\ reply = [h \in Handlers |-> NoReply]
    /\ seen = [h \in Handlers |-> [used |-> {}, paid |-> {}]]
-----------------------------------------------------------------------------
Dev(h) == reply[h].dev
At(h, read) == req[h] = "running" /\ reply[h].pc = read

CanAnswer(store) == store \in open
CanFail(store) == store \notin open \/ store \in Outages

\* The limit less what was used, and the same without going below zero.
Left(u) == FreeBumpsPerDay - u
ClampedNever(u) == Left(u)
Clamped(u) == IF Left(u) < 0 THEN 0 ELSE Left(u)

\* The handler goes on to its next call, or is done with the given status.
Gather(h, next) ==
    /\ reply' = [reply EXCEPT ![h] = next]
    /\ UNCHANGED vars
Answer(h, last, code) ==
    /\ reply' = [reply EXCEPT ![h] = [last EXCEPT !.pc = "idle", !.resp = code]]
    /\ Finish(h)

\* The stores as they are become part of what running requests have seen of them.
Witness(now, balance) ==
    seen' = [h \in Handlers |->
                IF req[h] = "running" /\ req'[h] = "running"
                THEN [used |-> seen[h].used \cup {now[Dev(h)]},
                      paid |-> seen[h].paid \cup {balance[Dev(h)]}]
                ELSE seen[h]]
StoresStay == UNCHANGED <<used, paid>> /\ UNCHANGED seen

FirstRead(op) ==
    CASE op \in {"bumps", "recommit"} -> "used"
      [] op = "session" -> "reserve"
      [] op = "commit" -> "script"
      [] op = "verify" -> "replay"

\* A request that has come as far as its balances.  An allowlisted device is shown
\* the full quota by every handler but /verify.  Bound: one request per handler;
\* the stores start out in every state.
Ask(h, op, d) ==
    LET bypass == d \in DevAllowlist /\ op # "verify"
    IN  /\ Request(h)
        /\ reply[h].op = "none"
        /\ reply' = [reply EXCEPT ![h] =
                        [NoReply EXCEPT !.op = op, !.dev = d,
                                        !.pc = IF bypass THEN "paid" ELSE FirstRead(op),
                                        !.free = IF bypass THEN FreeBumpsPerDay ELSE 0]]
        /\ seen' = [seen EXCEPT ![h] = [used |-> {used[d]}, paid |-> {paid[d]}]]
        /\ UNCHANGED <<used, paid>>

FailOpenOnRedisError(h) == Gather(h, [reply[h] EXCEPT !.pc = "paid", !.free = FreeBumpsPerDay])
\* /bumps fails closed.
BumpsWithoutRedis(h) == Answer(h, reply[h], 503)

\* GetDailyFreeBumpsUsed.  Without it a commit reply counts 0 as used, and a
\* purchase is shown with 0 free bumps.
ReadUsed(h) ==
    /\ At(h, "used")
    /\ StoresStay
    /\ LET u == used[Dev(h)]
           op == reply[h].op
       IN  \/ /\ CanAnswer("redis")
              /\ \/ op = "bumps" /\ Gather(h, [reply[h] EXCEPT !.pc = "paid", !.free = Clamped(u)])
                 \/ op = "recommit" /\ Gather(h, [reply[h] EXCEPT !.pc = "paid", !.free = Left(u)])
                 \/ op = "verify" /\ Answer(h, [reply[h] EXCEPT !.free = Clamped(u)], 200)
           \/ /\ CanFail("redis")
              /\ \/ op = "bumps" /\ BumpsWithoutRedis(h)
                 \/ /\ op = "recommit"
                    /\ Gather(h, [reply[h] EXCEPT !.pc = "paid", !.free = Left(0), !.unread = {"redis"}])
                 \/ op = "verify" /\ Answer(h, [reply[h] EXCEPT !.unread = {"redis"}], 200)

HasRoomAtLimit(d) == used[d] <= FreeBumpsPerDay
HasRoom(d) == used[d] < FreeBumpsPerDay

\* /session: the script of TryReserveFreeBump returns the count it compared.
Reserve(h) ==
    /\ At(h, "reserve")
    /\ StoresStay
    /\ \/ /\ CanAnswer("redis") /\ HasRoom(Dev(h))
          /\ Gather(h, [reply[h] EXCEPT !.pc = "paid", !.free = Left(used[Dev(h)])])
       \/ /\ CanAnswer("redis") /\ ~HasRoom(Dev(h))
          /\ Gather(h, [reply[h] EXCEPT !.pc = "balance"])
       \/ /\ CanFail("redis")
          /\ Answer(h, reply[h], 503)

\* /session: the balance that decides whether a paid bump can be reserved.
ReadBalance(h) ==
    /\ At(h, "balance")
    /\ StoresStay
    /\ \/ /\ CanAnswer("database") /\ paid[Dev(h)] > 0
          /\ Gather(h, [reply[h] EXCEPT !.pc = "reservePaid", !.paid = paid[Dev(h)]])
       \/ /\ CanAnswer("database") /\ paid[Dev(h)] <= 0
          /\ Answer(h, [reply[h] EXCEPT !.paid = paid[Dev(h)]], 403)
       \/ /\ CanFail("database")
          /\ Answer(h, reply[h], 503)

ReservePaid(h) ==
    /\ At(h, "reservePaid")
    /\ StoresStay
    /\ \/ CanAnswer("redis") /\ Answer(h, reply[h], 200)
       \/ CanFail("redis") /\ Answer(h, reply[h], 503)

\* /session/commit: the script of CommitFreeBump returns the count, which it has
\* incremented unless the session was already committed, or finds no reservation.
CommitScript(h) ==
    /\ At(h, "script")
    /\ \/ /\ CanAnswer("redis")
          /\ used' \in {used, [used EXCEPT ![Dev(h)] = @ + 1]} /\ used'[Dev(h)] <= MaxUsed
          /\ Gather(h, [reply[h] EXCEPT !.pc = "paid", !.free = Left(used'[Dev(h)])])
          /\ Witness(used', paid)
          /\ UNCHANGED paid
       \/ CanAnswer("redis") /\ Answer(h, reply[h], 410) /\ StoresStay
       \/ CanFail("redis") /\ Answer(h, reply[h], 503) /\ StoresStay

\* /verify: the purchase is no good.  The reply is a 200 with valid false and
\* nothing else filled in.
Refuse(h) == Answer(h, [reply[h] EXCEPT !.refused = TRUE], 200)

\* /verify: a token that is known already is refused.
ReplayCheck(h) ==
    /\ At(h, "replay")
    /\ StoresStay
    /\ \/ CanAnswer("database") /\ (Refuse(h) \/ Gather(h, [reply[h] EXCEPT !.pc = "check"]))
       \/ CanFail("database") /\ Answer(h, reply[h], 503)

\* /verify: Google Play fails or does not confirm the purchase, or the text is no
\* transaction of Apple's for a bump; no store is asked.
CheckPurchase(h) ==
    /\ At(h, "check")
    /\ StoresStay
    /\ Refuse(h) \/ Gather(h, [reply[h] EXCEPT !.pc = "credit"])

\* /verify: the transaction that credits the purchase returns the new balance, or
\* finds the purchase recorded since.
CreditPurchase(h) ==
    /\ At(h, "credit")
    /\ \/ /\ CanAnswer("database") /\ paid[Dev(h)] < MaxPaid
          /\ paid' = [paid EXCEPT ![Dev(h)] = @ + 1]
          /\ Gather(h, [reply[h] EXCEPT !.pc = "used", !.paid = paid'[Dev(h)]])
          /\ Witness(used, paid')
          /\ UNCHANGED used
       \/ CanAnswer("database") /\ Refuse(h) /\ StoresStay
       \/ /\ CanFail("database")
          /\ Answer(h, reply[h], 503)
          /\ StoresStay

\* GetPaidBumps: its error is dropped and leaves 0.
ReadPaid(h) ==
    /\ At(h, "paid")
    /\ StoresStay
    /\ \/ CanAnswer("database") /\ Answer(h, [reply[h] EXCEPT !.paid = paid[Dev(h)]], 200)
       \/ CanFail("database") /\ Answer(h, [reply[h] EXCEPT !.unread = @ \cup {"database"}], 200)
-----------------------------------------------------------------------------
\* Commits, midnight and purchases of other requests, while a request asks about d.
Elsewhere(d) ==
    /\ \E h \in Handlers: req[h] = "running" /\ Dev(h) = d
    /\ \/ used' \in {[used EXCEPT ![d] = @ + 1], [used EXCEPT ![d] = 0]} /\ UNCHANGED paid
       \/ paid' \in {[paid EXCEPT ![d] = @ + 1], [paid EXCEPT ![d] = @ - 1]} /\ UNCHANGED used
    /\ used'[d] \in 0..MaxUsed /\ paid'[d] \in 0..MaxPaid
    /\ UNCHANGED <<vars, reply>>
    /\ Witness(used', paid')

Gathering(h) ==
    \/ ReadUsed(h) \/ Reserve(h) \/ ReadBalance(h) \/ ReservePaid(h)
    \/ CommitScript(h) \/ ReplayCheck(h) \/ CheckPurchase(h) \/ CreditPurchase(h) \/ ReadPaid(h)

BalancesNext ==
    \/ (Main \/ Die \/ Signal \/ Shutdown) /\ UNCHANGED balances
    \/ \E h \in Handlers:
          Gathering(h) \/ \E op \in Operations, d \in Devices: Ask(h, op, d)
    \/ \E d \in Devices: Elsewhere(d)

BalancesSpec ==
    BalancesInit /\ [][BalancesNext]_<<vars, balances>> /\ WF_vars(Main) /\ WF_vars(Shutdown)
-----------------------------------------------------------------------------
(* Properties *)

\* The counters stay within their bounds and the replies are typed; a balance is
\* never shown negative except in free_remaining of a commit.
BalancesTypeOK ==
    /\ used \in [Devices -> 0..MaxUsed]
    /\ paid \in [Devices -> 0..MaxPaid]
    /\ reply \in [Handlers -> [op: Operations \cup {"none"}, pc: Reads \cup {"idle"},
                               dev: Devices \cup {NoDevice},
                               free: (FreeBumpsPerDay - MaxUsed)..FreeBumpsPerDay,
                               paid: 0..MaxPaid, resp: {0, 200, 403, 410, 503},
                               unread: SUBSET {"redis", "database"}, refused: BOOLEAN]]
    /\ \A h \in Handlers: reply[h].free < 0 => reply[h].op \in {"commit", "recommit"}
    /\ seen \in [Handlers -> [used: SUBSET (0..MaxUsed), paid: SUBSET (0..MaxPaid)]]

Shown(h) == reply[h].resp = 200 /\ Dev(h) \notin DevAllowlist

\* What a device can still use when u bumps are used.
Room(u) == IF u < FreeBumpsPerDay THEN FreeBumpsPerDay - u ELSE 0

\* If no read failed, each number of a 200 was true at some moment while the
\* request ran, whatever other requests and midnight did between its calls;
\* replies other than those of commits show 0 for a device past its limit.  Not so
\* the 200s with which /verify refuses a purchase: they show 0 of both, although
\* verify.go calls the fields the "total paid balance" and "free bumps left today".
ShownWasTrue ==
    \A h \in Handlers:
        (Shown(h) /\ ~reply[h].refused /\ reply[h].unread = {})
        => /\ reply[h].paid \in seen[h].paid
           /\ \E u \in seen[h].used:
                 reply[h].free = IF reply[h].op \in {"commit", "recommit"}
                                 THEN FreeBumpsPerDay - u ELSE Room(u)

\* Whatever fails, and even when main closes the stores under a request, no 200 shows
\* a paid bump that was never there, and only the replay, busy and paid branches of
\* /session/commit show a free one that was never there (bumps.go: "Fail closed";
\* verify.go: "or 0 on any Redis error").
NothingOverstated ==
    \A h \in Handlers:
        Shown(h) => /\ \E b \in seen[h].paid: reply[h].paid <= b
                    /\ \/ reply[h].op = "recommit"
                       \/ \E u \in seen[h].used: reply[h].free <= Room(u)

\* A session is handed out with a balance that shows a bump, and refused for want of
\* bumps only to a device that had used its free bumps up and had bought none
\* (session.go: the 403 is "for UI sync").
SessionMatchesBalance ==
    \A h \in Handlers:
        (reply[h].op = "session" /\ Dev(h) \notin DevAllowlist)
        => /\ reply[h].resp = 200 => reply[h].free + reply[h].paid >= 1
           /\ reply[h].resp = 403 => /\ \E u \in seen[h].used: u >= FreeBumpsPerDay
                                     /\ 0 \in seen[h].paid
=============================================================================
