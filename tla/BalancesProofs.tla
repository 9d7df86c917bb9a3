--------------------------- MODULE BalancesProofs ---------------------------
(***************************************************************************)
(* Proofs about Lifecycle and Balances.                                    *)
(*                                                                         *)
(* First main: what it has checked when it comes to a stage (Advanced)     *)
(* makes its order of checks and of deferred closes an invariant.  Every   *)
(* step of Balances is a step of Lifecycle or leaves the process alone,    *)
(* so the same holds there.                                                *)
(*                                                                         *)
(* Then the replies.  What a request has gathered is right about some      *)
(* moment it has seen (Good), which stays so however much more it sees.    *)
(***************************************************************************)
EXTENDS Balances, TLAPS

\* What main has checked, opened and been told at each stage.
Advanced ==
    /\ stage \notin {"signer", "exited"} => env.key = "valid"
    /\ stage \notin {"signer", "gate", "exited"} => env.account # "empty" \/ env.devMode
    /\ stage \notin {"signer", "gate", "database", "exited"} => env.database
    /\ stage \notin {"signer", "gate", "database", "migrate", "exited"} => env.schema
    /\ stage \in {"verifier", "listen", "serving", "closeRedis", "closeDatabase"} => env.redis
    /\ stage \in {"signer", "gate", "database"} => open = {}
    /\ stage \in {"migrate", "redis"} => open = {"database"}
    /\ stage \in {"verifier", "listen", "serving", "closeRedis"} => open = {"database", "redis"}
    /\ stage \in {"closeRedis", "closeDatabase"} => signalled
    /\ (stage = "serving" /\ ~listening) => signalled
    /\ \A h \in Handlers:
          req[h] = "running" => stage \in {"serving", "closeRedis", "closeDatabase"}

LifeInv == TypeOK /\ Advanced /\ ServesOnlyChecked /\ FailsOnlyWhenStopping

LEMMA LifeInit == Init => LifeInv
  BY DEF Init, LifeInv, TypeOK, Advanced, ServesOnlyChecked, FailsOnlyWhenStopping, Stages

\* A check of main that fails, or any other exit, leaves nothing running.
LEMMA ExitKeeps ==
    ASSUME LifeInv, Exit, UNCHANGED <<env, signalled>>, open' \subseteq {"database", "redis"},
           service' \in BOOLEAN
    PROVE  LifeInv'
<1>1. TypeOK'
  BY DEF LifeInv, TypeOK, Exit, Stages
<1>2. Advanced'
  BY DEF LifeInv, TypeOK, Advanced, Exit
<1>3. ServesOnlyChecked'
  BY DEF LifeInv, TypeOK, ServesOnlyChecked, Exit
<1>4. FailsOnlyWhenStopping'
  BY DEF LifeInv, TypeOK, FailsOnlyWhenStopping, Exit
<1> QED
  BY <1>1, <1>2, <1>3, <1>4 DEF LifeInv

LEMMA MainKeeps == LifeInv /\ Main => LifeInv'
<1> SUFFICES ASSUME LifeInv, Main PROVE LifeInv'
  OBVIOUS
<1> USE DEF LifeInv, TypeOK, Advanced, ServesOnlyChecked, FailsOnlyWhenStopping, Stages
<1>1. CASE NewSigner
  <2>1. CASE Exit
    BY <1>1, <2>1, ExitKeeps DEF NewSigner, Check, KeyDecodes
  <2>2. CASE ~Exit
    BY <1>1, <2>2 DEF NewSigner, Check, KeyDecodes
  <2> QED
    BY <2>1, <2>2
<1>2. CASE ProductionGate
  <2>1. CASE Exit
    BY <1>2, <2>1, ExitKeeps DEF ProductionGate, Check
  <2>2. CASE ~Exit
    BY <1>2, <2>2 DEF ProductionGate, Check, AccountOrDevMode
  <2> QED
    BY <2>1, <2>2
<1>3. CASE Connect
  <2>1. CASE Exit
    BY <1>3, <2>1, ExitKeeps DEF Connect, Check
  <2>2. CASE ~Exit
    BY <1>3, <2>2 DEF Connect, Check
  <2> QED
    BY <2>1, <2>2
<1>4. CASE Migrate
  <2>1. CASE Exit
    BY <1>4, <2>1, ExitKeeps DEF Migrate, Check
  <2>2. CASE ~Exit
    BY <1>4, <2>2 DEF Migrate, Check
  <2> QED
    BY <2>1, <2>2
<1>5. CASE ConnectRedis
  <2>1. CASE Exit
    BY <1>5, <2>1, ExitKeeps DEF ConnectRedis, Check
  <2>2. CASE ~Exit
    BY <1>5, <2>2 DEF ConnectRedis, Check
  <2> QED
    BY <2>1, <2>2
<1>6. CASE NewVerifyHandler
  BY <1>6 DEF NewVerifyHandler, Check
<1>7. CASE Listen
  <2>1. CASE Exit
    BY <1>7, <2>1, ExitKeeps DEF Listen
  <2>2. CASE ~Exit
    BY <1>7, <2>2 DEF Listen
  <2> QED
    BY <2>1, <2>2
<1>8. CASE Return
  BY <1>8 DEF Return, ListenReturns
<1>9. CASE CloseRedis
  BY <1>9 DEF CloseRedis
<1>10. CASE CloseDatabase
  <2>1. open' \subseteq {"database", "redis"}
    BY <1>10 DEF CloseDatabase
  <2> QED
    BY <1>10, <2>1, ExitKeeps DEF CloseDatabase
<1> QED
  BY <1>1, <1>2, <1>3, <1>4, <1>5, <1>6, <1>7, <1>8, <1>9, <1>10 DEF Main

LEMMA LifeStep == LifeInv /\ [Next]_vars => LifeInv'
<1> SUFFICES ASSUME LifeInv, [Next]_vars PROVE LifeInv'
  OBVIOUS
<1> USE DEF LifeInv, TypeOK, Advanced, ServesOnlyChecked, FailsOnlyWhenStopping, Stages
<1>1. CASE Main
  BY <1>1, MainKeeps
<1>2. CASE Die
  BY <1>2, ExitKeeps DEF Die
<1>3. CASE Signal
  BY <1>3 DEF Signal
<1>4. CASE Shutdown
  BY <1>4 DEF Shutdown
<1>5. ASSUME NEW h \in Handlers, Request(h) PROVE LifeInv'
  BY <1>5 DEF Request
<1>6. ASSUME NEW h \in Handlers, Finish(h) PROVE LifeInv'
  <2>1. PICK end \in {"served", "failed"}:
           /\ req' = [req EXCEPT ![h] = end]
           /\ end = "failed" => open # {"database", "redis"}
    BY <1>6 DEF Finish
  <2>2. req[h] = "running" /\ UNCHANGED <<env, stage, service, open, listening, signalled>>
    BY <1>6 DEF Finish
  <2>3. end = "failed" => signalled
    BY <2>1, <2>2
  <2> QED
    BY <2>1, <2>2, <2>3
<1>7. CASE UNCHANGED vars
  BY <1>7 DEF vars
<1> QED
  BY <1>1, <1>2, <1>3, <1>4, <1>5, <1>6, <1>7 DEF Next

\* The process alone: main serves only what it has checked, and a request finds a
\* store closed only in a process that was told to stop.
THEOREM ProcessCorrect ==
    Spec => [](TypeOK /\ ServesOnlyChecked /\ FailsOnlyWhenStopping)
<1>1. LifeInv => TypeOK /\ ServesOnlyChecked /\ FailsOnlyWhenStopping
  BY DEF LifeInv
<1> QED
  BY LifeInit, LifeStep, <1>1, PTL DEF Spec
\* What the docs say of an account that Google Play cannot use is so for every text
\* but a malformed one: without it requests are served in development mode only
\* (main.go looks at the text, NewVerifyHandler at what it means).
THEOREM RefusesTheRest == Spec => [](env.account # "malformed" => RefusesMalformed)
<1> DEFINE Equipped == stage \in {"listen", "serving", "closeRedis", "closeDatabase"} =>
                          service = (env.account = "valid")
<1>1. Init => Equipped
  BY DEF Init
<1>2. LifeInv /\ Equipped /\ [Next]_vars => Equipped'
  <2> SUFFICES ASSUME LifeInv, Equipped, [Next]_vars PROVE Equipped'
    OBVIOUS
  <2>1. CASE NewVerifyHandler
    BY <2>1 DEF NewVerifyHandler, Check
  <2>2. CASE \/ NewSigner \/ ProductionGate \/ Connect \/ Migrate \/ ConnectRedis \/ Listen
             \/ Return \/ CloseRedis \/ CloseDatabase \/ Die
    BY <2>2 DEF NewSigner, ProductionGate, Connect, Migrate, ConnectRedis, Listen, Return,
                CloseRedis, CloseDatabase, Die, Exit, Check, ListenReturns
  <2>3. CASE Signal \/ Shutdown \/ (\E h \in Handlers: Request(h) \/ Finish(h)) \/ UNCHANGED vars
    BY <2>3 DEF Signal, Shutdown, Request, Finish, vars
  <2> QED
    BY <2>1, <2>2, <2>3 DEF Next, Main
<1>3. LifeInv /\ Equipped => (env.account # "malformed" => RefusesMalformed)
  BY DEF LifeInv, TypeOK, Environment, Texts, Advanced, RefusesMalformed
<1> HIDE DEF Equipped
<1> QED
  BY LifeInit, LifeStep, <1>1, <1>2, <1>3, PTL DEF Spec
-----------------------------------------------------------------------------
(* Balances: the process *)

\* What a request does with its balances is a request, a finish or nothing for the
\* process.
LEMMA ProcessStep ==
    ASSUME [BalancesNext]_<<vars, balances>>
    PROVE  [Next]_vars
<1>1. CASE (Main \/ Die \/ Signal \/ Shutdown) /\ UNCHANGED balances
  BY <1>1 DEF Next
<1>2. ASSUME NEW h \in Handlers, Gathering(h) PROVE [Next]_vars
  <2>1. (UNCHANGED vars) \/ Finish(h)
    <3>1. CASE ReadUsed(h)
      BY <3>1 DEF ReadUsed, Gather, Answer, BumpsWithoutRedis
    <3>2. CASE Reserve(h)
      BY <3>2 DEF Reserve, Gather, Answer
    <3>3. CASE ReadBalance(h)
      BY <3>3 DEF ReadBalance, Gather, Answer
    <3>4. CASE ReservePaid(h)
      BY <3>4 DEF ReservePaid, Gather, Answer
    <3>5. CASE CommitScript(h)
      BY <3>5 DEF CommitScript, Gather, Answer
    <3>6. CASE CreditPurchase(h)
      BY <3>6 DEF CreditPurchase, Refuse, Gather, Answer
    <3>7. CASE ReadPaid(h)
      BY <3>7 DEF ReadPaid, Answer
    <3>8. CASE ReplayCheck(h)
      BY <3>8 DEF ReplayCheck, Refuse, Gather, Answer
    <3>9. CASE CheckPurchase(h)
      BY <3>9 DEF CheckPurchase, Refuse, Gather, Answer
    <3> QED
      BY <1>2, <3>1, <3>2, <3>3, <3>4, <3>5, <3>6, <3>7, <3>8, <3>9 DEF Gathering
  <2> QED
    BY <2>1 DEF Next
<1>3. ASSUME NEW h \in Handlers, NEW op \in Operations, NEW d \in Devices, Ask(h, op, d)
      PROVE  [Next]_vars
  BY <1>3 DEF Ask, Next
<1>4. ASSUME NEW d \in Devices, Elsewhere(d) PROVE [Next]_vars
  BY <1>4 DEF Elsewhere
<1>5. CASE UNCHANGED <<vars, balances>>
  BY <1>5
<1> QED
  BY <1>1, <1>2, <1>3, <1>4, <1>5 DEF BalancesNext

\* The process state stays typed while balances are read.
THEOREM ProcessTyped == BalancesSpec => []TypeOK
<1>1. LifeInv => TypeOK
  BY DEF LifeInv
<1> QED
  BY LifeInit, LifeStep, ProcessStep, <1>1, PTL DEF BalancesSpec, BalancesInit

\* No balance is shown by a process whose key, stores or production check failed.
THEOREM ServedChecked == BalancesSpec => []ServesOnlyChecked
<1>1. LifeInv => ServesOnlyChecked
  BY DEF LifeInv
<1> QED
  BY LifeInit, LifeStep, ProcessStep, <1>1, PTL DEF BalancesSpec, BalancesInit

\* No request for balances finds a store closed before the process is told to stop.
THEOREM ClosedWhenStopping == BalancesSpec => []FailsOnlyWhenStopping
<1>1. LifeInv => FailsOnlyWhenStopping
  BY DEF LifeInv
<1> QED
  BY LifeInit, LifeStep, ProcessStep, <1>1, PTL DEF BalancesSpec, BalancesInit
-----------------------------------------------------------------------------
(* Balances: the replies *)

Ops == Operations \cup {"none"}
Pcs == Reads \cup {"idle"}
Devs == Devices \cup {NoDevice}
Frees == (FreeBumpsPerDay - MaxUsed)..FreeBumpsPerDay
Amounts == 0..MaxPaid
Codes == {0, 200, 403, 410, 503}
Losses == SUBSET {"redis", "database"}
ReplyRecord == [op: Ops, pc: Pcs, dev: Devs, free: Frees, paid: Amounts, resp: Codes,
                unread: Losses, refused: BOOLEAN]
SeenRecord == [used: SUBSET (0..MaxUsed), paid: SUBSET (0..MaxPaid)]

\* The free count of reply r is that of a moment in s, and not more than a device
\* could use then.
FreeTrue(r, s) ==
    r.unread # {} \/ \E u \in s.used: r.free = IF r.op \in {"commit", "recommit"}
                                         THEN FreeBumpsPerDay - u ELSE Room(u)
FreeBelow(r, s) == r.op = "recommit" \/ \E u \in s.used: r.free <= Room(u)
UsedUp(s) == \E u \in s.used: u >= FreeBumpsPerDay

\* What a reply that waits for a read has so far.
Awaiting(r, s) ==
    /\ r.pc # "idle" => r.resp = 0
    /\ r.pc \notin {"idle", "paid"} => r.unread = {} /\ r.free = 0
    /\ r.pc = "used" => r.op \in {"bumps", "recommit", "verify"}
    /\ (r.pc = "used" /\ r.op = "verify") => r.paid \in s.paid
    /\ (r.pc = "used" /\ r.op # "verify") => r.paid = 0
    /\ r.pc \in {"reserve", "balance", "reservePaid"} => r.op = "session"
    /\ r.pc \in {"balance", "reservePaid"} => UsedUp(s)
    /\ r.pc = "reservePaid" => r.paid \in s.paid /\ r.paid > 0
    /\ r.pc = "script" => r.op = "commit"
    /\ r.pc \in {"replay", "check", "credit"} => r.op = "verify"
    /\ r.pc \in {"reserve", "script", "replay", "check", "credit"} => r.paid = 0
    /\ r.pc # "idle" => ~r.refused
    /\ r.pc = "paid" => r.paid = 0
    /\ (r.pc = "paid" /\ r.dev \notin DevAllowlist) =>
          FreeTrue(r, s) /\ FreeBelow(r, s) /\ (r.op = "session" => r.free >= 1)

\* What a reply says.
Honest(r, s) ==
    r.dev \notin DevAllowlist =>
        /\ r.resp = 200 => /\ r.refused \/ r.unread # {} \/ r.paid \in s.paid
                           /\ r.refused \/ FreeTrue(r, s)
                           /\ FreeBelow(r, s)
                           /\ \E b \in s.paid: r.paid <= b
                           /\ r.op = "session" => r.free + r.paid >= 1
        /\ (r.resp = 403 /\ r.op = "session") => UsedUp(s) /\ 0 \in s.paid

Good(r, s) ==
    /\ r \in ReplyRecord /\ s \in SeenRecord
    /\ r.free < 0 => r.op \in {"commit", "recommit"}
    /\ Awaiting(r, s) /\ Honest(r, s)

\* What the stores hold of a device is among what its running requests have seen.
Current(h) ==
    req[h] = "running" =>
        /\ reply[h].op # "none" /\ Dev(h) \in Devices
        /\ used[Dev(h)] \in seen[h].used
        /\ paid[Dev(h)] \in seen[h].paid

BalInv ==
    /\ used \in [Devices -> 0..MaxUsed] /\ paid \in [Devices -> 0..MaxPaid]
    /\ reply \in [Handlers -> ReplyRecord] /\ seen \in [Handlers -> SeenRecord]
    /\ req \in [Handlers -> {"none", "running", "served", "failed", "cut"}]
    /\ \A h \in Handlers: Good(reply[h], seen[h]) /\ Current(h)

\* Reply x is reply r with these fields.
Is(x, r, p, f, n, c, b) ==
    /\ x \in ReplyRecord /\ x.op = r.op /\ x.dev = r.dev
    /\ x.pc = p /\ x.free = f /\ x.paid = n /\ x.resp = c /\ x.unread = b
    /\ x.refused = r.refused

LEMMA Literals ==
    /\ Reads \subseteq Pcs /\ "idle" \in Pcs
    /\ 200 \in Codes /\ 403 \in Codes /\ 410 \in Codes /\ 503 \in Codes
    /\ {"redis"} \in Losses
  BY DEF Pcs, Codes, Losses

\* The replies that handlers make of one another.
LEMMA GoesOn ==
    ASSUME NEW r \in ReplyRecord, NEW p \in Pcs
    PROVE  Is([r EXCEPT !.pc = p], r, p, r.free, r.paid, r.resp, r.unread)
  BY DEF ReplyRecord, Is

LEMMA GoesOnFree ==
    ASSUME NEW r \in ReplyRecord, NEW p \in Pcs, NEW f \in Frees
    PROVE  Is([r EXCEPT !.pc = p, !.free = f], r, p, f, r.paid, r.resp, r.unread)
  BY DEF ReplyRecord, Is

LEMMA GoesOnUnread ==
    ASSUME NEW r \in ReplyRecord, NEW p \in Pcs, NEW f \in Frees, NEW b \in Losses
    PROVE  Is([r EXCEPT !.pc = p, !.free = f, !.unread = b], r, p, f, r.paid, r.resp, b)
  BY DEF ReplyRecord, Is

LEMMA GoesOnPaid ==
    ASSUME NEW r \in ReplyRecord, NEW p \in Pcs, NEW n \in Amounts
    PROVE  Is([r EXCEPT !.pc = p, !.paid = n], r, p, r.free, n, r.resp, r.unread)
  BY DEF ReplyRecord, Is

LEMMA Ends ==
    ASSUME NEW r \in ReplyRecord, NEW c \in Codes
    PROVE  Is([r EXCEPT !.pc = "idle", !.resp = c], r, "idle", r.free, r.paid, c, r.unread)
  BY Literals DEF ReplyRecord, Is

LEMMA EndsFree ==
    ASSUME NEW r \in ReplyRecord, NEW c \in Codes, NEW f \in Frees
    PROVE  Is([[r EXCEPT !.free = f] EXCEPT !.pc = "idle", !.resp = c], r, "idle", f, r.paid, c, r.unread)
  BY Literals DEF ReplyRecord, Is

LEMMA EndsPaid ==
    ASSUME NEW r \in ReplyRecord, NEW c \in Codes, NEW n \in Amounts
    PROVE  Is([[r EXCEPT !.paid = n] EXCEPT !.pc = "idle", !.resp = c], r, "idle", r.free, n, c, r.unread)
  BY Literals DEF ReplyRecord, Is

LEMMA EndsUnread ==
    ASSUME NEW r \in ReplyRecord, NEW c \in Codes, NEW b \in Losses
    PROVE  Is([[r EXCEPT !.unread = b] EXCEPT !.pc = "idle", !.resp = c], r, "idle", r.free, r.paid, c, b)
  BY Literals DEF ReplyRecord, Is

LEMMA Members ==
    /\ Reads \cup {"idle"} = Pcs /\ {0, 200, 403, 410, 503} = Codes /\ 0..MaxPaid = Amounts
    /\ {} \in Losses /\ {"redis"} \in Losses
    /\ \A b \in Losses: b \cup {"database"} \in Losses
    /\ \A f \in Int: f \in Frees <=> FreeBumpsPerDay - MaxUsed <= f /\ f <= FreeBumpsPerDay
    /\ \A r \in ReplyRecord:
          /\ r.op \in Operations \cup {"none"} /\ r.dev \in Devices \cup {NoDevice}
          /\ r.pc \in Pcs /\ r.free \in Frees /\ r.free \in Int /\ r.paid \in Amounts
          /\ r.resp \in Codes /\ r.unread \in Losses /\ r.refused \in BOOLEAN
<1> USE QuotaAssumption
<1>1. Frees \subseteq Int
  BY DEF Frees
<1>2. \A r \in ReplyRecord:
          /\ r.op \in Ops /\ r.dev \in Devs /\ r.pc \in Pcs /\ r.free \in Frees
          /\ r.paid \in Amounts /\ r.resp \in Codes /\ r.unread \in Losses
          /\ r.refused \in BOOLEAN
  BY DEF ReplyRecord
<1> QED
  BY <1>1, <1>2 DEF Ops, Pcs, Devs, Frees, Amounts, Codes, Losses

LEMMA BalInit == BalancesInit => BalInv
<1> SUFFICES ASSUME BalancesInit PROVE BalInv
  OBVIOUS
<1> USE QuotaAssumption
<1>1. NoReply \in ReplyRecord
  BY DEF NoReply, ReplyRecord, Ops, Pcs, Devs, Frees, Amounts, Codes, Losses
<1>2. [used |-> {}, paid |-> {}] \in SeenRecord
  BY DEF SeenRecord
<1>3. Good(NoReply, [used |-> {}, paid |-> {}])
  BY <1>1, <1>2 DEF Good, NoReply, Awaiting, Honest
<1> QED
  BY <1>1, <1>2, <1>3 DEF BalancesInit, Init, BalInv, Current

\* Seeing more makes no reply wrong.
LEMMA SeeingMore ==
    ASSUME NEW r, NEW s, NEW t, Good(r, s), t \in SeenRecord,
           s.used \subseteq t.used, s.paid \subseteq t.paid
    PROVE  Good(r, t)
<1>1. FreeTrue(r, s) => FreeTrue(r, t)
  BY DEF FreeTrue
<1>2. FreeBelow(r, s) => FreeBelow(r, t)
  BY DEF FreeBelow
<1>3. UsedUp(s) => UsedUp(t)
  BY DEF UsedUp
<1>4. Awaiting(r, t)
  BY <1>1, <1>2, <1>3 DEF Good, Awaiting
<1>5. Honest(r, t)
  BY <1>1, <1>2, <1>3 DEF Good, Honest
<1> QED
  BY <1>4, <1>5 DEF Good

\* A handler goes on, or answers, with a reply that is right about what it has seen.
LEMMA Replying ==
    ASSUME BalInv, NEW h \in Handlers, req[h] = "running", NEW r,
           Good(r, seen[h]), r.op = reply[h].op, r.dev = Dev(h),
           reply' = [reply EXCEPT ![h] = r], StoresStay, (UNCHANGED vars) \/ Finish(h)
    PROVE  BalInv'
<1>1. r \in ReplyRecord
  BY DEF Good
<1>2. PICK end \in {"running", "served", "failed"}: req' = [req EXCEPT ![h] = end]
  <2>1. CASE UNCHANGED vars
    BY <2>1 DEF vars, BalInv
  <2>2. CASE Finish(h)
    BY <2>2 DEF Finish
  <2> QED
    BY <2>1, <2>2
<1>3. UNCHANGED <<used, paid, seen>>
  BY DEF StoresStay
<1>4. ASSUME NEW g \in Handlers PROVE Good(reply'[g], seen'[g]) /\ Current(g)'
  BY <1>1, <1>2, <1>3, <1>4 DEF BalInv, Current, Dev
<1> QED
  BY <1>1, <1>2, <1>3, <1>4 DEF BalInv

\* The stores change while the process stays as it is.
LEMMA Witnessing ==
    ASSUME BalInv, UNCHANGED vars, Witness(used', paid'),
           used' \in [Devices -> 0..MaxUsed], paid' \in [Devices -> 0..MaxPaid],
           NEW h \in Handlers
    PROVE  /\ seen' \in [Handlers -> SeenRecord]
           /\ seen[h].used \subseteq seen'[h].used /\ seen[h].paid \subseteq seen'[h].paid
           /\ req[h] = "running" => /\ used'[Dev(h)] \in seen'[h].used
                                    /\ paid'[Dev(h)] \in seen'[h].paid
<1>1. req' = req
  BY DEF vars
<1>2. ASSUME NEW g \in Handlers
      PROVE  /\ seen'[g] \in SeenRecord
             /\ seen[g].used \subseteq seen'[g].used /\ seen[g].paid \subseteq seen'[g].paid
             /\ req[g] = "running" => /\ used'[Dev(g)] \in seen'[g].used
                                      /\ paid'[Dev(g)] \in seen'[g].paid
  <2>1. seen[g] \in SeenRecord
    BY DEF BalInv
  <2>2. CASE req[g] = "running"
    <3>1. Dev(g) \in Devices
      BY <2>2 DEF BalInv, Current
    <3>2. seen'[g] = [used |-> seen[g].used \cup {used'[Dev(g)]},
                      paid |-> seen[g].paid \cup {paid'[Dev(g)]}]
      BY <1>1, <2>2 DEF Witness
    <3>3. used'[Dev(g)] \in 0..MaxUsed /\ paid'[Dev(g)] \in 0..MaxPaid
      BY <3>1
    <3> QED
      BY <2>1, <3>2, <3>3 DEF SeenRecord
  <2>3. CASE req[g] # "running"
    BY <1>1, <2>1, <2>3 DEF Witness
  <2> QED
    BY <2>2, <2>3
<1>3. seen' = [g \in Handlers |-> seen'[g]]
  BY DEF Witness
<1> QED
  BY <1>2, <1>3

\* The same, while one handler goes on with what the changed stores gave it.
LEMMA Changing ==
    ASSUME BalInv, NEW h \in Handlers, req[h] = "running", NEW r,
           UNCHANGED vars, Witness(used', paid'),
           used' \in [Devices -> 0..MaxUsed], paid' \in [Devices -> 0..MaxPaid],
           reply' = [reply EXCEPT ![h] = r],
           Good(r, seen'[h]), r.op = reply[h].op, r.dev = Dev(h)
    PROVE  BalInv'
<1>1. r \in ReplyRecord /\ req' = req
  BY DEF Good, vars
<1>2. ASSUME NEW g \in Handlers PROVE Good(reply'[g], seen'[g]) /\ Current(g)'
  <2>1. /\ seen'[g] \in SeenRecord
        /\ seen[g].used \subseteq seen'[g].used /\ seen[g].paid \subseteq seen'[g].paid
        /\ req[g] = "running" => /\ used'[Dev(g)] \in seen'[g].used
                                 /\ paid'[Dev(g)] \in seen'[g].paid
    BY Witnessing
  <2>2. Good(reply[g], seen[g]) /\ Current(g)
    BY DEF BalInv
  <2>3. Good(reply[g], seen'[g])
    BY <2>1, <2>2, SeeingMore
  <2>4. reply'[g].op = reply[g].op /\ reply'[g].dev = reply[g].dev
    BY DEF BalInv, Dev
  <2>5. Current(g)'
    BY <1>1, <2>1, <2>2, <2>4 DEF Current, Dev
  <2>6. Good(reply'[g], seen'[g])
    BY <2>3 DEF BalInv
  <2> QED
    BY <2>5, <2>6
<1>3. seen' \in [Handlers -> SeenRecord]
  BY Witnessing
<1> QED
  BY <1>1, <1>2, <1>3 DEF BalInv

LEMMA ReadUsedKeeps ==
    ASSUME BalInv, NEW h \in Handlers, ReadUsed(h) PROVE BalInv'
<1> DEFINE r == reply[h]
           s == seen[h]
           u == used[Dev(h)]
           b == paid[Dev(h)]
<1> USE QuotaAssumption
<1>1. req[h] = "running" /\ r.pc = "used" /\ StoresStay
  BY DEF ReadUsed, At
<1>2. Good(r, s) /\ r \in ReplyRecord /\ s \in SeenRecord
  BY DEF BalInv
<1>3. u \in 0..MaxUsed /\ u \in s.used /\ b \in s.paid /\ b \in 0..MaxPaid
  BY <1>1 DEF BalInv, Current
<1>4. /\ ~r.refused /\ r.resp = 0 /\ r.unread = {} /\ r.free = 0 /\ r.op \in {"bumps", "recommit", "verify"}
      /\ (r.op = "verify" => r.paid \in s.paid) /\ (r.op # "verify" => r.paid = 0)
  BY <1>1, <1>2 DEF Good, Awaiting
<1>5. /\ Clamped(u) = Room(u) /\ Clamped(u) \in Frees /\ Clamped(u) >= 0
      /\ Left(u) = FreeBumpsPerDay - u /\ Left(u) \in Frees /\ Left(0) \in Frees
      /\ r.paid \in Nat /\ Room(u) \in Nat
  BY <1>2, <1>3, Members DEF Clamped, Room, Left, Amounts
<1>6. ASSUME NEW x, Good(x, s), x.op = r.op, x.dev = r.dev, reply' = [reply EXCEPT ![h] = x],
             (UNCHANGED vars) \/ Finish(h)
      PROVE  BalInv'
  BY <1>1, <1>6, Replying DEF Dev
<1>7. CASE r.op = "bumps" /\ Gather(h, [r EXCEPT !.pc = "paid", !.free = Clamped(u)])
  <2> DEFINE x == [r EXCEPT !.pc = "paid", !.free = Clamped(u)]
  <2>1. Is(x, r, "paid", Clamped(u), r.paid, r.resp, r.unread)
    BY <1>2, <1>5, Literals, GoesOnFree DEF Reads
  <2>2. reply' = [reply EXCEPT ![h] = x] /\ ((UNCHANGED vars) \/ Finish(h))
    BY <1>7 DEF Gather
  <2> HIDE DEF x
  <2>3. Good(x, s)
    BY <1>2, <1>3, <1>4, <1>5, <1>7, <2>1 DEF Good, Awaiting, Honest, FreeTrue, FreeBelow, UsedUp, SeenRecord, Is
  <2> QED
    BY <1>6, <2>1, <2>2, <2>3 DEF Is
<1>8. CASE r.op = "recommit" /\ Gather(h, [r EXCEPT !.pc = "paid", !.free = Left(u)])
  <2> DEFINE x == [r EXCEPT !.pc = "paid", !.free = Left(u)]
  <2>1. Is(x, r, "paid", Left(u), r.paid, r.resp, r.unread)
    BY <1>2, <1>5, Literals, GoesOnFree DEF Reads
  <2>2. reply' = [reply EXCEPT ![h] = x] /\ ((UNCHANGED vars) \/ Finish(h))
    BY <1>8 DEF Gather
  <2> HIDE DEF x
  <2>3. Good(x, s)
    BY <1>2, <1>3, <1>4, <1>5, <1>8, <2>1 DEF Good, Awaiting, Honest, FreeTrue, FreeBelow, UsedUp, SeenRecord, Is
  <2> QED
    BY <1>6, <2>1, <2>2, <2>3 DEF Is
<1>9. CASE r.op = "verify" /\ Answer(h, [r EXCEPT !.free = Clamped(u)], 200)
  <2> DEFINE x == [[r EXCEPT !.free = Clamped(u)] EXCEPT !.pc = "idle", !.resp = 200]
  <2>1. Is(x, r, "idle", Clamped(u), r.paid, 200, r.unread)
    BY <1>2, <1>5, Literals, EndsFree DEF Reads
  <2>2. reply' = [reply EXCEPT ![h] = x] /\ ((UNCHANGED vars) \/ Finish(h))
    BY <1>9 DEF Answer
  <2> HIDE DEF x
  <2>3. Good(x, s)
    BY <1>2, <1>3, <1>4, <1>5, <1>9, <2>1 DEF Good, Awaiting, Honest, FreeTrue, FreeBelow, UsedUp, SeenRecord, Is
  <2> QED
    BY <1>6, <2>1, <2>2, <2>3 DEF Is
<1>10. CASE r.op = "bumps" /\ Answer(h, r, 503)
  <2> DEFINE x == [r EXCEPT !.pc = "idle", !.resp = 503]
  <2>1. Is(x, r, "idle", r.free, r.paid, 503, r.unread)
    BY <1>2, <1>5, Literals, Ends DEF Reads
  <2>2. reply' = [reply EXCEPT ![h] = x] /\ ((UNCHANGED vars) \/ Finish(h))
    BY <1>10 DEF Answer
  <2> HIDE DEF x
  <2>3. Good(x, s)
    BY <1>2, <1>3, <1>4, <1>5, <1>10, <2>1 DEF Good, Awaiting, Honest, FreeTrue, FreeBelow, UsedUp, SeenRecord, Is
  <2> QED
    BY <1>6, <2>1, <2>2, <2>3 DEF Is
<1>11. CASE r.op = "recommit" /\ Gather(h, [r EXCEPT !.pc = "paid", !.free = Left(0), !.unread = {"redis"}])
  <2> DEFINE x == [r EXCEPT !.pc = "paid", !.free = Left(0), !.unread = {"redis"}]
  <2>1. Is(x, r, "paid", Left(0), r.paid, r.resp, {"redis"})
    BY <1>2, <1>5, Literals, GoesOnUnread DEF Reads
  <2>2. reply' = [reply EXCEPT ![h] = x] /\ ((UNCHANGED vars) \/ Finish(h))
    BY <1>11 DEF Gather
  <2> HIDE DEF x
  <2>3. Good(x, s)
    BY <1>2, <1>3, <1>4, <1>5, <1>11, <2>1 DEF Good, Awaiting, Honest, FreeTrue, FreeBelow, UsedUp, SeenRecord, Is
  <2> QED
    BY <1>6, <2>1, <2>2, <2>3 DEF Is
<1>12. CASE r.op = "verify" /\ Answer(h, [r EXCEPT !.unread = {"redis"}], 200)
  <2> DEFINE x == [[r EXCEPT !.unread = {"redis"}] EXCEPT !.pc = "idle", !.resp = 200]
  <2>1. Is(x, r, "idle", r.free, r.paid, 200, {"redis"})
    BY <1>2, <1>5, Literals, EndsUnread DEF Reads
  <2>2. reply' = [reply EXCEPT ![h] = x] /\ ((UNCHANGED vars) \/ Finish(h))
    BY <1>12 DEF Answer
  <2> HIDE DEF x
  <2>3. Good(x, s)
    BY <1>2, <1>3, <1>4, <1>5, <1>12, <2>1 DEF Good, Awaiting, Honest, FreeTrue, FreeBelow, UsedUp, SeenRecord, Is
  <2> QED
    BY <1>6, <2>1, <2>2, <2>3 DEF Is
<1> QED
  BY <1>7, <1>8, <1>9, <1>10, <1>11, <1>12 DEF ReadUsed, BumpsWithoutRedis

LEMMA ReserveKeeps ==
    ASSUME BalInv, NEW h \in Handlers, Reserve(h) PROVE BalInv'
<1> DEFINE r == reply[h]
           s == seen[h]
           u == used[Dev(h)]
           b == paid[Dev(h)]
<1> USE QuotaAssumption
<1>1. req[h] = "running" /\ r.pc = "reserve" /\ StoresStay
  BY DEF Reserve, At
<1>2. Good(r, s) /\ r \in ReplyRecord /\ s \in SeenRecord
  BY DEF BalInv
<1>3. u \in 0..MaxUsed /\ u \in s.used /\ b \in s.paid /\ b \in 0..MaxPaid
  BY <1>1 DEF BalInv, Current
<1>4. ~r.refused /\ r.resp = 0 /\ r.unread = {} /\ r.free = 0 /\ r.op = "session" /\ r.paid = 0
  BY <1>1, <1>2 DEF Good, Awaiting
<1>5. /\ Left(u) = FreeBumpsPerDay - u /\ Left(u) \in Frees
      /\ HasRoom(Dev(h)) => Left(u) = Room(u) /\ Left(u) >= 1
  BY <1>2, <1>3, Members DEF HasRoom, Room, Left
<1>6. ASSUME NEW x, Good(x, s), x.op = r.op, x.dev = r.dev, reply' = [reply EXCEPT ![h] = x],
             (UNCHANGED vars) \/ Finish(h)
      PROVE  BalInv'
  BY <1>1, <1>6, Replying DEF Dev
<1>7. CASE HasRoom(Dev(h)) /\ Gather(h, [r EXCEPT !.pc = "paid", !.free = Left(u)])
  <2> DEFINE x == [r EXCEPT !.pc = "paid", !.free = Left(u)]
  <2>1. Is(x, r, "paid", Left(u), r.paid, r.resp, r.unread)
    BY <1>2, <1>5, Literals, GoesOnFree DEF Reads
  <2>2. reply' = [reply EXCEPT ![h] = x] /\ ((UNCHANGED vars) \/ Finish(h))
    BY <1>7 DEF Gather
  <2> HIDE DEF x
  <2>3. Good(x, s)
    BY <1>2, <1>3, <1>4, <1>5, <1>7, <2>1 DEF Good, Awaiting, Honest, FreeTrue, FreeBelow, UsedUp, SeenRecord, Is
  <2> QED
    BY <1>6, <2>1, <2>2, <2>3 DEF Is
<1>8. CASE ~HasRoom(Dev(h)) /\ Gather(h, [r EXCEPT !.pc = "balance"])
  <2> DEFINE x == [r EXCEPT !.pc = "balance"]
  <2>1. Is(x, r, "balance", r.free, r.paid, r.resp, r.unread)
    BY <1>2, <1>5, Literals, GoesOn DEF Reads
  <2>2. reply' = [reply EXCEPT ![h] = x] /\ ((UNCHANGED vars) \/ Finish(h))
    BY <1>8 DEF Gather
  <2> HIDE DEF x
  <2>3. Good(x, s)
    BY <1>2, <1>3, <1>4, <1>5, <1>8, <2>1 DEF HasRoom, Good, Awaiting, Honest, FreeTrue, FreeBelow, UsedUp, SeenRecord, Is
  <2> QED
    BY <1>6, <2>1, <2>2, <2>3 DEF Is
<1>9. CASE Answer(h, r, 503)
  <2> DEFINE x == [r EXCEPT !.pc = "idle", !.resp = 503]
  <2>1. Is(x, r, "idle", r.free, r.paid, 503, r.unread)
    BY <1>2, <1>5, Literals, Ends DEF Reads
  <2>2. reply' = [reply EXCEPT ![h] = x] /\ ((UNCHANGED vars) \/ Finish(h))
    BY <1>9 DEF Answer
  <2> HIDE DEF x
  <2>3. Good(x, s)
    BY <1>2, <1>3, <1>4, <1>5, <1>9, <2>1 DEF Good, Awaiting, Honest, FreeTrue, FreeBelow, UsedUp, SeenRecord, Is
  <2> QED
    BY <1>6, <2>1, <2>2, <2>3 DEF Is
<1> QED
  BY <1>7, <1>8, <1>9 DEF Reserve

LEMMA ReadBalanceKeeps ==
    ASSUME BalInv, NEW h \in Handlers, ReadBalance(h) PROVE BalInv'
<1> DEFINE r == reply[h]
           s == seen[h]
           u == used[Dev(h)]
           b == paid[Dev(h)]
<1> USE QuotaAssumption
<1>1. req[h] = "running" /\ r.pc = "balance" /\ StoresStay
  BY DEF ReadBalance, At
<1>2. Good(r, s) /\ r \in ReplyRecord /\ s \in SeenRecord
  BY DEF BalInv
<1>3. u \in 0..MaxUsed /\ u \in s.used /\ b \in s.paid /\ b \in 0..MaxPaid
  BY <1>1 DEF BalInv, Current
<1>4. ~r.refused /\ r.resp = 0 /\ r.unread = {} /\ r.free = 0 /\ r.op = "session" /\ UsedUp(s)
  BY <1>1, <1>2 DEF Good, Awaiting
<1>5. b \in Amounts /\ b \in Nat
  BY <1>2, <1>3, Members DEF Amounts
<1>6. ASSUME NEW x, Good(x, s), x.op = r.op, x.dev = r.dev, reply' = [reply EXCEPT ![h] = x],
             (UNCHANGED vars) \/ Finish(h)
      PROVE  BalInv'
  BY <1>1, <1>6, Replying DEF Dev
<1>7. CASE b > 0 /\ Gather(h, [r EXCEPT !.pc = "reservePaid", !.paid = b])
  <2> DEFINE x == [r EXCEPT !.pc = "reservePaid", !.paid = b]
  <2>1. Is(x, r, "reservePaid", r.free, b, r.resp, r.unread)
    BY <1>2, <1>5, Literals, GoesOnPaid DEF Reads
  <2>2. reply' = [reply EXCEPT ![h] = x] /\ ((UNCHANGED vars) \/ Finish(h))
    BY <1>7 DEF Gather
  <2> HIDE DEF x
  <2>3. Good(x, s)
    BY <1>2, <1>3, <1>4, <1>5, <1>7, <2>1 DEF Good, Awaiting, Honest, FreeTrue, FreeBelow, UsedUp, SeenRecord, Is
  <2> QED
    BY <1>6, <2>1, <2>2, <2>3 DEF Is
<1>8. CASE b <= 0 /\ Answer(h, [r EXCEPT !.paid = b], 403)
  <2> DEFINE x == [[r EXCEPT !.paid = b] EXCEPT !.pc = "idle", !.resp = 403]
  <2>1. Is(x, r, "idle", r.free, b, 403, r.unread)
    BY <1>2, <1>5, Literals, EndsPaid DEF Reads
  <2>2. reply' = [reply EXCEPT ![h] = x] /\ ((UNCHANGED vars) \/ Finish(h))
    BY <1>8 DEF Answer
  <2> HIDE DEF x
  <2>3. Good(x, s)
    BY <1>2, <1>3, <1>4, <1>5, <1>8, <2>1 DEF Good, Awaiting, Honest, FreeTrue, FreeBelow, UsedUp, SeenRecord, Is
  <2> QED
    BY <1>6, <2>1, <2>2, <2>3 DEF Is
<1>9. CASE Answer(h, r, 503)
  <2> DEFINE x == [r EXCEPT !.pc = "idle", !.resp = 503]
  <2>1. Is(x, r, "idle", r.free, r.paid, 503, r.unread)
    BY <1>2, <1>5, Literals, Ends DEF Reads
  <2>2. reply' = [reply EXCEPT ![h] = x] /\ ((UNCHANGED vars) \/ Finish(h))
    BY <1>9 DEF Answer
  <2> HIDE DEF x
  <2>3. Good(x, s)
    BY <1>2, <1>3, <1>4, <1>5, <1>9, <2>1 DEF Good, Awaiting, Honest, FreeTrue, FreeBelow, UsedUp, SeenRecord, Is
  <2> QED
    BY <1>6, <2>1, <2>2, <2>3 DEF Is
<1> QED
  BY <1>7, <1>8, <1>9 DEF ReadBalance

LEMMA ReservePaidKeeps ==
    ASSUME BalInv, NEW h \in Handlers, ReservePaid(h) PROVE BalInv'
<1> DEFINE r == reply[h]
           s == seen[h]
           u == used[Dev(h)]
           b == paid[Dev(h)]
<1> USE QuotaAssumption
<1>1. req[h] = "running" /\ r.pc = "reservePaid" /\ StoresStay
  BY DEF ReservePaid, At
<1>2. Good(r, s) /\ r \in ReplyRecord /\ s \in SeenRecord
  BY DEF BalInv
<1>3. u \in 0..MaxUsed /\ u \in s.used /\ b \in s.paid /\ b \in 0..MaxPaid
  BY <1>1 DEF BalInv, Current
<1>4. /\ ~r.refused /\ r.resp = 0 /\ r.unread = {} /\ r.free = 0 /\ r.op = "session" /\ UsedUp(s)
      /\ r.paid \in s.paid /\ r.paid > 0
  BY <1>1, <1>2 DEF Good, Awaiting
<1>5. r.paid \in Nat /\ \A v \in 0..MaxUsed: v >= FreeBumpsPerDay => Room(v) = 0
  BY <1>2, <1>3, Members DEF Room, Amounts
<1>6. ASSUME NEW x, Good(x, s), x.op = r.op, x.dev = r.dev, reply' = [reply EXCEPT ![h] = x],
             (UNCHANGED vars) \/ Finish(h)
      PROVE  BalInv'
  BY <1>1, <1>6, Replying DEF Dev
<1>7. CASE Answer(h, r, 200)
  <2> DEFINE x == [r EXCEPT !.pc = "idle", !.resp = 200]
  <2>1. Is(x, r, "idle", r.free, r.paid, 200, r.unread)
    BY <1>2, <1>5, Literals, Ends DEF Reads
  <2>2. reply' = [reply EXCEPT ![h] = x] /\ ((UNCHANGED vars) \/ Finish(h))
    BY <1>7 DEF Answer
  <2> HIDE DEF x
  <2>3. Good(x, s)
    BY <1>2, <1>3, <1>4, <1>5, <1>7, <2>1 DEF Good, Awaiting, Honest, FreeTrue, FreeBelow, UsedUp, SeenRecord, Is
  <2> QED
    BY <1>6, <2>1, <2>2, <2>3 DEF Is
<1>8. CASE Answer(h, r, 503)
  <2> DEFINE x == [r EXCEPT !.pc = "idle", !.resp = 503]
  <2>1. Is(x, r, "idle", r.free, r.paid, 503, r.unread)
    BY <1>2, <1>5, Literals, Ends DEF Reads
  <2>2. reply' = [reply EXCEPT ![h] = x] /\ ((UNCHANGED vars) \/ Finish(h))
    BY <1>8 DEF Answer
  <2> HIDE DEF x
  <2>3. Good(x, s)
    BY <1>2, <1>3, <1>4, <1>5, <1>8, <2>1 DEF Good, Awaiting, Honest, FreeTrue, FreeBelow, UsedUp, SeenRecord, Is
  <2> QED
    BY <1>6, <2>1, <2>2, <2>3 DEF Is
<1> QED
  BY <1>7, <1>8 DEF ReservePaid

LEMMA ReadPaidKeeps ==
    ASSUME BalInv, NEW h \in Handlers, ReadPaid(h) PROVE BalInv'
<1> DEFINE r == reply[h]
           s == seen[h]
           u == used[Dev(h)]
           b == paid[Dev(h)]
<1> USE QuotaAssumption
<1>1. req[h] = "running" /\ r.pc = "paid" /\ StoresStay
  BY DEF ReadPaid, At
<1>2. Good(r, s) /\ r \in ReplyRecord /\ s \in SeenRecord
  BY DEF BalInv
<1>3. u \in 0..MaxUsed /\ u \in s.used /\ b \in s.paid /\ b \in 0..MaxPaid
  BY <1>1 DEF BalInv, Current
<1>4. /\ ~r.refused /\ r.resp = 0 /\ r.paid = 0
      /\ r.dev \notin DevAllowlist =>
            FreeTrue(r, s) /\ FreeBelow(r, s) /\ (r.op = "session" => r.free >= 1)
  BY <1>1, <1>2 DEF Good, Awaiting
<1>5. b \in Amounts /\ b \in Nat /\ r.unread \cup {"database"} \in Losses /\ r.free \in Int
  BY <1>2, <1>3, Members DEF Amounts
<1>6. ASSUME NEW x, Good(x, s), x.op = r.op, x.dev = r.dev, reply' = [reply EXCEPT ![h] = x],
             (UNCHANGED vars) \/ Finish(h)
      PROVE  BalInv'
  BY <1>1, <1>6, Replying DEF Dev
<1>7. CASE Answer(h, [r EXCEPT !.paid = b], 200)
  <2> DEFINE x == [[r EXCEPT !.paid = b] EXCEPT !.pc = "idle", !.resp = 200]
  <2>1. Is(x, r, "idle", r.free, b, 200, r.unread)
    BY <1>2, <1>5, Literals, EndsPaid DEF Reads
  <2>2. reply' = [reply EXCEPT ![h] = x] /\ ((UNCHANGED vars) \/ Finish(h))
    BY <1>7 DEF Answer
  <2> HIDE DEF x
  <2>3. Good(x, s)
    BY <1>2, <1>3, <1>4, <1>5, <1>7, <2>1 DEF Good, Awaiting, Honest, FreeTrue, FreeBelow, UsedUp, SeenRecord, Is
  <2> QED
    BY <1>6, <2>1, <2>2, <2>3 DEF Is
<1>8. CASE Answer(h, [r EXCEPT !.unread = @ \cup {"database"}], 200)
  <2> DEFINE x == [[r EXCEPT !.unread = r.unread \cup {"database"}] EXCEPT !.pc = "idle", !.resp = 200]
  <2>1. Is(x, r, "idle", r.free, r.paid, 200, r.unread \cup {"database"})
    BY <1>2, <1>5, Literals, EndsUnread DEF Reads
  <2>2. reply' = [reply EXCEPT ![h] = x] /\ ((UNCHANGED vars) \/ Finish(h))
    BY <1>8 DEF Answer
  <2> HIDE DEF x
  <2>3. Good(x, s)
    BY <1>2, <1>3, <1>4, <1>5, <1>8, <2>1 DEF Good, Awaiting, Honest, FreeTrue, FreeBelow, UsedUp, SeenRecord, Is
  <2> QED
    BY <1>6, <2>1, <2>2, <2>3 DEF Is
<1> QED
  BY <1>7, <1>8 DEF ReadPaid

\* A commit's script: the count it returns is the one that the device has from then on.
LEMMA CommitScriptKeeps ==
    ASSUME BalInv, NEW h \in Handlers, CommitScript(h) PROVE BalInv'
<1> DEFINE r == reply[h]
           u == used'[Dev(h)]
<1> USE QuotaAssumption
<1>1. req[h] = "running" /\ r.pc = "script"
  BY DEF CommitScript, At
<1>2. Good(r, seen[h]) /\ r \in ReplyRecord /\ seen[h] \in SeenRecord
  BY DEF BalInv
<1>3. Dev(h) \in Devices
  BY <1>1 DEF BalInv, Current
<1>4. ~r.refused /\ r.resp = 0 /\ r.unread = {} /\ r.free = 0 /\ r.op = "commit" /\ r.paid = 0
  BY <1>1, <1>2 DEF Good, Awaiting
<1>5. CASE /\ used' \in {used, [used EXCEPT ![Dev(h)] = @ + 1]} /\ u <= MaxUsed
           /\ Gather(h, [r EXCEPT !.pc = "paid", !.free = Left(u)])
           /\ Witness(used', paid) /\ UNCHANGED paid
  <2> DEFINE x == [r EXCEPT !.pc = "paid", !.free = Left(u)]
             s == seen'[h]
  <2>1. used' \in [Devices -> 0..MaxUsed] /\ paid' \in [Devices -> 0..MaxPaid]
    BY <1>3, <1>5 DEF BalInv
  <2>2. UNCHANGED vars /\ Witness(used', paid') /\ reply' = [reply EXCEPT ![h] = x]
    BY <1>5 DEF Gather
  <2>3. s \in SeenRecord /\ u \in s.used
    BY <1>1, <2>1, <2>2, Witnessing
  <2>4. u \in 0..MaxUsed /\ Left(u) = FreeBumpsPerDay - u /\ Left(u) \in Frees
    BY <1>3, <2>1, Members DEF Left
  <2>5. Is(x, r, "paid", Left(u), r.paid, r.resp, r.unread)
    BY <1>2, <2>4, Literals, GoesOnFree DEF Reads
  <2> HIDE DEF x
  <2>6. Good(x, s)
    BY <1>4, <2>3, <2>4, <2>5 DEF Good, Awaiting, Honest, FreeTrue, FreeBelow, Is, Room
  <2> QED
    BY <1>1, <2>1, <2>2, <2>5, <2>6, Changing DEF Is, Dev
<1>6. CASE Answer(h, r, 503) /\ StoresStay
  <2> DEFINE x == [r EXCEPT !.pc = "idle", !.resp = 503]
  <2>1. Is(x, r, "idle", r.free, r.paid, 503, r.unread)
    BY <1>2, Literals, Ends
  <2>2. reply' = [reply EXCEPT ![h] = x] /\ Finish(h)
    BY <1>6 DEF Answer
  <2> HIDE DEF x
  <2>3. Good(x, seen[h])
    BY <1>2, <1>4, <2>1 DEF Good, Awaiting, Honest, Is
  <2> QED
    BY <1>1, <1>6, <2>1, <2>2, <2>3, Replying DEF Is, Dev
<1>7. CASE Answer(h, r, 410) /\ StoresStay
  <2> DEFINE x == [r EXCEPT !.pc = "idle", !.resp = 410]
  <2>1. Is(x, r, "idle", r.free, r.paid, 410, r.unread)
    BY <1>2, Literals, Ends
  <2>2. reply' = [reply EXCEPT ![h] = x] /\ Finish(h)
    BY <1>7 DEF Answer
  <2> HIDE DEF x
  <2>3. Good(x, seen[h])
    BY <1>2, <1>4, <2>1 DEF Good, Awaiting, Honest, Is
  <2> QED
    BY <1>1, <1>7, <2>1, <2>2, <2>3, Replying DEF Is, Dev
<1> QED
  BY <1>5, <1>6, <1>7 DEF CommitScript

\* A refusal shows 0 of both, which no device can have less than.
LEMMA RefuseKeeps ==
    ASSUME BalInv, NEW h \in Handlers, req[h] = "running",
           reply[h].pc \in {"replay", "check", "credit"}, Refuse(h), StoresStay
    PROVE  BalInv'
<1> DEFINE r == reply[h]
           s == seen[h]
           x == [[r EXCEPT !.refused = TRUE] EXCEPT !.pc = "idle", !.resp = 200]
           u == used[Dev(h)]
           b == paid[Dev(h)]
<1> USE QuotaAssumption
<1>1. Good(r, s) /\ r \in ReplyRecord /\ s \in SeenRecord
  BY DEF BalInv
<1>2. u \in 0..MaxUsed /\ u \in s.used /\ b \in s.paid /\ b \in 0..MaxPaid
  BY DEF BalInv, Current
<1>3. r.unread = {} /\ r.free = 0 /\ r.op = "verify" /\ r.paid = 0
  BY <1>1 DEF Good, Awaiting
<1>4. /\ x \in ReplyRecord /\ x.op = r.op /\ x.dev = r.dev /\ x.pc = "idle" /\ x.resp = 200
      /\ x.free = r.free /\ x.paid = r.paid /\ x.unread = r.unread /\ x.refused
  BY <1>1, Literals DEF ReplyRecord
<1>5. reply' = [reply EXCEPT ![h] = x] /\ Finish(h)
  BY DEF Refuse, Answer
<1> HIDE DEF x
<1>6. 0 <= Room(u) /\ 0 <= b
  BY <1>2 DEF Room
<1>7. FreeBelow(x, s) /\ \E n \in s.paid: x.paid <= n
  BY <1>2, <1>3, <1>4, <1>6 DEF FreeBelow
<1>8. Good(x, s)
  BY <1>1, <1>3, <1>4, <1>7 DEF Good, Awaiting, Honest
<1> QED
  BY <1>4, <1>5, <1>8, Replying DEF Dev

LEMMA ReplayCheckKeeps ==
    ASSUME BalInv, NEW h \in Handlers, ReplayCheck(h) PROVE BalInv'
<1> DEFINE r == reply[h]
<1>1. req[h] = "running" /\ r.pc = "replay" /\ StoresStay
  BY DEF ReplayCheck, At
<1>2. Good(r, seen[h]) /\ r \in ReplyRecord
  BY DEF BalInv
<1>3. r.resp = 0 /\ r.unread = {} /\ r.free = 0 /\ r.op = "verify" /\ r.paid = 0 /\ ~r.refused
  BY <1>1, <1>2 DEF Good, Awaiting
<1>4. CASE Gather(h, [r EXCEPT !.pc = "check"])
  <2> DEFINE x == [r EXCEPT !.pc = "check"]
  <2>1. Is(x, r, "check", r.free, r.paid, r.resp, r.unread)
    BY <1>2, Literals, GoesOn DEF Reads
  <2>2. reply' = [reply EXCEPT ![h] = x] /\ UNCHANGED vars
    BY <1>4 DEF Gather
  <2> HIDE DEF x
  <2>3. Good(x, seen[h])
    BY <1>2, <1>3, <2>1 DEF Good, Awaiting, Honest, Is
  <2> QED
    BY <1>1, <2>1, <2>2, <2>3, Replying DEF Is, Dev
<1>5. CASE Answer(h, r, 503)
  <2> DEFINE x == [r EXCEPT !.pc = "idle", !.resp = 503]
  <2>1. Is(x, r, "idle", r.free, r.paid, 503, r.unread)
    BY <1>2, Literals, Ends
  <2>2. reply' = [reply EXCEPT ![h] = x] /\ Finish(h)
    BY <1>5 DEF Answer
  <2> HIDE DEF x
  <2>3. Good(x, seen[h])
    BY <1>2, <1>3, <2>1 DEF Good, Awaiting, Honest, Is
  <2> QED
    BY <1>1, <2>1, <2>2, <2>3, Replying DEF Is, Dev
<1> QED
  BY <1>1, <1>4, <1>5, RefuseKeeps DEF ReplayCheck

LEMMA CheckPurchaseKeeps ==
    ASSUME BalInv, NEW h \in Handlers, CheckPurchase(h) PROVE BalInv'
<1> DEFINE r == reply[h]
           x == [r EXCEPT !.pc = "credit"]
<1>1. req[h] = "running" /\ r.pc = "check" /\ StoresStay
  BY DEF CheckPurchase, At
<1>2. Good(r, seen[h]) /\ r \in ReplyRecord
  BY DEF BalInv
<1>3. r.resp = 0 /\ r.unread = {} /\ r.free = 0 /\ r.op = "verify" /\ r.paid = 0 /\ ~r.refused
  BY <1>1, <1>2 DEF Good, Awaiting
<1>4. CASE Gather(h, x)
  <2>1. Is(x, r, "credit", r.free, r.paid, r.resp, r.unread)
    BY <1>2, Literals, GoesOn DEF Reads
  <2>2. reply' = [reply EXCEPT ![h] = x] /\ UNCHANGED vars
    BY <1>4 DEF Gather
  <2> HIDE DEF x
  <2>3. Good(x, seen[h])
    BY <1>2, <1>3, <2>1 DEF Good, Awaiting, Honest, Is
  <2> QED
    BY <1>1, <2>1, <2>2, <2>3, Replying DEF Is, Dev
<1> QED
  BY <1>1, <1>4, RefuseKeeps DEF CheckPurchase

LEMMA CreditPurchaseKeeps ==
    ASSUME BalInv, NEW h \in Handlers, CreditPurchase(h) PROVE BalInv'
<1> DEFINE r == reply[h]
           b == paid'[Dev(h)]
<1> USE QuotaAssumption
<1>1. req[h] = "running" /\ r.pc = "credit"
  BY DEF CreditPurchase, At
<1>2. Good(r, seen[h]) /\ r \in ReplyRecord /\ seen[h] \in SeenRecord
  BY DEF BalInv
<1>3. Dev(h) \in Devices
  BY <1>1 DEF BalInv, Current
<1>4. ~r.refused /\ r.resp = 0 /\ r.unread = {} /\ r.free = 0 /\ r.op = "verify"
  BY <1>1, <1>2 DEF Good, Awaiting
<1>5. CASE /\ paid[Dev(h)] < MaxPaid
           /\ paid' = [paid EXCEPT ![Dev(h)] = @ + 1]
           /\ Gather(h, [r EXCEPT !.pc = "used", !.paid = b])
           /\ Witness(used, paid') /\ UNCHANGED used
  <2> DEFINE x == [r EXCEPT !.pc = "used", !.paid = b]
             s == seen'[h]
  <2>1. used' \in [Devices -> 0..MaxUsed] /\ paid' \in [Devices -> 0..MaxPaid]
    BY <1>3, <1>5 DEF BalInv
  <2>2. UNCHANGED vars /\ Witness(used', paid') /\ reply' = [reply EXCEPT ![h] = x]
    BY <1>5 DEF Gather
  <2>3. s \in SeenRecord /\ b \in s.paid
    BY <1>1, <2>1, <2>2, Witnessing
  <2>4. b \in Amounts
    BY <1>3, <2>1 DEF Amounts
  <2>5. Is(x, r, "used", r.free, b, r.resp, r.unread)
    BY <1>2, <2>4, Literals, GoesOnPaid DEF Reads
  <2> HIDE DEF x
  <2>6. Good(x, s)
    BY <1>4, <2>3, <2>5 DEF Good, Awaiting, Honest, Is
  <2> QED
    BY <1>1, <2>1, <2>2, <2>5, <2>6, Changing DEF Is, Dev
<1>6. CASE Answer(h, r, 503) /\ StoresStay
  <2> DEFINE x == [r EXCEPT !.pc = "idle", !.resp = 503]
  <2>1. Is(x, r, "idle", r.free, r.paid, 503, r.unread)
    BY <1>2, Literals, Ends
  <2>2. reply' = [reply EXCEPT ![h] = x] /\ Finish(h)
    BY <1>6 DEF Answer
  <2> HIDE DEF x
  <2>3. Good(x, seen[h])
    BY <1>2, <1>4, <2>1 DEF Good, Awaiting, Honest, Is
  <2> QED
    BY <1>1, <1>6, <2>1, <2>2, <2>3, Replying DEF Is, Dev
<1>7. CASE Refuse(h) /\ StoresStay
  BY <1>1, <1>7, RefuseKeeps
<1> QED
  BY <1>5, <1>6, <1>7 DEF CreditPurchase

LEMMA ElsewhereKeeps ==
    ASSUME BalInv, NEW d \in Devices, Elsewhere(d) PROVE BalInv'
<1>1. PICK g \in Handlers: req[g] = "running"
  BY DEF Elsewhere
<1>2. used' \in [Devices -> 0..MaxUsed] /\ paid' \in [Devices -> 0..MaxPaid]
  BY DEF Elsewhere, BalInv
<1>3. UNCHANGED vars /\ Witness(used', paid') /\ reply' = [reply EXCEPT ![g] = reply[g]]
  BY DEF Elsewhere, BalInv
<1>4. Good(reply[g], seen'[g])
  <2>1. Good(reply[g], seen[g])
    BY DEF BalInv
  <2>2. seen'[g] \in SeenRecord /\ seen[g].used \subseteq seen'[g].used
        /\ seen[g].paid \subseteq seen'[g].paid
    BY <1>2, <1>3, Witnessing
  <2> QED
    BY <2>1, <2>2, SeeingMore
<1> QED
  BY <1>1, <1>2, <1>3, <1>4, Changing DEF Dev

\* A new request: nothing is gathered, and what the stores hold now has been seen.
LEMMA AskKeeps ==
    ASSUME BalInv, NEW h \in Handlers, NEW op \in Operations, NEW d \in Devices, Ask(h, op, d)
    PROVE  BalInv'
<1> USE QuotaAssumption
<1> DEFINE bypass == d \in DevAllowlist /\ op # "verify"
           x == [NoReply EXCEPT !.op = op, !.dev = d,
                                !.pc = IF bypass THEN "paid" ELSE FirstRead(op),
                                !.free = IF bypass THEN FreeBumpsPerDay ELSE 0]
           t == [used |-> {used[d]}, paid |-> {paid[d]}]
<1>1. /\ req' = [req EXCEPT ![h] = "running"]
      /\ reply' = [reply EXCEPT ![h] = x] /\ seen' = [seen EXCEPT ![h] = t]
      /\ UNCHANGED <<used, paid>>
  BY DEF Ask, Request
<1>2. t \in SeenRecord
  BY DEF SeenRecord, BalInv
<1>3. /\ x.op = op /\ x.dev = d /\ x.resp = 0 /\ x.paid = 0 /\ x.unread = {} /\ ~x.refused
      /\ x.pc = IF bypass THEN "paid" ELSE FirstRead(op)
      /\ x.free = IF bypass THEN FreeBumpsPerDay ELSE 0
  BY DEF NoReply
<1>4. FirstRead(op) \in Reads
  BY DEF FirstRead, Reads, Operations
<1>5. x \in ReplyRecord
  <2>1. op \in Ops /\ d \in Devs
    BY DEF Ops, Devs
  <2>2. (IF bypass THEN "paid" ELSE FirstRead(op)) \in Pcs
    BY <1>4 DEF Pcs, Reads
  <2>3. (IF bypass THEN FreeBumpsPerDay ELSE 0) \in Frees
    BY DEF Frees
  <2>4. NoReply \in ReplyRecord
    BY DEF NoReply, ReplyRecord, Ops, Pcs, Devs, Frees, Amounts, Codes, Losses
  <2>5. \A r \in ReplyRecord, o \in Ops, v \in Devs, p \in Pcs, f \in Frees:
            [r EXCEPT !.op = o, !.dev = v, !.pc = p, !.free = f] \in ReplyRecord
    BY DEF ReplyRecord
  <2> HIDE DEF bypass
  <2> QED
    BY <2>1, <2>2, <2>3, <2>4, <2>5
<1>6. Good(x, t)
  <2>1. op = "bumps" => FirstRead(op) = "used"
    BY DEF FirstRead
  <2>2. op = "recommit" => FirstRead(op) = "used"
    BY DEF FirstRead
  <2>3. op = "session" => FirstRead(op) = "reserve"
    BY DEF FirstRead
  <2>4. op = "commit" => FirstRead(op) = "script"
    BY DEF FirstRead
  <2>5. op = "verify" => FirstRead(op) = "replay"
    BY DEF FirstRead
  <2> HIDE DEF x, t
  <2> QED
    BY <1>2, <1>3, <1>4, <1>5, <2>1, <2>2, <2>3, <2>4, <2>5
       DEF Good, Awaiting, Honest, Operations
<1> HIDE DEF x
<1>7. used[d] \in t.used /\ paid[d] \in t.paid
  OBVIOUS
<1>8. ASSUME NEW g \in Handlers PROVE Good(reply'[g], seen'[g]) /\ Current(g)'
  <2>1. CASE g = h
    <3>1. reply'[g] = x /\ seen'[g] = t
      BY <1>1, <2>1 DEF BalInv
    <3>2. x.op # "none"
      BY <1>3 DEF Operations
    <3> QED
      BY <1>1, <1>3, <1>6, <1>7, <3>1, <3>2 DEF Current, Dev
  <2>2. CASE g # h
    BY <1>1, <2>2 DEF BalInv, Current, Dev
  <2> QED
    BY <2>1, <2>2
<1> QED
  BY <1>1, <1>2, <1>5, <1>8 DEF BalInv

\* main starts no request and no reply.
LEMMA ProcessKeeps ==
    ASSUME BalInv, Main \/ Die \/ Signal \/ Shutdown, UNCHANGED balances
    PROVE  BalInv'
<1>1. UNCHANGED req \/ Exit
  BY DEF Main, NewSigner, ProductionGate, Connect, Migrate, ConnectRedis, NewVerifyHandler, Check,
         Listen, Return, CloseRedis, CloseDatabase, Die, Signal, Shutdown
<1>2. /\ req' \in [Handlers -> {"none", "running", "served", "failed", "cut"}]
      /\ \A h \in Handlers: req'[h] = "running" => req[h] = "running"
  BY <1>1 DEF Exit, BalInv
<1> QED
  BY <1>2 DEF BalInv, balances, Current, Dev

LEMMA BalStep == BalInv /\ [BalancesNext]_<<vars, balances>> => BalInv'
<1> SUFFICES ASSUME BalInv, [BalancesNext]_<<vars, balances>> PROVE BalInv'
  OBVIOUS
<1>1. CASE (Main \/ Die \/ Signal \/ Shutdown) /\ UNCHANGED balances
  BY <1>1, ProcessKeeps
<1>2. ASSUME NEW h \in Handlers, Gathering(h) PROVE BalInv'
  BY <1>2, ReadUsedKeeps, ReserveKeeps, ReadBalanceKeeps, ReservePaidKeeps, CommitScriptKeeps,
     ReplayCheckKeeps, CheckPurchaseKeeps, CreditPurchaseKeeps, ReadPaidKeeps DEF Gathering
<1>3. ASSUME NEW h \in Handlers, NEW op \in Operations, NEW d \in Devices, Ask(h, op, d)
      PROVE  BalInv'
  BY <1>3, AskKeeps
<1>4. ASSUME NEW d \in Devices, Elsewhere(d) PROVE BalInv'
  BY <1>4, ElsewhereKeeps
<1>5. CASE UNCHANGED <<vars, balances>>
  BY <1>5 DEF vars, balances, BalInv, Current, Dev
<1> QED
  BY <1>1, <1>2, <1>3, <1>4, <1>5 DEF BalancesNext

\* The counters and the replies are typed, and only commits show a negative count.
THEOREM BalancesTyped == BalancesSpec => []BalancesTypeOK
<1>1. BalInv => BalancesTypeOK
  BY DEF BalInv, BalancesTypeOK, Good, ReplyRecord, SeenRecord, Ops, Pcs, Devs, Frees, Amounts,
         Codes, Losses
<1> QED
  BY BalInit, BalStep, <1>1, PTL DEF BalancesSpec

\* Each number of a 200 that refuses no purchase was true at some moment of its
\* request, if no read failed.
THEOREM ShownTrue == BalancesSpec => []ShownWasTrue
<1>1. BalInv => ShownWasTrue
  BY DEF BalInv, ShownWasTrue, Shown, Dev, Good, Honest, FreeTrue
<1> QED
  BY BalInit, BalStep, <1>1, PTL DEF BalancesSpec

\* Whatever fails, no 200 promises a bump that was never there, but for the free
\* bumps of the branches of /session/commit that drop the error of their read.
THEOREM NotOverstated == BalancesSpec => []NothingOverstated
<1>1. BalInv => NothingOverstated
  BY DEF BalInv, NothingOverstated, Shown, Dev, Good, Honest, FreeBelow
<1> QED
  BY BalInit, BalStep, <1>1, PTL DEF BalancesSpec

\* A session is given to a device that is shown a bump, and refused to one that had none.
THEOREM SessionMatches == BalancesSpec => []SessionMatchesBalance
<1>1. BalInv => SessionMatchesBalance
  BY DEF BalInv, SessionMatchesBalance, Dev, Good, Honest, UsedUp
<1> QED
  BY BalInit, BalStep, <1>1, PTL DEF BalancesSpec
=============================================================================
