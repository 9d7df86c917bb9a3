----------------------------- MODULE Purchases -----------------------------
(***************************************************************************)
(* POST /verify: a purchase is checked with the store it was made in and   *)
(* credited to a device in one Postgres transaction (handlers/verify.go,   *)
(* db/queries.go).                                                         *)
(*                                                                         *)
(* The transaction inserts the replay key of the purchase, ON CONFLICT DO  *)
(* NOTHING, and then adds to the paid balance of the device.  As Postgres  *)
(* does under READ COMMITTED, an insert of a key another open transaction  *)
(* has inserted waits for that transaction, and so does an update of a row *)
(* that another open transaction has updated.  An open transaction holds   *)
(* one connection of the pool.                                             *)
(***************************************************************************)
EXTENDS Integers, FiniteSets

CONSTANTS
    Devices,
    GoogleTokens,   \* purchase tokens of Google Play
    AppleTokens,    \* StoreKit transactions, as the JSON texts clients send
    Transactions,   \* the transaction ids of Apple
    TransactionOf,  \* the id in a JSON text, NoTransaction if it is refused
    Handlers,
    PoolSize,       \* MaxOpenConns
    MaxSpent,       \* bound: how often a device spends
    Faults,         \* which calls can fail, and how
    CrashAllowed,
    NoDevice, NoTransaction, NoToken, NoHandler

Tokens == GoogleTokens \cup AppleTokens
Steps == {"replayed", "google", "begin", "insert", "increment", "commit"}

ASSUME TokenAssumption ==
    /\ GoogleTokens \cap AppleTokens = {} /\ NoToken \notin Tokens
    /\ Transactions \cap Tokens = {}
    /\ TransactionOf \in [AppleTokens -> Transactions \cup {NoTransaction}]
    /\ NoTransaction \notin Transactions \cup Tokens
ASSUME ServerAssumption ==
    /\ PoolSize \in Nat \ {0} /\ MaxSpent \in Nat
    /\ CrashAllowed \in BOOLEAN
    /\ Faults \subseteq Steps \X {"error", "lost"}
    /\ NoDevice \notin Devices /\ NoHandler \notin Handlers
    /\ IsFiniteSet(Handlers)

\* What verified_purchases.purchase_token holds: the token of Google, the
\* transaction id of Apple ("apple:" and the id; never a token of Google).
Keys == GoogleTokens \cup Transactions

VARIABLES
    service,    \* whether the handler got a Google Play service when it was made
    bought,     \* the tokens Google Play knows as purchased
    verified,   \* verified_purchases: the device a key was credited to
    balance,    \* device_bumps.paid_balance
    inserting,  \* the open transaction that has inserted a key
    updating,   \* the open transaction that has updated the row of a device
    req,        \* what each handler is doing
    others,     \* connections in use by other requests, a statement at a time
    spent,      \* how often a device has spent a bump
    granted     \* how often a key has been answered with valid: true

store == <<verified, balance, inserting, updating>>
vars == <<service, bought, store, req, others, spent, granted>>

NoRequest == [pc |-> "idle", dev |-> NoDevice, token |-> NoToken, resp |-> "none"]
Request == [pc: Steps \cup {"idle"}, dev: Devices \cup {NoDevice},
            token: Tokens \cup {NoToken}, resp: {"none", "valid", "invalid", "503"}]

Init ==
    /\ service \in BOOLEAN
    /\ bought = {}
    /\ verified = [k \in Keys |-> NoDevice]
    /\ balance = [d \in Devices |-> 0]
    /\ inserting = [k \in Keys |-> NoHandler]
    /\ updating = [d \in Devices |-> NoHandler]
    /\ req = [h \in Handlers |-> NoRequest]
    /\ others = 0
    /\ spent = [d \in Devices |-> 0]
    /\ granted = [k \in Keys |-> 0]
-----------------------------------------------------------------------------
At(h, step) == req[h].pc = step
Goto(h, step) == req' = [req EXCEPT ![h].pc = step]
Answer(h, what) == req' = [req EXCEPT ![h] = [NoRequest EXCEPT !.resp = what]]

\* The key under which the purchase of h is recorded.
KeyOf(t) == IF t \in AppleTokens THEN TransactionOf[t] ELSE t

InTransaction(h) == req[h].pc \in {"insert", "increment", "commit"}
FreeConnection == Cardinality({h \in Handlers: InTransaction(h)}) + others < PoolSize

NeverReleased(f, h) == f
\* What f is once h has ended its transaction.
Released(f, h) == [x \in DOMAIN f |-> IF f[x] = h THEN NoHandler ELSE f[x]]

\* The transaction of h ends without effect: its rows are free again.
RolledBack(h) ==
    /\ inserting' = Released(inserting, h)
    /\ updating' = Released(updating, h)
    /\ UNCHANGED <<verified, balance>>
-----------------------------------------------------------------------------
\* A request with a known product that the limiter lets through.
Verify(h, d, t) ==
    /\ At(h, "idle")
    /\ req' = [req EXCEPT ![h] = [pc |-> "replayed", dev |-> d, token |-> t, resp |-> "none"]]
    /\ UNCHANGED <<service, bought, store, others, spent, granted>>

\* The JSON text is no transaction, or not one for a bump.
NoPurchase(t) == TransactionOf[t] = NoTransaction

\* IsPurchaseVerified looks for the token as sent, which for Apple is no key.
\* An Apple transaction is read from the JSON and believed.
Replayed(h) ==
    LET t == req[h].token IN
    /\ At(h, "replayed")
    /\ FreeConnection
    /\ \/ /\ t \in GoogleTokens /\ verified[t] # NoDevice
          /\ Answer(h, "invalid")
       \/ /\ t \in GoogleTokens /\ verified[t] = NoDevice
          /\ Goto(h, IF service THEN "google" ELSE "begin")
       \/ /\ t \in AppleTokens /\ NoPurchase(t)
          /\ Answer(h, "invalid")
       \/ /\ t \in AppleTokens /\ ~NoPurchase(t)
          /\ Goto(h, "begin")
    /\ UNCHANGED <<service, bought, store, others, spent, granted>>

ConfirmedAlways(t) == TRUE
\* The Play Developer API knows the purchase and its state is 0.
Confirmed(t) == t \in bought

AskGoogle(h) ==
    /\ At(h, "google")
    /\ IF Confirmed(req[h].token) THEN Goto(h, "begin") ELSE Answer(h, "invalid")
    /\ UNCHANGED <<service, bought, store, others, spent, granted>>

Begin(h) ==
    /\ At(h, "begin")
    /\ FreeConnection
    /\ Goto(h, "insert")
    /\ UNCHANGED <<service, bought, store, others, spent, granted>>

ConflictIgnored(k) == FALSE
Conflict(k) == verified[k] # NoDevice

\* RecordVerifiedPurchaseTx.  A duplicate is answered after an empty commit.
Insert(h) ==
    LET k == KeyOf(req[h].token) IN
    /\ At(h, "insert")
    /\ inserting[k] = NoHandler
    /\ \/ /\ Conflict(k)
          /\ RolledBack(h)
          /\ Answer(h, "invalid")
       \/ /\ ~Conflict(k)
          /\ inserting' = [inserting EXCEPT ![k] = h]
          /\ Goto(h, "increment")
          /\ UNCHANGED <<verified, balance, updating>>
    /\ UNCHANGED <<service, bought, others, spent, granted>>

\* IncrementPaidBumpsTx.
Increment(h) ==
    /\ At(h, "increment")
    /\ updating[req[h].dev] = NoHandler
    /\ updating' = [updating EXCEPT ![req[h].dev] = h]
    /\ Goto(h, "commit")
    /\ UNCHANGED <<service, bought, verified, balance, inserting, others, spent, granted>>

\* The transaction of h becomes visible as a whole.
Committed(h) ==
    /\ verified' = [verified EXCEPT ![KeyOf(req[h].token)] = req[h].dev]
    /\ balance' = [balance EXCEPT ![req[h].dev] = @ + 1]
    /\ inserting' = Released(inserting, h)
    /\ updating' = Released(updating, h)

CommitTx(h) ==
    /\ At(h, "commit")
    /\ Committed(h)
    /\ Answer(h, "valid")
    /\ granted' = [granted EXCEPT ![KeyOf(req[h].token)] = @ + 1]
    /\ UNCHANGED <<service, bought, others, spent>>

\* A call of h reports an error.  Google's is answered like a refusal; the
\* others end the request with 503 and roll back what is open.  The reply to a
\* COMMIT can be lost after Postgres has executed it.
CallFails(h) ==
    /\ \/ /\ <<req[h].pc, "error">> \in Faults
          /\ RolledBack(h)
       \/ /\ At(h, "commit") /\ <<"commit", "lost">> \in Faults
          /\ Committed(h)
    /\ Answer(h, IF At(h, "google") THEN "invalid" ELSE "503")
    /\ UNCHANGED <<service, bought, others, spent, granted>>
-----------------------------------------------------------------------------
\* A purchase completes at Google Play.
Buy(t) ==
    /\ bought' = bought \cup {t}
    /\ UNCHANGED <<service, store, req, others, spent, granted>>

HasBalanceAlways(d) == TRUE
HasBalance(d) == balance[d] > 0

\* A paid commit spends a bump (TryConsumePaidBump, module Sessions).
Spend(d) ==
    /\ FreeConnection /\ updating[d] = NoHandler /\ HasBalance(d) /\ spent[d] < MaxSpent
    /\ balance' = [balance EXCEPT ![d] = @ - 1]
    /\ spent' = [spent EXCEPT ![d] = @ + 1]
    /\ UNCHANGED <<service, bought, verified, inserting, updating, req, others, granted>>

\* Another request takes a connection of the pool, and gives it back.
Occupy ==
    /\ FreeConnection
    /\ others' = others + 1
    /\ UNCHANGED <<service, bought, store, req, spent, granted>>

Vacate ==
    /\ others > 0
    /\ others' = others - 1
    /\ UNCHANGED <<service, bought, store, req, spent, granted>>

\* The process dies; Postgres rolls its transactions back.
Crash ==
    /\ CrashAllowed
    /\ \E h \in Handlers: ~At(h, "idle")
    /\ req' = [h \in Handlers |-> NoRequest]
    /\ inserting' = [k \in Keys |-> NoHandler]
    /\ updating' = [d \in Devices |-> NoHandler]
    /\ UNCHANGED <<service, bought, verified, balance, others, spent, granted>>

Step(h) ==
    Replayed(h) \/ AskGoogle(h) \/ Begin(h) \/ Insert(h) \/ Increment(h) \/ CommitTx(h)

Next ==
    \/ \E h \in Handlers:
          Step(h) \/ CallFails(h) \/ \E d \in Devices, t \in Tokens: Verify(h, d, t)
    \/ \E t \in GoogleTokens: Buy(t)
    \/ \E d \in Devices: Spend(d)
    \/ Occupy \/ Vacate
    \/ Crash

Spec == Init /\ [][Next]_vars

\* Postgres and the pool serve whoever waits for a row or a connection again and
\* again; nobody has to be saved by an error.
FairSpec == Spec /\ WF_vars(Vacate) /\ \A h \in Handlers: SF_vars(Step(h))
-----------------------------------------------------------------------------
(* Properties *)

\* The tables, locks and requests are typed; no balance is negative.
TypeOK ==
    /\ service \in BOOLEAN
    /\ bought \subseteq GoogleTokens
    /\ verified \in [Keys -> Devices \cup {NoDevice}]
    /\ balance \in [Devices -> Nat]
    /\ inserting \in [Keys -> Handlers \cup {NoHandler}]
    /\ updating \in [Devices -> Handlers \cup {NoHandler}]
    /\ req \in [Handlers -> Request]
    /\ others \in 0..PoolSize
    /\ spent \in [Devices -> Nat]
    /\ granted \in [Keys -> Nat]

\* A device's balance and what it has spent are exactly the purchases recorded for
\* it: no purchase is credited twice, to two devices or without a record, and none
\* is recorded without a credit (audit findings C1 and H1 of verify.go).
CreditsAreRecords ==
    \A d \in Devices:
        balance[d] + spent[d] = Cardinality({k \in Keys: verified[k] = d})

\* At most one request is told that a purchase is valid, and then it is recorded.
GrantedOnce ==
    \A k \in Keys: granted[k] <= 1 /\ (granted[k] = 1 => verified[k] # NoDevice)

\* With the service configured no Google token is credited that Google Play does
\* not know as purchased, errors of the API included.
GoogleConfirmed ==
    service => \A t \in GoogleTokens: verified[t] # NoDevice => t \in bought

\* Every request is answered, although transactions wait for each other's rows
\* and for a connection of a full pool.
Answered == \A h \in Handlers: ~At(h, "idle") ~> At(h, "idle")
=============================================================================
