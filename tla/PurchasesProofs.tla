-------------------------- MODULE PurchasesProofs --------------------------
(***************************************************************************)
(* Proofs about Purchases: no purchase is credited twice or without a      *)
(* record, for any number of devices, purchases, requests and connections. *)
(*                                                                         *)
(* A request that has inserted its key owns the row until it ends: nobody  *)
(* else inserts the key, so the key is still unrecorded when it commits.   *)
(***************************************************************************)
EXTENDS PurchasesShop, FiniteSetTheorems, TLAPS

USE TokenAssumption, ServerAssumption DEF Steps

Key(h) == KeyOf(req[h].token)

\* What a request knows about its purchase.
HandlerOK(h) ==
    /\ req[h].pc # "idle" => req[h].dev \in Devices /\ req[h].token \in Tokens
    /\ req[h].pc \in {"begin", "insert", "increment", "commit"} =>
          /\ Key(h) \in Keys
          /\ (service /\ req[h].token \in GoogleTokens) => req[h].token \in bought
    /\ req[h].pc \in {"increment", "commit"} => inserting[Key(h)] = h /\ verified[Key(h)] = NoDevice

Handling == \A h \in Handlers: HandlerOK(h)

RecordsOf(d) == {k \in Keys: verified[k] = d}

Counted == \A d \in Devices: IsFiniteSet(RecordsOf(d)) /\ balance[d] + spent[d] = Cardinality(RecordsOf(d))

IInv == TypeOK /\ Handling /\ Counted /\ GrantedOnce /\ GoogleConfirmed
-----------------------------------------------------------------------------
(* The pieces of a step *)

LEMMA Moves ==
    ASSUME TypeOK, NEW h \in Handlers
    PROVE  /\ \A step \in Steps: Goto(h, step) =>
                 /\ req' \in [Handlers -> Request]
                 /\ req'[h].pc = step /\ req'[h].dev = req[h].dev /\ req'[h].token = req[h].token
                 /\ \A g \in Handlers \ {h}: req'[g] = req[g]
           /\ \A what \in {"valid", "invalid", "503"}: Answer(h, what) =>
                 /\ req' \in [Handlers -> Request]
                 /\ req'[h].pc = "idle"
                 /\ \A g \in Handlers \ {h}: req'[g] = req[g]
<1>1. req \in [Handlers -> Request] /\ req[h] \in Request
  BY DEF TypeOK
<1>2. ASSUME NEW step \in Steps, Goto(h, step)
      PROVE  /\ req' \in [Handlers -> Request]
             /\ req'[h].pc = step /\ req'[h].dev = req[h].dev /\ req'[h].token = req[h].token
             /\ \A g \in Handlers \ {h}: req'[g] = req[g]
  BY <1>1, <1>2 DEF Goto, Request
<1>3. ASSUME NEW what \in {"valid", "invalid", "503"}, Answer(h, what)
      PROVE  /\ req' \in [Handlers -> Request]
             /\ req'[h].pc = "idle"
             /\ \A g \in Handlers \ {h}: req'[g] = req[g]
  BY <1>1, <1>3 DEF Answer, NoRequest, Request
<1> QED
  BY <1>2, <1>3

LEMMA ReleasedOthers ==
    ASSUME TypeOK, NEW h \in Handlers
    PROVE  /\ Released(inserting, h) \in [Keys -> Handlers \cup {NoHandler}]
           /\ Released(updating, h) \in [Devices -> Handlers \cup {NoHandler}]
           /\ \A k \in Keys, g \in Handlers \ {h}: inserting[k] = g => Released(inserting, h)[k] = g
  BY DEF TypeOK, Released

\* A step that records and credits nothing, and lets go of no row but its own.
LEMMA RecordsStay ==
    ASSUME IInv, UNCHANGED <<service, verified, balance, spent, granted>>, bought \subseteq bought'
    PROVE  Counted' /\ GrantedOnce' /\ GoogleConfirmed'
  BY DEF IInv, Counted, RecordsOf, GrantedOnce, GoogleConfirmed

LEMMA InitInv == Init => IInv
<1> SUFFICES ASSUME Init PROVE IInv
  OBVIOUS
<1>1. TypeOK /\ Handling /\ GrantedOnce /\ GoogleConfirmed
  BY DEF Init, TypeOK, Handling, HandlerOK, GrantedOnce, GoogleConfirmed, NoRequest, Request, Keys
<1>2. \A d \in Devices: RecordsOf(d) = {}
  BY DEF Init, RecordsOf
<1>3. ASSUME NEW d \in Devices PROVE balance[d] + spent[d] = 0
  BY DEF Init
<1>4. Counted
  BY <1>2, <1>3, FS_EmptySet DEF Counted
<1> QED
  BY <1>1, <1>4 DEF IInv

\* The request h moves on or ends; the rows of the others stay theirs.
LEMMA HandlingKept ==
    ASSUME IInv, NEW h \in Handlers, UNCHANGED <<service, verified>>, bought \subseteq bought',
           \A g \in Handlers \ {h}: req'[g] = req[g],
           \A k \in Keys, g \in Handlers \ {h}: inserting[k] = g => inserting'[k] = g,
           HandlerOK(h)'
    PROVE  Handling'
<1>1. ASSUME NEW g \in Handlers \ {h} PROVE HandlerOK(g)'
  BY <1>1 DEF IInv, Handling, HandlerOK, Key
<1> QED
  BY <1>1 DEF Handling
-----------------------------------------------------------------------------
(* Steps *)

LEMMA VerifyKeeps ==
    ASSUME IInv, NEW h \in Handlers, NEW d \in Devices, NEW t \in Tokens, Verify(h, d, t)
    PROVE  IInv'
<1>1. req' \in [Handlers -> Request] /\ req'[h].pc = "replayed" /\ req'[h].dev = d /\ req'[h].token = t
      /\ \A g \in Handlers \ {h}: req'[g] = req[g]
  BY DEF Verify, IInv, TypeOK, Request
<1>2. TypeOK'
  BY <1>1 DEF Verify, IInv, TypeOK, store
<1>3. Counted' /\ GrantedOnce' /\ GoogleConfirmed'
  BY RecordsStay DEF Verify, store
<1>4. HandlerOK(h)'
  BY <1>1 DEF HandlerOK
<1>5. Handling'
  BY <1>1, <1>4, HandlingKept DEF Verify, store
<1> QED
  BY <1>2, <1>3, <1>5 DEF IInv

\* The steps before the transaction writes anything.
LEMMA ChecksKeep ==
    ASSUME IInv, NEW h \in Handlers, Replayed(h) \/ AskGoogle(h) \/ Begin(h)
    PROVE  IInv'
<1>1. UNCHANGED <<service, bought, store, others, spent, granted>>
  BY DEF Replayed, AskGoogle, Begin
<1>2. req[h].pc \in {"replayed", "google", "begin"} /\ req[h].dev \in Devices /\ req[h].token \in Tokens
  BY DEF IInv, Handling, HandlerOK, Replayed, AskGoogle, Begin, At
<1>3. Answer(h, "invalid") \/ \E step \in {"google", "begin", "insert"}: Goto(h, step)
  BY DEF Replayed, AskGoogle, Begin
<1>4. /\ req' \in [Handlers -> Request]
      /\ \A g \in Handlers \ {h}: req'[g] = req[g]
      /\ req'[h].pc \in {"idle", "google", "begin", "insert"}
      /\ req'[h].pc # "idle" => req'[h].dev = req[h].dev /\ req'[h].token = req[h].token
  BY <1>3, Moves DEF IInv
<1>5. req'[h].pc \in {"begin", "insert"} =>
         /\ Key(h) \in Keys
         /\ (service /\ req[h].token \in GoogleTokens) => req[h].token \in bought
  <2>1. CASE Begin(h)
    BY <1>2, <2>1 DEF Begin, At, IInv, Handling, HandlerOK
  <2>2. CASE AskGoogle(h) /\ req'[h].pc # "idle"
    <3>1. req[h].token \in bought
      BY <2>2, Moves DEF AskGoogle, Confirmed, IInv
    <3>2. req[h].token \in GoogleTokens
      BY <3>1 DEF IInv, TypeOK
    <3> QED
      BY <1>2, <3>1, <3>2 DEF Key, KeyOf, Keys
  <2>3. CASE Replayed(h) /\ req'[h].pc \in {"begin", "insert"}
    <3>1. CASE req[h].token \in GoogleTokens
      <4>1. Goto(h, IF service THEN "google" ELSE "begin")
        BY <2>3, <3>1, Moves DEF Replayed, IInv
      <4>2. ~service
        BY <2>3, <4>1, Moves DEF IInv
      <4> QED
        BY <3>1, <4>2 DEF Key, KeyOf, Keys
    <3>2. CASE req[h].token \in AppleTokens
      <4>1. TransactionOf[req[h].token] # NoTransaction
        BY <2>3, <3>2, Moves DEF Replayed, NoPurchase, IInv
      <4> QED
        BY <3>2, <4>1 DEF Key, KeyOf, Keys
    <3> QED
      BY <1>2, <3>1, <3>2 DEF Tokens
  <2> QED
    BY <1>2, <1>4, <2>1, <2>2, <2>3
<1>6. HandlerOK(h)'
  BY <1>1, <1>2, <1>4, <1>5 DEF HandlerOK, Key
<1>7. Handling'
  BY <1>1, <1>4, <1>6, HandlingKept DEF store
<1>8. TypeOK' /\ Counted' /\ GrantedOnce' /\ GoogleConfirmed'
  BY <1>1, <1>4, RecordsStay DEF IInv, TypeOK, store
<1> QED
  BY <1>7, <1>8 DEF IInv

LEMMA InsertKeeps ==
    ASSUME IInv, NEW h \in Handlers, Insert(h)
    PROVE  IInv'
<1>1. /\ req[h].pc = "insert" /\ req[h].dev \in Devices /\ req[h].token \in Tokens /\ Key(h) \in Keys
      /\ (service /\ req[h].token \in GoogleTokens) => req[h].token \in bought
      /\ inserting[Key(h)] = NoHandler
  BY DEF IInv, Handling, HandlerOK, Insert, At, Key
<1>2. UNCHANGED <<service, bought, verified, balance, others, spent, granted>>
  BY DEF Insert, RolledBack
<1>3. Counted' /\ GrantedOnce' /\ GoogleConfirmed'
  BY <1>2, RecordsStay
<1>4. CASE RolledBack(h) /\ Answer(h, "invalid")
  <2>1. /\ req' \in [Handlers -> Request] /\ req'[h].pc = "idle"
        /\ \A g \in Handlers \ {h}: req'[g] = req[g]
    BY <1>4, Moves DEF IInv
  <2>2. TypeOK'
    BY <1>2, <1>4, <2>1, ReleasedOthers DEF IInv, TypeOK, RolledBack
  <2>3. HandlerOK(h)'
    BY <2>1 DEF HandlerOK
  <2>4. Handling'
    BY <1>2, <1>4, <2>1, <2>3, HandlingKept, ReleasedOthers DEF RolledBack, IInv
  <2> QED
    BY <1>3, <2>2, <2>4 DEF IInv
<1>5. CASE ~Conflict(Key(h)) /\ inserting' = [inserting EXCEPT ![Key(h)] = h] /\ Goto(h, "increment")
           /\ UNCHANGED updating
  <2>1. /\ req' \in [Handlers -> Request] /\ req'[h].pc = "increment"
        /\ req'[h].dev = req[h].dev /\ req'[h].token = req[h].token
        /\ \A g \in Handlers \ {h}: req'[g] = req[g]
    BY <1>5, Moves DEF IInv
  <2>2. inserting' \in [Keys -> Handlers \cup {NoHandler}] /\ inserting'[Key(h)] = h
        /\ \A k \in Keys \ {Key(h)}: inserting'[k] = inserting[k]
    BY <1>1, <1>5 DEF IInv, TypeOK
  <2>3. TypeOK'
    BY <1>2, <1>5, <2>1, <2>2 DEF IInv, TypeOK
  <2>4. HandlerOK(h)'
    <3>1. verified'[Key(h)] = NoDevice
      BY <1>2, <1>5 DEF Conflict
    <3> QED
      BY <1>1, <1>2, <2>1, <2>2, <3>1 DEF HandlerOK, Key
  <2>5. \A k \in Keys, g \in Handlers \ {h}: inserting[k] = g => inserting'[k] = g
    BY <1>1, <2>2
  <2>6. Handling'
    BY <1>2, <2>1, <2>4, <2>5, HandlingKept
  <2> QED
    BY <1>3, <2>3, <2>6 DEF IInv
<1> QED
  BY <1>4, <1>5 DEF Insert, Key

LEMMA IncrementKeeps ==
    ASSUME IInv, NEW h \in Handlers, Increment(h)
    PROVE  IInv'
<1>1. req[h].pc = "increment" /\ HandlerOK(h) /\ req[h].dev \in Devices
  BY DEF IInv, Handling, HandlerOK, Increment, At
<1>2. /\ req' \in [Handlers -> Request] /\ req'[h].pc = "commit"
      /\ req'[h].dev = req[h].dev /\ req'[h].token = req[h].token
      /\ \A g \in Handlers \ {h}: req'[g] = req[g]
  BY Moves DEF IInv, Increment
<1>3. UNCHANGED <<service, bought, verified, balance, inserting, others, spent, granted>>
  BY DEF Increment
<1>4. TypeOK'
  <2>1. updating' \in [Devices -> Handlers \cup {NoHandler}]
    BY DEF Increment, IInv, TypeOK
  <2> QED
    BY <1>2, <1>3, <2>1 DEF IInv, TypeOK
<1>5. HandlerOK(h)'
  BY <1>1, <1>2, <1>3 DEF HandlerOK, Key
<1>6. Handling'
  BY <1>2, <1>3, <1>5, HandlingKept
<1>7. Counted' /\ GrantedOnce' /\ GoogleConfirmed'
  BY <1>3, RecordsStay
<1> QED
  BY <1>4, <1>6, <1>7 DEF IInv

\* The commit of h, whether or not h hears of it: its key was not recorded before.
LEMMA CommittedKeeps ==
    ASSUME IInv, NEW h \in Handlers, At(h, "commit"), Committed(h),
           NEW what \in {"valid", "503"}, Answer(h, what),
           UNCHANGED <<service, bought, others, spent>>,
           granted' \in {granted, [granted EXCEPT ![Key(h)] = @ + 1]}
    PROVE  IInv'
<1>1. /\ req[h].pc = "commit" /\ req[h].dev \in Devices /\ req[h].token \in Tokens /\ Key(h) \in Keys
      /\ (service /\ req[h].token \in GoogleTokens) => req[h].token \in bought
      /\ inserting[Key(h)] = h /\ verified[Key(h)] = NoDevice
  BY DEF IInv, Handling, HandlerOK, At
<1>2. /\ req' \in [Handlers -> Request] /\ req'[h].pc = "idle"
      /\ \A g \in Handlers \ {h}: req'[g] = req[g]
  BY Moves DEF IInv
<1>3. /\ verified' \in [Keys -> Devices \cup {NoDevice}] /\ verified'[Key(h)] = req[h].dev
      /\ \A k \in Keys \ {Key(h)}: verified'[k] = verified[k]
      /\ balance' \in [Devices -> Nat] /\ balance'[req[h].dev] = balance[req[h].dev] + 1
      /\ \A d \in Devices \ {req[h].dev}: balance'[d] = balance[d]
  BY <1>1 DEF Committed, Key, IInv, TypeOK
<1>4. TypeOK'
  <2>1. granted' \in [Keys -> Nat]
    BY <1>1 DEF IInv, TypeOK
  <2> QED
    BY <1>2, <1>3, <2>1, ReleasedOthers DEF IInv, TypeOK, Committed
<1>5. Handling'
  <2>1. ASSUME NEW g \in Handlers \ {h}, req[g].pc \in {"increment", "commit"}
        PROVE  inserting'[Key(g)] = g /\ verified'[Key(g)] = NoDevice
    <3>1. Key(g) \in Keys /\ inserting[Key(g)] = g /\ verified[Key(g)] = NoDevice
      BY <2>1 DEF IInv, Handling, HandlerOK
    <3>2. Key(g) # Key(h)
      BY <1>1, <3>1
    <3> QED
      BY <1>3, <3>1, <3>2, ReleasedOthers DEF Committed, IInv
  <2>2. ASSUME NEW g \in Handlers \ {h} PROVE HandlerOK(g)'
    BY <1>2, <2>1 DEF IInv, Handling, HandlerOK, Key
  <2>3. HandlerOK(h)'
    BY <1>2 DEF HandlerOK
  <2> QED
    BY <2>2, <2>3 DEF Handling
<1>6. Counted'
  <2> SUFFICES ASSUME NEW d \in Devices
               PROVE  IsFiniteSet(RecordsOf(d)') /\ balance'[d] + spent'[d] = Cardinality(RecordsOf(d)')
    BY DEF Counted
  <2>1. /\ IsFiniteSet(RecordsOf(d)) /\ balance[d] + spent[d] = Cardinality(RecordsOf(d))
        /\ balance[d] \in Nat /\ spent[d] \in Nat
    BY DEF IInv, Counted, TypeOK
  <2>2. CASE d = req[h].dev
    <3>1. RecordsOf(d)' = RecordsOf(d) \cup {Key(h)} /\ Key(h) \notin RecordsOf(d)
      BY <1>1, <1>3, <2>2 DEF RecordsOf
    <3>2. IsFiniteSet(RecordsOf(d)') /\ Cardinality(RecordsOf(d)') = Cardinality(RecordsOf(d)) + 1
      BY <2>1, <3>1, FS_AddElement
    <3> QED
      BY <1>3, <2>1, <2>2, <3>2
  <2>3. CASE d # req[h].dev
    <3>1. RecordsOf(d)' = RecordsOf(d)
      BY <1>1, <1>3, <2>3 DEF RecordsOf
    <3> QED
      BY <1>3, <2>1, <2>3, <3>1
  <2> QED
    BY <2>2, <2>3
<1>7. GrantedOnce'
  <2>1. granted \in [Keys -> Nat] /\ granted[Key(h)] = 0
    BY <1>1 DEF IInv, TypeOK, GrantedOnce
  <2>2. \A k \in Keys \ {Key(h)}: granted'[k] = granted[k]
    BY <2>1
  <2>3. granted'[Key(h)] \in {0, 1}
    BY <1>1, <2>1
  <2>4. verified'[Key(h)] # NoDevice
    BY <1>1, <1>3
  <2> QED
    BY <1>3, <2>2, <2>3, <2>4 DEF IInv, GrantedOnce
<1>8. GoogleConfirmed'
  <2>1. Key(h) \in GoogleTokens => req[h].token = Key(h)
    BY <1>1 DEF Key, KeyOf, Tokens
  <2>2. GoogleTokens \subseteq Keys
    BY DEF Keys
  <2> QED
    BY <1>1, <1>3, <2>1, <2>2 DEF IInv, GoogleConfirmed
<1> QED
  BY <1>4, <1>5, <1>6, <1>7, <1>8 DEF IInv

LEMMA CallFailsKeeps ==
    ASSUME IInv, NEW h \in Handlers, CallFails(h)
    PROVE  IInv'
<1>1. PICK what \in {"invalid", "503"}: Answer(h, what)
  BY DEF CallFails
<1>2. CASE At(h, "commit") /\ Committed(h)
  <2>1. Answer(h, "503")
    BY <1>2 DEF CallFails, At
  <2> QED
    BY <1>2, <2>1, CommittedKeeps DEF CallFails
<1>3. CASE RolledBack(h)
  <2>1. /\ req' \in [Handlers -> Request] /\ req'[h].pc = "idle"
        /\ \A g \in Handlers \ {h}: req'[g] = req[g]
    BY <1>1, Moves DEF IInv
  <2>2. TypeOK'
    BY <1>3, <2>1, ReleasedOthers DEF IInv, TypeOK, RolledBack, CallFails
  <2>3. HandlerOK(h)'
    BY <2>1 DEF HandlerOK
  <2>4. Handling'
    BY <1>3, <2>1, <2>3, HandlingKept, ReleasedOthers DEF RolledBack, IInv, CallFails
  <2>5. Counted' /\ GrantedOnce' /\ GoogleConfirmed'
    BY <1>3, RecordsStay DEF RolledBack, CallFails
  <2> QED
    BY <2>2, <2>4, <2>5 DEF IInv
<1> QED
  BY <1>2, <1>3 DEF CallFails

LEMMA ElsewhereKeeps ==
    ASSUME IInv, \/ \E t \in GoogleTokens: Buy(t)
                 \/ \E d \in Devices: Spend(d)
                 \/ Occupy \/ Vacate \/ Crash \/ UNCHANGED vars
    PROVE  IInv'
<1>1. CASE (\E t \in GoogleTokens: Buy(t)) \/ Occupy \/ Vacate \/ UNCHANGED vars
  <2>1. UNCHANGED <<service, store, req, spent, granted>> /\ bought \subseteq bought'
    BY <1>1 DEF Buy, Occupy, Vacate, vars
  <2>2. others' \in 0..PoolSize
    <3>1. Occupy => others' \in 0..PoolSize
      <4> DEFINE Busy == {h \in Handlers: InTransaction(h)}
      <4>1. Cardinality(Busy) \in Nat
        BY FS_Subset, FS_CardinalityType
      <4>2. Occupy => Cardinality(Busy) + others < PoolSize /\ others' = others + 1
        BY DEF Occupy, FreeConnection
      <4> HIDE DEF Busy
      <4> QED
        BY <4>1, <4>2 DEF IInv, TypeOK
    <3> QED
      BY <1>1, <3>1 DEF Buy, Vacate, vars, IInv, TypeOK
  <2>3. TypeOK' /\ Handling'
    BY <1>1, <2>1, <2>2 DEF IInv, TypeOK, Handling, HandlerOK, Key, store, Buy, Occupy, Vacate, vars
  <2> QED
    BY <2>1, <2>3, RecordsStay DEF IInv, store
<1>2. ASSUME NEW d \in Devices, Spend(d) PROVE IInv'
  <2>1. UNCHANGED <<service, bought, verified, inserting, updating, req, others, granted>>
    BY <1>2 DEF Spend
  <2>2. /\ balance' \in [Devices -> Nat] /\ spent' \in [Devices -> Nat]
        /\ \A e \in Devices: balance'[e] + spent'[e] = balance[e] + spent[e]
    BY <1>2 DEF Spend, HasBalance, IInv, TypeOK
  <2>3. TypeOK' /\ Handling' /\ GrantedOnce' /\ GoogleConfirmed'
    BY <2>1, <2>2 DEF IInv, TypeOK, Handling, HandlerOK, Key, GrantedOnce, GoogleConfirmed
  <2>4. Counted'
    BY <2>1, <2>2 DEF IInv, Counted, RecordsOf
  <2> QED
    BY <2>3, <2>4 DEF IInv
<1>3. CASE Crash
  <2>1. TypeOK' /\ Handling'
    BY <1>3 DEF Crash, IInv, TypeOK, Handling, HandlerOK, NoRequest, Request
  <2> QED
    BY <1>3, <2>1, RecordsStay DEF Crash, IInv
<1> QED
  BY <1>1, <1>2, <1>3

LEMMA NextInv == IInv /\ [Next]_vars => IInv'
<1>1. ASSUME IInv, NEW h \in Handlers, CommitTx(h) PROVE IInv'
  BY <1>1, CommittedKeeps DEF CommitTx, Key
<1> QED
  BY <1>1, VerifyKeeps, ChecksKeep, InsertKeeps, IncrementKeeps, CallFailsKeeps, ElsewhereKeeps
     DEF Next, Step

LEMMA Invariance == Spec => []IInv
  BY InitInv, NextInv, PTL DEF Spec
-----------------------------------------------------------------------------
(* Theorems *)

\* Tables, locks, connections and requests stay within their types and no balance
\* goes below zero, whatever fails or crashes.
THEOREM TypeCorrect == Spec => []TypeOK
<1>1. IInv => TypeOK
  BY DEF IInv
<1> QED
  BY <1>1, Invariance, PTL

\* Every recorded purchase is credited to its device exactly once, and nothing is
\* credited without a record (the transaction of creditPurchase in verify.go).
THEOREM CreditsMatch == Spec => []CreditsAreRecords
<1>1. IInv => CreditsAreRecords
  BY DEF IInv, Counted, RecordsOf, CreditsAreRecords
<1> QED
  BY <1>1, Invariance, PTL

\* No two requests are told that the same purchase is valid, whether they race, retry
\* or wrap one Apple transaction in two texts (the primary key of verified_purchases).
THEOREM OneGrant == Spec => []GrantedOnce
<1>1. IInv => GrantedOnce
  BY DEF IInv
<1> QED
  BY <1>1, Invariance, PTL

\* With a service no Google token is credited unless Google Play knows it as
\* purchased, errors of the API included (verifyGoogle in verify.go).
THEOREM OnlyConfirmed == Spec => []GoogleConfirmed
<1>1. IInv => GoogleConfirmed
  BY DEF IInv
<1> QED
  BY <1>1, Invariance, PTL
-----------------------------------------------------------------------------
(* Purchases implements Shop: every step of a handler, of Postgres and of    *)
(* the faults is a step of Shop under the mapping of PurchasesShop.          *)

\* A handler that has answered has forgotten its request, and one that asks Google
\* Play has been made with a service and was sent one of its tokens.
Resting == \A h \in Handlers: req[h].pc = "idle" => req[h].dev = NoDevice /\ req[h].token = NoToken
AtGoogle == \A h \in Handlers: req[h].pc = "google" => service /\ req[h].token \in GoogleTokens

SInv == IInv /\ Resting /\ AtGoogle

\* A step of one handler that moves on or answers.
LEMMA RestingStep ==
    ASSUME SInv, NEW h \in Handlers, UNCHANGED service,
           \/ \E step \in Steps: Goto(h, step) /\ (step = "google" => service /\ req[h].token \in GoogleTokens)
           \/ \E what \in {"valid", "invalid", "503"}: Answer(h, what)
    PROVE  Resting' /\ AtGoogle'
<1>1. req \in [Handlers -> Request]
  BY DEF SInv, IInv, TypeOK
<1>2. CASE \E step \in Steps: Goto(h, step) /\ (step = "google" => service /\ req[h].token \in GoogleTokens)
  BY <1>2, Moves DEF SInv, IInv, Resting, AtGoogle
<1>3. CASE \E what \in {"valid", "invalid", "503"}: Answer(h, what)
  <2>1. req'[h].pc = "idle" /\ req'[h].dev = NoDevice /\ req'[h].token = NoToken
        /\ \A g \in Handlers \ {h}: req'[g] = req[g]
    BY <1>1, <1>3 DEF Answer, NoRequest
  <2> QED
    BY <2>1 DEF SInv, Resting, AtGoogle
<1> QED
  BY <1>2, <1>3

LEMMA NextSInv == SInv /\ [Next]_vars => SInv'
<1> SUFFICES ASSUME SInv, [Next]_vars PROVE Resting' /\ AtGoogle'
  BY NextInv DEF SInv
<1>1. ASSUME NEW h \in Handlers, Step(h) \/ CallFails(h) PROVE Resting' /\ AtGoogle'
  <2>1. UNCHANGED service
    BY <1>1 DEF Step, Replayed, AskGoogle, Begin, Insert, Increment, CommitTx, CallFails
  <2>2. \/ \E step \in Steps: Goto(h, step) /\ (step = "google" => service /\ req[h].token \in GoogleTokens)
        \/ \E what \in {"valid", "invalid", "503"}: Answer(h, what)
    <3>1. CASE Replayed(h)
      BY <3>1 DEF Replayed
    <3>2. CASE CallFails(h)
      BY <3>2 DEF CallFails
    <3>3. CASE AskGoogle(h) \/ Begin(h) \/ Insert(h) \/ Increment(h) \/ CommitTx(h)
      BY <3>3 DEF AskGoogle, Begin, Insert, Increment, CommitTx
    <3> QED
      BY <1>1, <3>1, <3>2, <3>3 DEF Step
  <2> QED
    BY <2>1, <2>2, RestingStep
<1>2. ASSUME NEW h \in Handlers, NEW d \in Devices, NEW t \in Tokens, Verify(h, d, t)
      PROVE  Resting' /\ AtGoogle'
  <2>1. req'[h].pc = "replayed" /\ UNCHANGED service /\ \A g \in Handlers \ {h}: req'[g] = req[g]
    BY <1>2 DEF Verify, SInv, IInv, TypeOK
  <2> QED
    BY <2>1 DEF SInv, Resting, AtGoogle
<1>3. CASE Crash
  BY <1>3 DEF Crash, Resting, AtGoogle, NoRequest
<1>4. CASE \/ \E t \in GoogleTokens: Buy(t)
           \/ \E d \in Devices: Spend(d)
           \/ Occupy \/ Vacate \/ UNCHANGED vars
  BY <1>4 DEF Buy, Spend, Occupy, Vacate, vars, SInv, Resting, AtGoogle
<1> QED
  BY <1>1, <1>2, <1>3, <1>4 DEF Next

LEMMA SInvariance == Spec => []SInv
<1>1. Init => SInv
  BY InitInv DEF SInv, Init, Resting, AtGoogle, NoRequest
<1> QED
  BY <1>1, NextSInv, PTL DEF Spec

\* A handler that goes on lets its client wait; one that answers tells it.
LEMMA GotoIsWaiting ==
    ASSUME SInv, NEW h \in Handlers, NEW step \in Steps, Goto(h, step)
    PROVE  \A g \in Handlers: /\ req'[g].dev = req[g].dev /\ KeyAsked(g)' = KeyAsked(g)
                              /\ req'[g].resp = req[g].resp
<1>1. req \in [Handlers -> Request] /\ req' = [req EXCEPT ![h].pc = step]
  BY DEF SInv, IInv, TypeOK, Goto
<1>2. \A g \in Handlers: /\ req'[g].dev = req[g].dev /\ req'[g].token = req[g].token
                         /\ req'[g].resp = req[g].resp
  BY <1>1 DEF Request
<1> QED
  BY <1>2 DEF KeyAsked

LEMMA AnswerIsTell ==
    ASSUME SInv, NEW h \in Handlers, req[h].pc # "idle",
           NEW what \in {"valid", "invalid", "503"}, Answer(h, what)
    PROVE  S!Tell(h, what)
<1>1. req \in [Handlers -> Request] /\ req[h].dev \in Devices
  BY DEF SInv, IInv, TypeOK, Handling, HandlerOK
<1>2. /\ req'[h].dev = NoDevice /\ req'[h].token = NoToken /\ req'[h].resp = what
      /\ \A g \in Handlers \ {h}: req'[g] = req[g]
  BY <1>1 DEF Answer, NoRequest
<1>3. /\ KeyAsked(h)' = NoTransaction
      /\ \A g \in Handlers \ {h}: KeyAsked(g)' = KeyAsked(g)
  BY <1>2 DEF KeyAsked
<1> QED
  BY <1>1, <1>2, <1>3 DEF S!Tell, S!Waiting, S!Nothing

LEMMA ReplayedInShop ==
    ASSUME SInv, NEW h \in Handlers, Replayed(h)
    PROVE  [S!Next]_S!vars
<1>1. /\ req[h].pc = "replayed" /\ req[h].token \in Tokens
      /\ UNCHANGED <<service, bought, verified, balance>>
  BY DEF Replayed, At, store, SInv, IInv, Handling, HandlerOK
<1>2. CASE \E step \in Steps: Goto(h, step)
  BY <1>1, <1>2, GotoIsWaiting DEF S!vars
<1>3. CASE Answer(h, "invalid") /\ (\/ req[h].token \in GoogleTokens /\ verified[req[h].token] # NoDevice
                                    \/ req[h].token \in AppleTokens /\ TransactionOf[req[h].token] = NoTransaction)
  <2>1. KeyAsked(h) \in Keys => verified[KeyAsked(h)] # NoDevice
    BY <1>1, <1>3 DEF KeyAsked, KeyOf, Keys, Tokens
  <2>2. S!Tell(h, "invalid")
    BY <1>1, <1>3, AnswerIsTell
  <2>3. S!Refuse(h)
    BY <1>1, <2>1, <2>2 DEF S!Refuse
  <2> QED
    BY <2>3 DEF S!Next
<1> QED
  BY <1>2, <1>3 DEF Replayed, NoPurchase

\* An answer "invalid" of Google Play, or of an insert that met the recorded key.
LEMMA RefusalInShop ==
    ASSUME SInv, NEW h \in Handlers, Answer(h, "invalid"),
           \/ At(h, "google")
           \/ At(h, "insert") /\ Conflict(Key(h)),
           UNCHANGED <<service, bought, verified, balance>>
    PROVE  S!Refuse(h)
<1>1. req[h].token \in Tokens /\ KeyAsked(h) = Key(h) /\ req[h].pc # "idle"
  BY DEF SInv, IInv, Handling, HandlerOK, At, KeyAsked, Key
<1>2. At(h, "google") => S!AskedAtGoogle(KeyAsked(h))
  BY <1>1 DEF SInv, AtGoogle, At, Key, KeyOf, S!AskedAtGoogle
<1>3. S!Tell(h, "invalid")
  BY <1>1, AnswerIsTell
<1>4. KeyAsked(h) \in Keys => verified[KeyAsked(h)] # NoDevice \/ S!AskedAtGoogle(KeyAsked(h))
  BY <1>1, <1>2 DEF Conflict
<1> QED
  BY <1>3, <1>4 DEF S!Refuse

\* The commit is the sale, whether or not the handler hears of it.
LEMMA CommittedIsSale ==
    ASSUME SInv, NEW h \in Handlers, At(h, "commit"), Committed(h),
           NEW what \in {"valid", "503"}, Answer(h, what), UNCHANGED <<service, bought>>
    PROVE  S!Sell(h)
<1>1. /\ req[h].pc = "commit" /\ req[h].token \in Tokens /\ Key(h) \in Keys /\ KeyAsked(h) = Key(h)
      /\ (service /\ req[h].token \in GoogleTokens) => req[h].token \in bought
      /\ verified[Key(h)] = NoDevice
  BY DEF SInv, IInv, Handling, HandlerOK, At, KeyAsked, Key
<1>2. Key(h) \in GoogleTokens => req[h].token = Key(h)
  BY <1>1 DEF Key, KeyOf, Tokens
<1>3. S!AskedAtGoogle(Key(h)) => Key(h) \in bought
  BY <1>1, <1>2 DEF S!AskedAtGoogle
<1>4. /\ verified' = [verified EXCEPT ![Key(h)] = req[h].dev]
      /\ balance' = [balance EXCEPT ![req[h].dev] = @ + 1]
  BY DEF Committed, Key
<1>5. S!Tell(h, what)
  BY <1>1, AnswerIsTell
<1> QED
  BY <1>1, <1>3, <1>4, <1>5 DEF S!Sell

LEMMA StepInShop ==
    ASSUME SInv, NEW h \in Handlers, Step(h) \/ CallFails(h)
    PROVE  [S!Next]_S!vars
<1>1. CASE Replayed(h)
  BY <1>1, ReplayedInShop
<1>2. CASE AskGoogle(h)
  <2>1. UNCHANGED <<service, bought, verified, balance>>
    BY <1>2 DEF AskGoogle, store
  <2>2. CASE Goto(h, "begin")
    BY <2>1, <2>2, GotoIsWaiting DEF S!vars
  <2>3. CASE Answer(h, "invalid")
    <3>1. S!Refuse(h)
      BY <1>2, <2>1, <2>3, RefusalInShop DEF AskGoogle
    <3> QED
      BY <3>1 DEF S!Next
  <2> QED
    BY <1>2, <2>2, <2>3 DEF AskGoogle
<1>3. CASE Begin(h) \/ Increment(h)
  <2>1. /\ UNCHANGED <<service, bought, verified, balance>>
        /\ \E step \in Steps: Goto(h, step)
    BY <1>3 DEF Begin, Increment, store
  <2> QED
    BY <2>1, GotoIsWaiting DEF S!vars
<1>4. CASE Insert(h)
  <2>1. UNCHANGED <<service, bought, verified, balance>> /\ At(h, "insert")
    BY <1>4 DEF Insert, RolledBack
  <2>2. CASE Goto(h, "increment")
    BY <2>1, <2>2, GotoIsWaiting DEF S!vars
  <2>3. CASE Conflict(Key(h)) /\ Answer(h, "invalid")
    <3>1. S!Refuse(h)
      BY <2>1, <2>3, RefusalInShop
    <3> QED
      BY <3>1 DEF S!Next
  <2> QED
    BY <1>4, <2>2, <2>3 DEF Insert, Key
<1>5. CASE CommitTx(h)
  <2>1. S!Sell(h)
    BY <1>5, CommittedIsSale DEF CommitTx
  <2> QED
    BY <2>1 DEF S!Next
<1>6. CASE CallFails(h)
  <2>1. UNCHANGED <<service, bought>> /\ req[h].pc # "idle"
    BY <1>6 DEF CallFails, At
  <2>2. CASE At(h, "commit") /\ Committed(h)
    <3>1. Answer(h, "503")
      BY <1>6, <2>2 DEF CallFails, At
    <3>2. S!Sell(h)
      BY <2>1, <2>2, <3>1, CommittedIsSale
    <3> QED
      BY <3>2 DEF S!Next
  <2>3. CASE RolledBack(h) /\ At(h, "google")
    <3>1. Answer(h, "invalid") /\ UNCHANGED <<verified, balance>>
      BY <1>6, <2>3 DEF CallFails, RolledBack
    <3>2. S!Refuse(h)
      BY <2>1, <2>3, <3>1, RefusalInShop
    <3> QED
      BY <3>2 DEF S!Next
  <2>4. CASE RolledBack(h) /\ ~At(h, "google")
    <3>1. Answer(h, "503") /\ UNCHANGED <<verified, balance>>
      BY <1>6, <2>4 DEF CallFails, RolledBack
    <3>2. S!Fail(h)
      BY <2>1, <3>1, AnswerIsTell DEF S!Fail
    <3> QED
      BY <3>2 DEF S!Next
  <2> QED
    BY <1>6, <2>2, <2>3, <2>4 DEF CallFails
<1> QED
  BY <1>1, <1>2, <1>3, <1>4, <1>5, <1>6 DEF Step

LEMMA VerifyIsAsk ==
    ASSUME SInv, NEW h \in Handlers, NEW d \in Devices, NEW t \in Tokens, Verify(h, d, t)
    PROVE  \E k \in Keys \cup {NoTransaction}: S!Ask(h, d, k)
<1>1. /\ req[h].dev = NoDevice /\ req \in [Handlers -> Request]
      /\ UNCHANGED <<service, bought, verified, balance>>
  BY DEF Verify, At, store, SInv, IInv, TypeOK, Resting
<1>2. /\ req'[h].dev = d /\ req'[h].token = t /\ req'[h].resp = "none"
      /\ \A g \in Handlers \ {h}: req'[g] = req[g]
  BY <1>1 DEF Verify
<1>3. KeyAsked(h)' = KeyOf(t) /\ \A g \in Handlers \ {h}: KeyAsked(g)' = KeyAsked(g)
  BY <1>2 DEF KeyAsked
<1>4. KeyOf(t) \in Keys \cup {NoTransaction}
  BY DEF KeyOf, Keys, Tokens
<1>5. S!Ask(h, d, KeyOf(t))
  BY <1>1, <1>2, <1>3 DEF S!Ask, S!Waiting
<1> QED
  BY <1>4, <1>5

LEMMA NextShop == SInv /\ [Next]_vars => [S!Next]_S!vars
<1> SUFFICES ASSUME SInv, [Next]_vars PROVE [S!Next]_S!vars
  OBVIOUS
<1>1. CASE \E h \in Handlers: Step(h) \/ CallFails(h)
  BY <1>1, StepInShop
<1>2. CASE \E h \in Handlers, d \in Devices, t \in Tokens: Verify(h, d, t)
  BY <1>2, VerifyIsAsk DEF S!Next
<1>3. ASSUME NEW t \in GoogleTokens, Buy(t) PROVE [S!Next]_S!vars
  <2>1. S!Buy(t)
    BY <1>3 DEF Buy, store, KeyAsked, S!Buy
  <2> QED
    BY <2>1 DEF S!Next
<1>4. ASSUME NEW d \in Devices, Spend(d) PROVE [S!Next]_S!vars
  <2>1. S!Spend(d)
    BY <1>4 DEF Spend, HasBalance, KeyAsked, S!Spend
  <2> QED
    BY <2>1 DEF S!Next
<1>5. CASE Occupy \/ Vacate \/ UNCHANGED vars
  BY <1>5 DEF Occupy, Vacate, vars, store, KeyAsked, S!vars
<1>6. CASE Crash
  <2>1. S!Hangup
    BY <1>6 DEF Crash, NoRequest, KeyAsked, S!Hangup, S!Nothing
  <2> QED
    BY <2>1 DEF S!Next
<1> QED
  BY <1>1, <1>2, <1>3, <1>4, <1>5, <1>6 DEF Next

\* For any number of devices, purchases, requests and connections, and whatever fails
\* or dies: /verify implements Shop.  A purchase is credited in one step, once and for
\* good, and that step decides one answer; a refusal has its reason (verify.go).
THEOREM ShopKept == Spec => ImplementsShop
<1>1. Init => S!Init
  BY DEF Init, NoRequest, KeyAsked, S!Init, S!Nothing
<1> QED
  BY <1>1, NextShop, SInvariance, PTL DEF Spec, ImplementsShop, S!Spec
-----------------------------------------------------------------------------
(* Nobody waits for ever in a circle *)

\* The request waits for a row of another transaction or for a connection.
Blocked(h) ==
    \/ At(h, "insert") /\ inserting[Key(h)] # NoHandler
    \/ At(h, "increment") /\ updating[req[h].dev] # NoHandler
    \/ req[h].pc \in {"replayed", "begin"} /\ ~FreeConnection

\* If anybody waits, a statement of another request holds a connection, or there is a
\* transaction that waits for nothing.
NoDeadlock ==
    (\E h \in Handlers: Blocked(h)) =>
        others > 0 \/ \E g \in Handlers: InTransaction(g) /\ ~Blocked(g)

\* Rows are taken in one order, the key and then the device: the owner of a key waits
\* for no key, and the owner of a device's row for nothing but its COMMIT.
Ordered ==
    /\ \A k \in Keys: inserting[k] # NoHandler => req[inserting[k]].pc \in {"increment", "commit"}
    /\ \A d \in Devices: updating[d] # NoHandler => req[updating[d]].pc = "commit"

\* A handler that owns no row moves on, and the rows stay as they are.
LEMMA IdleMoveOrdered ==
    ASSUME TypeOK, Ordered, NEW h \in Handlers, req[h].pc \notin {"increment", "commit"},
           \A g \in Handlers \ {h}: req'[g] = req[g], UNCHANGED <<inserting, updating>>
    PROVE  Ordered'
  BY DEF TypeOK, Ordered

\* A handler answers and lets go of its rows.
LEMMA ReleaseOrdered ==
    ASSUME TypeOK, Ordered, NEW h \in Handlers,
           \A g \in Handlers \ {h}: req'[g] = req[g],
           inserting' = Released(inserting, h), updating' = Released(updating, h)
    PROVE  Ordered'
  BY DEF TypeOK, Ordered, Released

LEMMA StepOrdered ==
    ASSUME IInv, Ordered, NEW h \in Handlers, Step(h) \/ CallFails(h)
    PROVE  Ordered'
<1>1. TypeOK /\ req[h] \in Request /\ req[h].pc # "idle"
  BY DEF IInv, TypeOK, Step, Replayed, AskGoogle, Begin, Insert, Increment, CommitTx, CallFails,
         At, ServerAssumption
<1>2. \A g \in Handlers \ {h}: req'[g] = req[g]
  BY <1>1, Moves DEF Step, Replayed, AskGoogle, Begin, Insert, Increment, CommitTx, CallFails
<1>3. CASE Replayed(h) \/ AskGoogle(h) \/ Begin(h)
  BY <1>1, <1>2, <1>3, IdleMoveOrdered DEF Replayed, AskGoogle, Begin, At, store
<1>4. CASE CommitTx(h) \/ CallFails(h) \/ (Insert(h) /\ RolledBack(h))
  BY <1>1, <1>2, <1>4, ReleaseOrdered DEF CommitTx, CallFails, RolledBack, Committed
<1>5. CASE Insert(h) /\ ~RolledBack(h)
  <2>1. /\ inserting' = [inserting EXCEPT ![Key(h)] = h] /\ updating' = updating
        /\ req[h].pc = "insert" /\ req'[h].pc = "increment"
    BY <1>1, <1>5, Moves DEF Insert, Key, At
  <2> QED
    BY <1>1, <1>2, <2>1 DEF Ordered, TypeOK
<1>6. CASE Increment(h)
  <2>1. /\ updating' = [updating EXCEPT ![req[h].dev] = h] /\ inserting' = inserting
        /\ req'[h].pc = "commit"
    BY <1>1, <1>6, Moves DEF Increment
  <2> QED
    BY <1>1, <1>2, <2>1 DEF Ordered, TypeOK
<1> QED
  BY <1>3, <1>4, <1>5, <1>6 DEF Step

LEMMA NextOrdered == IInv /\ Ordered /\ [Next]_vars => Ordered'
<1> SUFFICES ASSUME IInv, Ordered, [Next]_vars PROVE Ordered'
  OBVIOUS
<1>1. TypeOK
  BY DEF IInv
<1>2. ASSUME NEW h \in Handlers, NEW d \in Devices, NEW t \in Tokens, Verify(h, d, t)
      PROVE  Ordered'
  <2>1. \A g \in Handlers \ {h}: req'[g] = req[g]
    BY <1>1, <1>2 DEF Verify, TypeOK
  <2> QED
    BY <1>1, <1>2, <2>1, IdleMoveOrdered DEF Verify, At, store
<1>3. CASE Crash
  BY <1>3 DEF Crash, Ordered
<1>4. CASE \/ \E t \in GoogleTokens: Buy(t)
           \/ \E d \in Devices: Spend(d)
           \/ Occupy \/ Vacate \/ UNCHANGED vars
  BY <1>4 DEF Buy, Spend, Occupy, Vacate, vars, store, Ordered
<1> QED
  BY <1>2, <1>3, <1>4, StepOrdered DEF Next

\* However many transactions wait for each other's rows or for a connection of a full
\* pool, some transaction can move: they do not wait in a circle (creditPurchase in
\* verify.go inserts the key before it updates the balance, and asks for a connection
\* only while it owns no row).
THEOREM NoCircularWait == Spec => []NoDeadlock
<1>1. Init => Ordered
  BY DEF Init, Ordered
<1>2. IInv /\ Ordered => NoDeadlock
  <2> SUFFICES ASSUME IInv, Ordered, NEW h \in Handlers, Blocked(h), others = 0
               PROVE  \E g \in Handlers: InTransaction(g) /\ ~Blocked(g)
    BY DEF NoDeadlock, IInv, TypeOK
  <2>1. TypeOK
    BY DEF IInv
  <2>2. ASSUME NEW g \in Handlers, req[g].pc = "commit"
        PROVE  InTransaction(g) /\ ~Blocked(g)
    BY <2>2 DEF InTransaction, Blocked, At
  <2>3. ASSUME NEW g \in Handlers, req[g].pc = "increment"
        PROVE  \E f \in Handlers: InTransaction(f) /\ ~Blocked(f)
    <3>1. CASE ~Blocked(g)
      BY <2>3, <3>1 DEF InTransaction
    <3>2. CASE Blocked(g)
      <4>1. updating[req[g].dev] # NoHandler /\ req[g].dev \in Devices
        BY <2>3, <3>2 DEF Blocked, At, IInv, Handling, HandlerOK
      <4>2. updating[req[g].dev] \in Handlers /\ req[updating[req[g].dev]].pc = "commit"
        BY <2>1, <4>1 DEF TypeOK, Ordered
      <4> QED
        BY <2>2, <4>2
    <3> QED
      BY <3>1, <3>2
  <2>4. ASSUME NEW g \in Handlers, req[g].pc = "insert"
        PROVE  \E f \in Handlers: InTransaction(f) /\ ~Blocked(f)
    <3>1. CASE ~Blocked(g)
      BY <2>4, <3>1 DEF InTransaction
    <3>2. CASE Blocked(g)
      <4>1. inserting[Key(g)] # NoHandler /\ Key(g) \in Keys
        BY <2>4, <3>2 DEF Blocked, At, IInv, Handling, HandlerOK
      <4>2. inserting[Key(g)] \in Handlers
            /\ req[inserting[Key(g)]].pc \in {"increment", "commit"}
        BY <2>1, <4>1 DEF TypeOK, Ordered
      <4> QED
        BY <2>2, <2>3, <4>2
    <3> QED
      BY <3>1, <3>2
  <2>5. ASSUME ~FreeConnection PROVE \E g \in Handlers: InTransaction(g)
    <3>1. SUFFICES ASSUME {g \in Handlers: InTransaction(g)} = {} PROVE FALSE
      OBVIOUS
    <3>2. Cardinality({g \in Handlers: InTransaction(g)}) = 0
      BY <3>1, FS_EmptySet
    <3> QED
      BY <2>5, <3>2, ServerAssumption DEF FreeConnection
  <2>6. \E g \in Handlers: req[g].pc \in {"insert", "increment", "commit"}
    BY <2>5 DEF Blocked, At, InTransaction
  <2> QED
    BY <2>2, <2>3, <2>4, <2>6
<1> QED
  BY <1>1, <1>2, InitInv, NextInv, NextOrdered, PTL DEF Spec
=============================================================================
