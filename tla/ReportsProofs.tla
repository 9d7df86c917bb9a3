--------------------------- MODULE ReportsProofs ---------------------------
(***************************************************************************)
(* Proofs about Reports, for any number of reporters, requests and clients *)
(* and any threshold: who is blocked, who cannot fail to be, and how old   *)
(* a client's copy of the blocklist can be.                                *)
(*                                                                         *)
(* The count is taken after the insert in the same request, and rows never *)
(* disappear.  So of the requests that inserted the first Threshold rows   *)
(* the one that counts last sees all of them: until then it is acting.     *)
(***************************************************************************)
EXTENDS Reports, FiniteSetTheorems, TLAPS

USE ThresholdAssumption, ReportDeviceAssumption, ReportFaultAssumption DEF Steps

Enough(d) == Cardinality(ReportersOf(d)) >= Threshold

\* What a request that is acting on a report knows.
Acts ==
    \A h \in Handlers:
        /\ req[h].pc # "idle" => req[h].by \in Reporters /\ req[h].dev \in Reported
        /\ At(h, "block") => Enough(req[h].dev)

\* Every device with enough reporters is blocked or about to be.
Pending ==
    \A d \in Reported \ dropped:
        Enough(d) => d \in blocklist \/ \E h \in Handlers: Acting(h) /\ req[h].dev = d

\* The time since a device was blocked and the time left to a copy that lacks it add
\* up to the life of a copy at most.
Catching ==
    /\ \A d \in Reported \ blocklist: blockedFor[d] = 0
    /\ \A c \in Clients, d \in Reported:
          (copy[c].ttl > 0 /\ copy[c].read /\ d \notin copy[c].list)
          => blockedFor[d] + copy[c].ttl <= ConfigTTL

Gated == gate.pc = "check" => gate.dev \in Reported

IInv == TypeOK /\ Acts /\ BlockedByEnough /\ Pending /\ Catching /\ Gated
-----------------------------------------------------------------------------
(* Rows and reporters *)

\* The unique index makes the number of rows the number of reporters.
LEMMA RowsAreReporters ==
    ASSUME TypeOK, NEW d \in Reported
    PROVE  /\ IsFiniteSet(ReportersOf(d))
           /\ CountOfReports(d) = Cardinality(ReportersOf(d))
           /\ Cardinality(ReportersOf(d)) \in Nat
<1>1. IsFiniteSet(ReportersOf(d))
  BY FS_Subset DEF ReportersOf
<1>2. {row \in reports: row[2] = d} = {<<p, d, 0>>: p \in ReportersOf(d)}
  BY DEF TypeOK, ReportersOf, RowsOf
<1> DEFINE f == [p \in ReportersOf(d) |-> <<p, d, 0>>]
<1> DEFINE S == ReportersOf(d)
           T == {<<p, d, 0>>: p \in S}
<1>3. f \in Bijection(S, T)
  BY DEF Bijection, Injection, Surjection, IsInjective
<1>4. Cardinality(T) = Cardinality(S)
  <2>1. ExistsBijection(S, T)
    BY <1>3 DEF ExistsBijection
  <2> HIDE DEF S, T
  <2> QED
    BY <1>1, <2>1, FS_Bijection DEF S
<1> QED
  BY <1>1, <1>2, <1>4, FS_CardinalityType DEF CountOfReports

LEMMA MoreReporters ==
    ASSUME TypeOK, TypeOK', reports \subseteq reports', NEW d \in Reported, Enough(d)
    PROVE  Enough(d)'
<1>1. ReportersOf(d) \subseteq ReportersOf(d)'
  BY DEF ReportersOf, RowsOf
<1>2. IsFiniteSet(ReportersOf(d)')
  BY FS_Subset DEF ReportersOf
<1>3. Cardinality(ReportersOf(d)) <= Cardinality(ReportersOf(d)') /\ Cardinality(ReportersOf(d)') \in Nat
  BY <1>1, <1>2, FS_Subset, FS_CardinalityType
<1> QED
  BY <1>3, RowsAreReporters DEF Enough
\* What the two ways of moving a request on do.
LEMMA Moves ==
    ASSUME TypeOK, NEW h \in Handlers
    PROVE  /\ \A code \in Nat: /\ Answer(h, code) \in Request /\ Answer(h, code).pc = "idle"
                              /\ Answer(h, code).by = req[h].by /\ Answer(h, code).dev = req[h].dev
           /\ \A step \in Steps: /\ Goto(h, step) \in Request /\ Goto(h, step).pc = step
                                 /\ Goto(h, step).by = req[h].by /\ Goto(h, step).dev = req[h].dev
<1>1. req[h] \in Request
  BY DEF TypeOK
<1>2. ASSUME NEW code \in Nat PROVE Answer(h, code) \in Request
  BY <1>1 DEF Answer, Request
<1>3. ASSUME NEW step \in Steps PROVE Goto(h, step) \in Request
  BY <1>1 DEF Goto, Request
<1> QED
  BY <1>1, <1>2, <1>3 DEF Answer, Goto, Request

-----------------------------------------------------------------------------
(* The invariant *)

LEMMA InitInv == Init => IInv
<1> SUFFICES ASSUME Init PROVE IInv
  OBVIOUS
<1>1. \A d \in Reported: ~Enough(d)
  <2>1. ASSUME NEW d \in Reported PROVE Cardinality(ReportersOf(d)) = 0
    <3>1. ReportersOf(d) = {}
      BY DEF Init, ReportersOf, RowsOf
    <3> QED
      BY <3>1, FS_EmptySet
  <2> QED
    BY <2>1 DEF Enough
<1>2. TypeOK
  BY DEF Init, TypeOK, NoRequest, NoCopy, NoSession, Request
<1> QED
  BY <1>1, <1>2 DEF Init, IInv, Acts, BlockedByEnough, Pending, Catching, Gated, At, Acting,
     NoRequest, NoCopy, NoSession

\* A step that leaves the rows, the blocklist and what follows from them alone.
LEMMA RowsStay ==
    ASSUME IInv, UNCHANGED <<reports, blocklist>>
    PROVE  BlockedByEnough' /\ \A d \in Reported: Enough(d)' <=> Enough(d)
  BY DEF IInv, BlockedByEnough, Enough, ReportersOf, RowsOf

LEMMA RowsGrow ==
    ASSUME IInv, TypeOK', reports \subseteq reports', UNCHANGED blocklist
    PROVE  BlockedByEnough'
  BY MoreReporters DEF IInv, TypeOK, BlockedByEnough, Enough

LEMMA CopiesStay ==
    ASSUME IInv, UNCHANGED <<blockedFor, copy>>, blocklist \subseteq blocklist'
    PROVE  Catching'
  BY DEF IInv, Catching

LEMMA ReportKeeps ==
    ASSUME IInv, NEW h \in Handlers, NEW p \in Reporters, NEW d \in Reported, Report(h, p, d)
    PROVE  IInv'
<1>1. TypeOK'
  BY DEF IInv, TypeOK, Report, Request
<1>2. BlockedByEnough' /\ \A e \in Reported: Enough(e)' <=> Enough(e)
  BY RowsStay DEF Report
<1>3. Catching' /\ Gated'
  BY CopiesStay DEF Report, IInv, Gated
<1>4. Acts'
  BY <1>2 DEF IInv, TypeOK, Acts, Report, At, Enough
<1>5. Pending'
  BY <1>2 DEF IInv, TypeOK, Pending, Report, At, Acting
<1> QED
  BY <1>1, <1>2, <1>3, <1>4, <1>5 DEF IInv

LEMMA InsertKeeps ==
    ASSUME IInv, NEW h \in Handlers, Insert(h)
    PROVE  IInv'
<1>1. req[h].by \in Reporters /\ req[h].dev \in Reported /\ req[h].pc = "insert"
  BY DEF IInv, Acts, Insert, At
<1>2. ~Duplicate(h) => Cardinality(RowsOf(req[h].by, req[h].dev)) = 0
  BY FS_EmptySet DEF Duplicate
<1> DEFINE Ends == {Answer(h, 201), Goto(h, "count"), Answer(h, 500)}
<1>3. PICK r \in Ends: req' = [req EXCEPT ![h] = r]
  BY DEF Insert, OnError
<1>4. /\ r \in Request /\ r.by = req[h].by /\ r.dev = req[h].dev /\ r.pc \in {"idle", "count"}
       /\ req \in [Handlers -> Request]
  BY <1>3, Moves DEF IInv, TypeOK
<1>5. reports \subseteq reports' /\ TypeOK'
  <2>1. req' \in [Handlers -> Request]
    BY <1>3, <1>4
  <2>2. reports' \subseteq Reporters \X Reported \X {0} /\ reports \subseteq reports'
    BY <1>1, <1>2 DEF IInv, TypeOK, Insert, InsertRow
  <2> QED
    BY <1>1, <2>1, <2>2 DEF IInv, TypeOK, Insert
<1>6. BlockedByEnough' /\ Catching' /\ Gated'
  BY <1>5, RowsGrow, CopiesStay DEF Insert, IInv, Gated
<1>7. \A g \in Handlers \ {h}: req'[g] = req[g]
  BY <1>3, <1>4
<1>8. req'[h].dev = req[h].dev /\ req'[h].by = req[h].by /\ req'[h].pc \in {"idle", "count"}
  BY <1>3, <1>4
<1>9. Acts'
  <2>1. ASSUME NEW g \in Handlers \ {h}, req'[g].pc = "block",
               NEW d \in Reported, d = req'[g].dev
        PROVE  Enough(d)'
    <3>1. Enough(d)
      BY <1>7, <2>1 DEF IInv, Acts, At, Enough
    <3> QED
      BY <1>5, <3>1, MoreReporters DEF IInv
  <2>2. \A g \in Handlers \ {h}: req'[g].pc # "idle" => req'[g].by \in Reporters /\ req'[g].dev \in Reported
    BY <1>7 DEF IInv, Acts
  <2> QED
    BY <1>1, <1>8, <2>1, <2>2 DEF Acts, At, Enough
<1>10. Pending'
  <2> SUFFICES ASSUME NEW d \in Reported, d \notin dropped', Enough(d)'
               PROVE  d \in blocklist' \/ \E g \in Handlers: Acting(g)' /\ req'[g].dev = d
    BY DEF Pending
  <2>1. blocklist' = blocklist /\ dropped \subseteq dropped'
    BY DEF Insert
  <2>2. CASE Enough(d)
    <3>1. d \in blocklist \/ \E g \in Handlers: Acting(g) /\ req[g].dev = d
      BY <2>1, <2>2 DEF IInv, Pending
    <3> QED
      BY <1>1, <1>7, <2>1, <3>1 DEF Acting
  <2>3. CASE ~Enough(d)
    <3>1. reports' # reports /\ d = req[h].dev
      <4>1. ReportersOf(d)' # ReportersOf(d)
        BY <2>3 DEF Enough
      <4>2. PICK p \in Reporters: RowsOf(p, d)' # RowsOf(p, d)
        BY <4>1 DEF ReportersOf
      <4>3. reports' # reports
        BY <4>2 DEF RowsOf
      <4>4. InsertRow(h)
        BY <4>3 DEF Insert
      <4> QED
        BY <4>2, <4>3, <4>4 DEF InsertRow, RowsOf
    <3>2. req' = [req EXCEPT ![h] = Goto(h, "count")]
      BY <1>1, <3>1 DEF Insert
    <3>3. req'[h].pc = "count" /\ req'[h].dev = d
      BY <1>8, <1>4, <3>1, <3>2, Moves DEF IInv
    <3> QED
      BY <3>3 DEF Acting
  <2> QED
    BY <2>2, <2>3
<1> QED
  BY <1>5, <1>6, <1>9, <1>10 DEF IInv

\* The steps that leave rows and blocklist alone and move one request on to a call it
\* may make, or answer it.
LEMMA HandlerKeeps ==
    ASSUME IInv, TypeOK', NEW h \in Handlers, UNCHANGED <<reports, blocklist, blockedFor, copy, gate>>,
           \A g \in Handlers \ {h}: req'[g] = req[g],
           req'[h].pc \in {"idle", "block"}, req'[h].by = req[h].by, req'[h].dev = req[h].dev,
           req'[h].pc = "block" => req[h].dev \in Reported /\ req[h].by \in Reporters
                                   /\ Enough(req[h].dev),
           dropped \subseteq dropped',
           (req'[h].pc = "idle" /\ Acting(h) /\ req[h].dev \in Reported /\ Enough(req[h].dev))
              => req[h].dev \in dropped'
    PROVE  IInv'
<1>1. BlockedByEnough' /\ \A d \in Reported: Enough(d)' <=> Enough(d)
  BY RowsStay
<1>2. Catching' /\ Gated'
  BY CopiesStay DEF IInv, Gated
<1>3. Acts'
  BY <1>1 DEF IInv, Acts, At, Enough
<1>4. Pending'
  <2> SUFFICES ASSUME NEW d \in Reported, d \notin dropped', Enough(d)
               PROVE  d \in blocklist' \/ \E g \in Handlers: Acting(g)' /\ req'[g].dev = d
    BY <1>1 DEF Pending
  <2>1. CASE d \in blocklist
    BY <2>1
  <2>2. CASE d \notin blocklist
    <3>1. PICK g \in Handlers: Acting(g) /\ req[g].dev = d
      BY <2>2 DEF IInv, Pending
    <3> QED
      BY <3>1 DEF Acting
  <2> QED
    BY <2>1, <2>2
<1> QED
  BY <1>1, <1>2, <1>3, <1>4 DEF IInv

LEMMA OnlyRequestsMove ==
    ASSUME TypeOK, req' \in [Handlers -> Request], dropped' \subseteq Reported,
           blocklist' \subseteq Reported, UNCHANGED <<reports, blockedFor, copy, gate>>
    PROVE  TypeOK'
  BY DEF TypeOK

LEMMA CountKeeps ==
    ASSUME IInv, NEW h \in Handlers, Count(h)
    PROVE  IInv'
<1>1. req[h].by \in Reporters /\ req[h].dev \in Reported
  BY DEF IInv, Acts, Count, At
<1>2. Reached(CountOfReports(req[h].dev)) <=> Enough(req[h].dev)
  BY <1>1, RowsAreReporters DEF Reached, Enough, IInv
<1>3. TypeOK'
  <2>1. req' \in [Handlers -> Request] /\ dropped' \subseteq Reported /\ blocklist' \subseteq Reported
    BY Moves DEF IInv, TypeOK, Count
  <2> QED
    BY <2>1, OnlyRequestsMove DEF IInv, Count
<1>4. \A g \in Handlers \ {h}: req'[g] = req[g]
  BY DEF Count, Answer, Goto, IInv, TypeOK
<1>5. /\ req'[h].by = req[h].by /\ req'[h].dev = req[h].dev
      /\ req'[h].pc = IF Reached(CountOfReports(req[h].dev)) THEN "block" ELSE "idle"
  BY DEF Count, Answer, Goto, IInv, TypeOK, Request
<1> QED
  BY <1>1, <1>2, <1>3, <1>4, <1>5, HandlerKeeps DEF Count

LEMMA CallFailsKeeps ==
    ASSUME IInv, NEW h \in Handlers, CallFails(h)
    PROVE  IInv'
<1>1. TypeOK'
  <2>1. req[h].pc # "idle"
    BY DEF CallFails, Fails
  <2>2. req[h].dev \in Reported
    BY <2>1 DEF IInv, Acts
  <2> QED
    BY <2>2, Moves, OnlyRequestsMove DEF IInv, TypeOK, CallFails, OnError
<1>2. \A g \in Handlers \ {h}: req'[g] = req[g]
  BY DEF CallFails, OnError, Answer, IInv, TypeOK
<1>3. req'[h].by = req[h].by /\ req'[h].dev = req[h].dev /\ req'[h].pc = "idle"
  BY DEF CallFails, OnError, Answer, IInv, TypeOK, Request
<1>4. Acting(h) => ~At(h, "insert")
  BY DEF Acting, At
<1> QED
  BY <1>1, <1>2, <1>3, <1>4, HandlerKeeps DEF CallFails

LEMMA BlockKeeps ==
    ASSUME IInv, NEW h \in Handlers, Block(h)
    PROVE  IInv'
<1>1. req[h].by \in Reporters /\ req[h].dev \in Reported /\ Enough(req[h].dev)
  BY DEF IInv, Acts, Block, At
<1>2. TypeOK'
  <2>1. req' \in [Handlers -> Request] /\ dropped' \subseteq Reported /\ blocklist' \subseteq Reported
    BY <1>1, Moves DEF IInv, TypeOK, Block
  <2> QED
    BY <2>1, OnlyRequestsMove DEF IInv, Block
<1>3. \A d \in Reported: Enough(d)' <=> Enough(d)
  BY DEF Block, Enough, ReportersOf, RowsOf
<1>4. BlockedByEnough'
  BY <1>1, <1>3 DEF IInv, TypeOK, BlockedByEnough, Enough, Block
<1>5. /\ \A g \in Handlers \ {h}: req'[g] = req[g]
      /\ req'[h].by = req[h].by /\ req'[h].dev = req[h].dev /\ req'[h].pc = "idle"
  BY DEF Block, Answer, IInv, TypeOK, Request
<1>6. Acts'
  BY <1>3, <1>5 DEF IInv, Acts, At, Enough
<1>7. Pending'
  BY <1>3, <1>5 DEF IInv, Pending, Acting, Block
<1>8. Catching' /\ Gated'
  BY CopiesStay DEF Block, IInv, Gated
<1> QED
  BY <1>2, <1>4, <1>6, <1>7, <1>8 DEF IInv

LEMMA ClientsAndTimeKeep ==
    ASSUME IInv, (\E c \in Clients: FetchConfig(c)) \/ Tick
    PROVE  IInv'
<1>1. UNCHANGED <<reports, blocklist, req, dropped, gate>>
  BY DEF FetchConfig, Tick
<1>2. BlockedByEnough' /\ (\A d \in Reported: Enough(d)' <=> Enough(d)) /\ Gated'
  BY <1>1, RowsStay DEF IInv, Gated
<1>3. Acts' /\ Pending'
  BY <1>1, <1>2 DEF IInv, Acts, Pending, At, Acting, Enough
<1>4. CASE Tick
  <2>1. TypeOK'
    BY <1>4 DEF IInv, TypeOK, Tick, Aging, NoCopy
  <2>2. Catching'
    BY <1>4, <2>1 DEF IInv, TypeOK, Catching, Tick, Aging, NoCopy
  <2> QED
    BY <1>2, <1>3, <2>1, <2>2 DEF IInv
<1>5. ASSUME NEW c \in Clients, FetchConfig(c) PROVE IInv'
  <2>1. TypeOK'
    <3>1. copy' \in [Clients -> [list: SUBSET Reported, read: BOOLEAN, ttl: 0..ConfigTTL]]
      <4> DEFINE Copy == [list: SUBSET Reported, read: BOOLEAN, ttl: 0..ConfigTTL]
      <4>1. PICK new \in Copy: copy' = [copy EXCEPT ![c] = new]
        <5>1. /\ [list |-> blocklist, read |-> TRUE, ttl |-> ConfigTTL] \in Copy
              /\ [list |-> {}, read |-> FALSE, ttl |-> ConfigTTL] \in Copy
          BY DEF IInv, TypeOK
        <5> QED
          BY <1>5, <5>1 DEF FetchConfig
      <4>2. copy \in [Clients -> Copy]
        BY DEF IInv, TypeOK
      <4> QED
        BY <4>1, <4>2
    <3> QED
      BY <1>5, <3>1 DEF IInv, TypeOK, FetchConfig
  <2>2. Catching'
    BY <1>5, <2>1 DEF IInv, TypeOK, Catching, FetchConfig
  <2> QED
    BY <1>2, <1>3, <2>1, <2>2 DEF IInv
<1> QED
  BY <1>4, <1>5

LEMMA GateKeeps ==
    ASSUME IInv, (\E d \in Reported: Session(d)) \/ IsBlocked
    PROVE  IInv'
<1>1. UNCHANGED <<reports, blocklist, blockedFor, req, dropped, copy>>
  BY DEF Session, IsBlocked
<1>2. BlockedByEnough' /\ (\A d \in Reported: Enough(d)' <=> Enough(d)) /\ Catching'
  BY <1>1, RowsStay, CopiesStay
<1>3. Acts' /\ Pending'
  BY <1>1, <1>2 DEF IInv, Acts, Pending, At, Acting, Enough
<1>4. TypeOK' /\ Gated'
  BY DEF IInv, TypeOK, Gated, Session, IsBlocked
<1> QED
  BY <1>2, <1>3, <1>4 DEF IInv

LEMMA CrashKeeps ==
    ASSUME IInv, Crash
    PROVE  IInv'
<1>1. BlockedByEnough' /\ (\A d \in Reported: Enough(d)' <=> Enough(d)) /\ Catching'
  BY RowsStay, CopiesStay DEF Crash
<1>2. TypeOK' /\ Gated' /\ Acts'
  BY DEF IInv, TypeOK, Acts, Gated, Crash, NoRequest, NoSession, Request, At, Acting
<1>3. Pending'
  BY <1>1 DEF IInv, Pending, Crash, Acting
<1> QED
  BY <1>1, <1>2, <1>3 DEF IInv

LEMMA NextInv == IInv /\ [Next]_vars => IInv'
<1> SUFFICES ASSUME IInv, [Next]_vars PROVE IInv'
  OBVIOUS
<1>1. CASE UNCHANGED vars
  <2>1. BlockedByEnough' /\ (\A d \in Reported: Enough(d)' <=> Enough(d)) /\ Catching'
    BY <1>1, RowsStay, CopiesStay DEF vars
  <2> QED
    BY <1>1, <2>1 DEF vars, IInv, TypeOK, Acts, Pending, Gated, At, Acting, Enough
<1> QED
  BY <1>1, ReportKeeps, InsertKeeps, CountKeeps, CallFailsKeeps, BlockKeeps, ClientsAndTimeKeep,
     GateKeeps, CrashKeeps DEF Next, Step

LEMMA Invariance == Spec => []IInv
  BY InitInv, NextInv, PTL DEF Spec
-----------------------------------------------------------------------------
(* Theorems *)

\* Rows, blocklist, requests, copies and gate stay within their types, whatever
\* fails; a reporter has one row against a device (the unique index of schema.sql).
THEOREM TypeCorrect == Spec => []TypeOK
<1>1. IInv => TypeOK
  BY DEF IInv
<1> QED
  BY <1>1, Invariance, PTL

\* A device is blocked only if at least Threshold different devices reported it
\* (report.go: "at least autoBlocklistThreshold distinct reporters").
THEOREM OnlyEnoughBlock == Spec => []BlockedByEnough
<1>1. IInv => BlockedByEnough
  BY DEF IInv
<1> QED
  BY <1>1, Invariance, PTL

\* Racing reports cannot all miss the threshold: when the requests that report a
\* device are through, it is blocked if enough did and none of them was cut short.
THEOREM EnoughDoBlock == Spec => []EnoughReportsBlock
<1>1. IInv => EnoughReportsBlock
  BY DEF IInv, Pending, EnoughReportsBlock, Quiet, Enough
<1> QED
  BY <1>1, Invariance, PTL

\* A client never uses a copy without a device that has been blocked for longer than
\* a copy lives, if the copy was read from the blocklist (max-age=300 of config.go).
THEOREM CopiesAreRecent == Spec => []CopiesCatchUp
<1>1. IInv => CopiesCatchUp
  BY DEF IInv, TypeOK, Catching, CopiesCatchUp
<1> QED
  BY <1>1, Invariance, PTL

\* No check of /session that reaches the blocklist lets a device in that enough
\* others have reported (session.go, IsBlocked).
THEOREM StayOut == Spec => ReportedDevicesStayOut
<1>1. ASSUME IInv, Next, NEW d \in Reported \ dropped, gate = [pc |-> "check", dev |-> d],
             Enough(d), Quiet(d)
      PROVE  gate'.pc # "passed"
  <2>1. d \in blocklist
    BY <1>1 DEF IInv, Pending, Quiet
  <2>2. IsBlocked => gate'.pc # "passed"
    BY <1>1, <2>1 DEF IsBlocked, Refused
  <2>3. ~IsBlocked => gate' = gate \/ gate' = NoSession
    BY <1>1 DEF Next, Step, Report, Insert, Count, Block, CallFails, FetchConfig, Tick, Session, Crash
  <2> QED
    BY <1>1, <2>2, <2>3 DEF NoSession
<1>2. IInv /\ [Next]_vars
      => [\A d \in Reported \ dropped:
             (/\ gate = [pc |-> "check", dev |-> d]
              /\ Cardinality(ReportersOf(d)) >= Threshold /\ Quiet(d))
             => gate'.pc # "passed"]_vars
  BY <1>1 DEF Enough
<1> QED
  BY <1>2, Invariance, PTL DEF Spec, ReportedDevicesStayOut
=============================================================================
