------------------------------ MODULE Reports ------------------------------
(***************************************************************************)
(* POST /report and what becomes of it: the blocklist and the copies of    *)
(* it that clients hold.                                                   *)
(*                                                                         *)
(* A report is inserted, counted and acted on in three statements without  *)
(* a transaction (handlers/report.go, db/queries.go).  Only the request    *)
(* that inserted a new row counts; errors of the count and of the block    *)
(* are swallowed.  GET /config serves the blocklist to be cached for 300   *)
(* seconds, and serves an empty one when it cannot be read                 *)
(* (handlers/config.go).  The cache is the client's.  POST /session asks   *)
(* the blocklist before anything else, and lets a device pass when it      *)
(* cannot be read (handlers/session.go).                                   *)
(***************************************************************************)
EXTENDS Integers, FiniteSets

CONSTANTS
    Reporters,
    Reported,        \* the devices reports are made against
    Handlers,
    Clients,         \* the apps that fetch /config
    Threshold,       \* autoBlocklistThreshold
    ConfigTTL,       \* max-age=300, in ticks
    Faults,          \* which calls can fail, and how
    CrashAllowed,
    NoDevice

Steps == {"insert", "count", "block", "config", "isBlocked"}

ASSUME ThresholdAssumption == Threshold \in Nat \ {0} /\ ConfigTTL \in Nat \ {0}
ASSUME ReportDeviceAssumption == NoDevice \notin Reporters \cup Reported /\ IsFiniteSet(Reporters)
ASSUME ReportFaultAssumption ==
    Faults \subseteq Steps \X {"error", "lost"} /\ CrashAllowed \in BOOLEAN

VARIABLES
    reports,     \* the rows of reports: reporter, reported device, which row of the two
    blocklist,   \* the devices in blocklist
    blockedFor,  \* ticks since a device was blocked
    req,         \* what each handler is doing
    dropped,     \* devices a report of which was inserted and not acted on to the end
    copy,        \* the blocklist a client holds, whether it was read, the ticks left
    gate         \* the /session being checked, or how the last check ended

vars == <<reports, blocklist, blockedFor, req, dropped, copy, gate>>

NoRequest == [pc |-> "idle", by |-> NoDevice, dev |-> NoDevice, resp |-> 0]
Request == [pc: Steps \cup {"idle"}, by: Reporters \cup {NoDevice},
            dev: Reported \cup {NoDevice}, resp: Nat]
NoSession == [pc |-> "closed", dev |-> NoDevice]
NoCopy == [list |-> {}, read |-> TRUE, ttl |-> 0]

Init ==
    /\ reports = {}
    /\ blocklist = {}
    /\ blockedFor = [d \in Reported |-> 0]
    /\ req = [h \in Handlers |-> NoRequest]
    /\ dropped = {}
    /\ copy = [c \in Clients |-> NoCopy]
    /\ gate = NoSession
-----------------------------------------------------------------------------
At(h, step) == req[h].pc = step
Acting(h) == req[h].pc \in {"count", "block"}
Goto(h, step) == [req[h] EXCEPT !.pc = step]
Answer(h, code) == [req[h] EXCEPT !.pc = "idle", !.resp = code]
Fails(step, how) == <<step, how>> \in Faults

\* What the handler goes on to when the call of its step reports an error: a
\* report that was not inserted is a 500, any other is accepted.
OnError(h) ==
    Answer(h, IF At(h, "insert") THEN 500 ELSE 201)

CallFails(h) ==
    /\ Fails(req[h].pc, "error")
    /\ req' = [req EXCEPT ![h] = OnError(h)]
    /\ dropped' = IF At(h, "insert") THEN dropped ELSE dropped \cup {req[h].dev}
    /\ UNCHANGED <<reports, blocklist, blockedFor, copy, gate>>

\* A valid report of another device that the limiter lets through.
Report(h, p, d) ==
    /\ At(h, "idle")
    /\ p # d
    /\ req' = [req EXCEPT ![h] = [pc |-> "insert", by |-> p, dev |-> d, resp |-> 0]]
    /\ UNCHANGED <<reports, blocklist, blockedFor, dropped, copy, gate>>

RowsOf(p, d) == {row \in reports: row[1] = p /\ row[2] = d}

DuplicateNever(h) == FALSE
\* ON CONFLICT (reporter_hash, reported_hash) DO NOTHING.
Duplicate(h) == RowsOf(req[h].by, req[h].dev) # {}

InsertRow(h) ==
    reports' = reports \cup
                  {<<req[h].by, req[h].dev, Cardinality(RowsOf(req[h].by, req[h].dev))>>}

\* InsertReport: a duplicate is accepted and neither counted nor acted on.
Insert(h) ==
    /\ At(h, "insert")
    /\ \/ /\ Duplicate(h)
          /\ req' = [req EXCEPT ![h] = Answer(h, 201)]
          /\ UNCHANGED <<reports, dropped>>
       \/ /\ ~Duplicate(h)
          /\ InsertRow(h)
          /\ req' = [req EXCEPT ![h] = Goto(h, "count")]
          /\ UNCHANGED dropped
       \/ /\ ~Duplicate(h) /\ Fails("insert", "lost")
          /\ InsertRow(h)
          /\ req' = [req EXCEPT ![h] = OnError(h)]
          /\ dropped' = dropped \cup {req[h].dev}
    /\ UNCHANGED <<blocklist, blockedFor, copy, gate>>

CountOfReports(d) == Cardinality({row \in reports: row[2] = d})

ReachedWithOneMore(n) == n > Threshold
Reached(n) == n >= Threshold

\* ReportCount and the threshold.
Count(h) ==
    /\ At(h, "count")
    /\ req' = [req EXCEPT ![h] = IF Reached(CountOfReports(req[h].dev))
                                 THEN Goto(h, "block") ELSE Answer(h, 201)]
    /\ UNCHANGED <<reports, blocklist, blockedFor, dropped, copy, gate>>

\* AddToBlocklist, whose error makes no difference to the handler.
Block(h) ==
    /\ At(h, "block")
    /\ blocklist' = blocklist \cup {req[h].dev}
    /\ req' = [req EXCEPT ![h] = Answer(h, 201)]
    /\ UNCHANGED <<reports, blockedFor, dropped, copy, gate>>
-----------------------------------------------------------------------------
NotAging == copy
Aging == [c \in Clients |-> IF copy[c].ttl <= 1 THEN NoCopy ELSE [copy[c] EXCEPT !.ttl = @ - 1]]

\* A client whose copy is stale fetches /config; an error is an empty list.
FetchConfig(c) ==
    /\ copy[c].ttl = 0
    /\ \/ copy' = [copy EXCEPT ![c] = [list |-> blocklist, read |-> TRUE, ttl |-> ConfigTTL]]
       \/ /\ Fails("config", "error")
          /\ copy' = [copy EXCEPT ![c] = [list |-> {}, read |-> FALSE, ttl |-> ConfigTTL]]
    /\ UNCHANGED <<reports, blocklist, blockedFor, req, dropped, gate>>

Tick ==
    /\ copy' = Aging
    /\ blockedFor' = [d \in Reported |->
                         IF d \in blocklist /\ blockedFor[d] < ConfigTTL
                         THEN blockedFor[d] + 1 ELSE blockedFor[d]]
    /\ UNCHANGED <<reports, blocklist, req, dropped, gate>>

\* A valid POST /session of d.
Session(d) ==
    /\ gate.pc # "check"
    /\ gate' = [pc |-> "check", dev |-> d]
    /\ UNCHANGED <<reports, blocklist, blockedFor, req, dropped, copy>>

RefusedByCopy(d) == \E c \in Clients: d \in copy[c].list
Refused(d) == d \in blocklist

\* IsBlocked, for every device, the allowlisted ones included.  Its error lets the
\* device pass.
IsBlocked ==
    /\ gate.pc = "check"
    /\ gate' \in
          {[pc |-> IF Refused(gate.dev) THEN "closed" ELSE "passed", dev |-> NoDevice]}
          \cup IF Fails("isBlocked", "error") THEN {[pc |-> "unread", dev |-> NoDevice]} ELSE {}
    /\ UNCHANGED <<reports, blocklist, blockedFor, req, dropped, copy>>

Crash ==
    /\ CrashAllowed
    /\ \E h \in Handlers: ~At(h, "idle")
    /\ req' = [h \in Handlers |-> NoRequest]
    /\ dropped' = dropped \cup {req[h].dev: h \in {g \in Handlers: Acting(g)}}
    /\ gate' = NoSession
    /\ UNCHANGED <<reports, blocklist, blockedFor, copy>>

Step(h) == Insert(h) \/ Count(h) \/ Block(h) \/ CallFails(h)

Next ==
    \/ \E h \in Handlers:
          \/ Step(h)
          \/ \E p \in Reporters, d \in Reported: Report(h, p, d)
    \/ \E c \in Clients: FetchConfig(c)
    \/ \E d \in Reported: Session(d)
    \/ IsBlocked
    \/ Tick
    \/ Crash

Spec == Init /\ [][Next]_vars
-----------------------------------------------------------------------------
(* Properties *)

\* The rows, the blocklist, the requests and the copies are typed; the unique
\* index holds.
TypeOK ==
    /\ reports \subseteq Reporters \X Reported \X {0}
    /\ blocklist \subseteq Reported
    /\ blockedFor \in [Reported -> 0..ConfigTTL]
    /\ req \in [Handlers -> Request]
    /\ dropped \subseteq Reported
    /\ copy \in [Clients -> [list: SUBSET Reported, read: BOOLEAN, ttl: 0..ConfigTTL]]
    /\ gate \in [pc: {"check", "passed", "closed", "unread"}, dev: Reported \cup {NoDevice}]

ReportersOf(d) == {p \in Reporters: RowsOf(p, d) # {}}

\* A device is blocked only when enough different devices reported it: replays,
\* retries and races of one reporter never block anybody (report.go: "a successful
\* auto-block requires at least autoBlocklistThreshold distinct reporters").
BlockedByEnough == \A d \in blocklist: Cardinality(ReportersOf(d)) >= Threshold

\* No handler is between inserting a report of d and having acted on it.
Quiet(d) == \A h \in Handlers: ~(Acting(h) /\ req[h].dev = d)

\* Reports that race each other to the threshold do block: whoever counts last sees
\* every row.  Once the handlers are through, a device with enough reporters is on
\* the blocklist (report.go: "the number of distinct reports against a device that
\* trigger an automatic entry"), unless a report of it was inserted and a later
\* call of that request failed: no retry of that reporter repairs it.
EnoughReportsBlock ==
    \A d \in Reported \ dropped:
        (Cardinality(ReportersOf(d)) >= Threshold /\ Quiet(d)) => d \in blocklist

\* A device that enough others reported gets no session once their reports have been
\* handled, however the reports raced each other, unless its check fails or one of
\* the reports came to nothing (session.go: "Blocked devices are refused explicitly").
ReportedDevicesStayOut ==
    [][\A d \in Reported \ dropped:
          (/\ gate = [pc |-> "check", dev |-> d]
           /\ Cardinality(ReportersOf(d)) >= Threshold /\ Quiet(d))
          => gate'.pc # "passed"]_vars

\* A copy of the blocklist that a client still uses lacks no device that has been
\* blocked for as long as a copy lives, unless /config could not be read: then the
\* client goes without a blocklist until the copy expires.
CopiesCatchUp ==
    \A c \in Clients, d \in blocklist:
        (copy[c].ttl > 0 /\ copy[c].read /\ blockedFor[d] >= ConfigTTL)
        => d \in copy[c].list
=============================================================================
