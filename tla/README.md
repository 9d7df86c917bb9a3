# A TLA+ model of bump-server

bump-server meters "bumps" (BLE matches): a device has some free bumps a day and
may buy more. The program is small, but each of its request handlers is a sequence
of separate calls to Redis and Postgres, any number of handlers run at once, and
nothing rolls one store back when a call to the other fails. The modules here
describe those sequences call by call; TLC checks them on small instances and
TLAPS proves every safety property that TLC finds to hold, for every value of the
constants; liveness is left to TLC.

## 1. Inventory

| Component | State | Operations | Interacts with |
|---|---|---|---|
| Reserve and commit: `handlers/session.go`, `handlers/session_commit.go`, `cache/redis.go` | Redis `reserve:<sid>` (60 s, sentinel 10 s), `daily:<dh>`, `commitlock:<sid>` (30 s); Postgres `device_bumps` | `POST /session` reserves, `POST /session/commit` charges | limiter, daily counter, /verify (credits the balance it spends), block list |
| Rate limiter: `CheckRateLimit` | Redis `rate:<key>` | INCR, EXPIRE, verdict, sleep | called by /session, /verify, /report |
| Daily counter: `secondsUntilMidnightUTC`, commit script | Redis `daily:<dh>` and its time to live | increment and set expiry; expire | read by /session, /bumps, /verify |
| Purchases: `handlers/verify.go`, `db/queries.go`, `db/db.go` | `verified_purchases`, `device_bumps`, ten pooled connections | replay check, Google lookup, crediting transaction | Google Play; balance spent by commits |
| Reports and config: `handlers/report.go`, `handlers/config.go` | `reports`, `blocklist`; clients' cached copies | insert, count, block; fetch; the check of `/session` (`IsBlocked`) | /session reads `blocklist` |
| Process: `main.go`, `config/config.go` | environment, open stores, listener | start-up checks, signal, Shutdown, deferred closes | every handler |
| Balances: `handlers/bumps.go`, bodies of the 200s of /session, /session/commit, /verify | none | two reads, one of each store | Redis, Postgres, the process that closes them |
| Session log and cleanup goroutine | `session_log` | insert, delete by age | none: no handler reads it |
| Token signing, configuration parsing, middleware, static site, key tools | none | pure functions and pure I/O | — |

What makes it hard:

* *Interleaving.* A commit reads the reservation and acts on it one or two calls
  later. Free commits are re-validated inside a Lua script; paid ones rely on a lock
  that is never released and may expire under its holder.
* *Failure.* Each call can fail, can be executed and its reply lost (a broken
  connection, or a client that hangs up and cancels `r.Context()`), or can be sent
  twice by go-redis. The process can die, or return from `main` with requests in
  flight.
* *Ordering and time.* Reservation, sentinel and lock have different lifetimes;
  the time to midnight is computed before it is applied; INCR and EXPIRE of the
  limiter are separate commands.
* *Limits.* Connection pool, fixed windows of the limiter, truncation to seconds.

What makes each component correct is stated by the properties in section 4; every
hazard, with its line, is in `PROJECT.json`.

## 2. Modules

| Module | Models | State |
|---|---|---|
| `Sessions` | `/session` and `/session/commit` over both stores | `reserve`, `daily`, `commitlock` (Redis), `paid` (Postgres), `req` (per handler: which call is next, for which device and session), history |
| `Ledger` | what reserve and commit promise, without stores and handlers | `stage`, `holder`, `allowance`, `charges`, `balance` |
| `SessionsLedger` | the refinement mapping from `Sessions` to `Ledger` | |
| `Sums` | sums of a function over a set, for what `Sessions` and `RateLimiter` say about totals | |
| `TimelyCommits` | `Sessions` with commits that take at most `CommitBudget` ticks once they have read the reservation | adds `age`, `abandoned` |
| `RateLimiter` | `CheckRateLimit` | `count`, `ttl`, `req`, history |
| `Purchases` | `/verify` | `verified`, `balance`, the rows open transactions hold (`inserting`, `updating`), `req`, `others` (connections used elsewhere) |
| `Shop` | what `/verify` promises, without transactions, rows and connections | `service`, `bought`, `sold`, `balance`, `asking`, `reply` |
| `PurchasesShop` | the refinement mapping from `Purchases` to `Shop` | |
| `Reports` | `/report`, `/config`, clients' copies, the block list check of `/session` | `reports`, `blocklist`, `req`, `copy`, `gate` |
| `DailyCounter` | the daily counter and midnight | `now`, `count`, `expires`, `req` |
| `Lifecycle` | `main` | `stage`, `service`, `open`, `listening`, `signalled`, `req` |
| `Balances` | what replies show as free and paid, inside the process of `Lifecycle` | `used` (Redis), `paid` (Postgres), `reply`, `seen` (history) |
| `SessionsProofs`, `TimelyCommitsProofs`, `RateLimiterProofs`, `PurchasesProofs`, `ReportsProofs`, `DailyCounterProofs`, `BalancesProofs`, `SumsProofs` | theorems about the module they are named after (`SessionsProofs` and `PurchasesProofs`: also its refinement; `BalancesProofs`: also `Lifecycle`) | |
| `MC...` | instances of the modules above | |

A handler is a record `req[h]`; its `pc` names the store call it makes next. One
action is one store call together with everything the handler does up to its next
call. Where a call has several outcomes the action has one disjunct per outcome.
In `Sessions` every call can additionally

* report an error without having been executed (`CallFails`),
* be executed with its reply lost, or be executed and sent again (`Reply`).

`Faults` says which calls may do what, so a run can ask what holds under which
failures. `Crash` ends all running requests and keeps the stores. With
`RedisForgets`, Redis may restart without its data: reservations, sentinels, locks
and counters vanish together while handlers are between calls (`RedisRestart`).

Correspondence in `Sessions`:

| Code | Action |
|---|---|
| `session.go` up to `CheckRateLimit` and the sleep | `Session`, `DevSession` |
| `TryReserveFreeBump` | `ReserveFree` |
| `GetPaidBumps` when the daily limit is reached | `ReadPaid` |
| `ReservePaidBump` | `ReservePaid` |
| balances, log row, token, 200 | `SignToken` |
| `session_commit.go` validation and dev bypass | `Commit` |
| `GetReservation` and the switch | `Lookup`, `Routed` |
| `CommitFreeBump`: script, then the GET after "already committed" | `CommitFree`, `ReadUsed` |
| `AcquirePaidCommitLock`, `TryConsumePaidBump`, `MarkPaidCommitted` | `Lock`, `Consume`, `Mark` |

Correspondence in `Balances`, which starts where a request asks the first store:

| Code | Action |
|---|---|
| `bumps.go`, commit replies, `verify.go`: `GetDailyFreeBumpsUsed` | `ReadUsed` |
| `session.go`: count returned by the reserve script; balance at the limit; `ReservePaidBump` | `Reserve`, `ReadBalance`, `ReservePaid` |
| `session_commit.go`: count returned by the commit script | `CommitScript` |
| `verify.go`: `IsPurchaseVerified`; Google's or Apple's answer; balance returned by the crediting transaction, or its conflict | `ReplayCheck`, `CheckPurchase`, `CreditPurchase` |
| `verify.go`: the 200s with `valid: false`, whose balances are 0 | `Refuse`, a step of each of the three |
| `GetPaidBumps` of the replies | `ReadPaid` |
| other requests, midnight, `/verify` in between | `Elsewhere` |
| `main`, `Shutdown`, the deferred closes | the actions of `Lifecycle` |

`Ledger` says what a client and an operator may rely on: a session that was handed
out is open until it is charged or closed; nothing reopens it; a free session is
closed by its charge; a paid charge takes one bump of the holder's own balance.
`SessionsLedger` maps `Sessions` to it: a session is open while a commit could still
charge it, which includes a paid commit that has passed the look at a reservation
that has expired since. `Ledger` does not promise that a paid session is charged
once; that needs the time bound of `TimelyCommits`.

`Shop` says what a client of /verify may rely on: a purchase is sold once and for
good, to the device that asked, in the step that decides the client's answer; it is
refused only if it is sold, is no purchase, or Google Play is asked and does not
confirm it; any request may end with 503, also one that sold. `PurchasesShop` maps
`Purchases` to it: a client waits while its handler runs, `sold` is the table of
verified purchases, and rows, transactions and connections have no counterpart.

History variables (`owner`, `kind`, `issued`, `charges`, `billed`, `credited`,
`fullFor`, `abandoned`, `gate`, `seen` and those of the other modules) record what happened for the properties
to speak about; no guard that models code reads them, except that a session id is
drawn once (`owner`) and that a client commits only ids it was given (`issued`).

Time is a `Tick` action: a key with a time to live of n ticks vanishes at the n-th
tick. In `Sessions` the daily counter may vanish at any moment (`DailyReset`);
`DailyCounter` says when it really does.

External parts, modelled from their use: expiry in Redis, errors and re-sends of
the client libraries, Postgres' row locks and read-committed visibility, purchases
at Google Play, the HTTP cache of a client.

## 3. Runs and bounds

| Run | Instance | Shows |
|---|---|---|
| `sessions_safety` | 2 devices, 2 session ids, 2 handlers, limit 1, lifetimes 3/1/2, one credit, every fault, crashes, restarts of Redis; all sets interchangeable | `TypeOK`, `FreeChargedAtMostOnce`, `FreeOkMeansCharged`, `CommittedMeansCharged`, `PaidConserved`, `OvershootWindow`, and that `Sessions` implements `Ledger` (`ImplementsLedger`) |
| `sessions_settle` | the same with one allowlisted device, calls that fail cleanly and crashes, fair | `ErrorMeansNotCharged`, `ChargesSettle` |
| `timely_safety` | ticks of 10 s: lock 3, reservation 6, budget 1; free limit 0, so that two sibling paid sessions compete for the balance; faults after which no charge is left unmarked | `PaidChargedAtMostOnce`, `CommitExclusive`, `StaleReadIsHarmless`, `PaidOkAccounted` (a 200 for a paid session means it is charged, or a commit of it still holds the lock, or gave it up after taking the lock) |
| `timely_unmarked` | the sentinel write may fail | violates `PaidChargedAtMostOnce` |
| `rate_caps` | 1 key, 3 handlers, limit 1, hour of 2 ticks, every fault, crashes | `TypeOK`, `WindowCap`, `HourCap`, `OnlyFailuresOrphan` |
| `rate_immortal` | EXPIRE may fail | violates `CounterHasTTL` |
| `purchases_safety` | 2 devices, 2 handlers, pool of 2, one Google token, an Apple transaction, an unusable Apple text, every fault, crashes, fair | `TypeOK`, `CreditsAreRecords`, `GrantedOnce`, `GoogleConfirmed`, `Answered`, and that `Purchases` implements `Shop` (`ImplementsShop`) |
| `reports_safety` | 3 reporters, 2 reported devices, 2 handlers, threshold 2, every fault, crashes | `TypeOK`, `BlockedByEnough`, `EnoughReportsBlock`, `CopiesCatchUp`, `ReportedDevicesStayOut` |
| `daily_safety` | a day of 8 half seconds, delay up to 3, three midnights, up to 3 charges a day | `TypeOK`, `ResetsAtMidnight`, `ChargesCountAllDay`, `OutlivesByDelay` |
| `balances_safety` | every environment of `Lifecycle`; one request of any kind by a device or an allowlisted one; limit 1, up to 2 used, up to 1 paid; either store may fail, be closed under the request, or change between its reads; fair | of `Lifecycle`: `TypeOK`, `ServesOnlyChecked`, `FailsOnlyWhenStopping`, `Stops`; of `Balances`: `BalancesTypeOK`, `ShownWasTrue`, `NothingOverstated`, `SessionMatchesBalance` |
| `lifecycle_malformed` | every environment, 2 requests | violates `RefusesMalformed` |
| `lifecycle_graceful` | the same | violates `ShutdownIsGraceful` |

Why the bounds are enough. The races in question are between two requests for one
session or one purchase; two handlers meet them all, and with two ids and two
devices a request can also meet a foreign or a sibling session. A limit of 1 makes
the second charge an overshoot. The lifetimes keep the order sentinel < lock <
reservation; `TimelyCommits` uses ticks of 10 s, which keeps their ratios for lock
and reservation. For the limiter three requests pass the hard block of limit 1. A
threshold of 2 with three reporters makes reports race to it and past it. The
pool of two can be filled by two transactions or by other requests. Requests
of `Balances` do not read one another's state: everything another request can do to
the two numbers is `Elsewhere`, so one handler is enough; two used bumps of one
allowed make a clamp visible. The theorems of section 5 hold for any number.

Named bounds: `MaxCredits` (credits of a device), `MaxCount` (increments of a
counter), `MaxSpent` (bumps spent), `MaxTime`, `MaxCharges`, `MaxDelay`
(`DailyCounter`), `MaxUsed`, `MaxPaid` and one request per handler (`Balances`). Each
is a guard of the environment or of the action that counts, none of the code's own
decisions depends on it.

Fairness. `Sessions`: time passes, and a goroutine that can make its next call
makes it (weak fairness); nobody has to send a request. `Purchases`: strong
fairness for a handler's next step, since a row or a connection is given back and
taken again and both Postgres and `database/sql` queue their waiters first come,
first served; weak fairness for other requests to return their connection. The
error branch `CallFails` has no fairness, so nobody is saved by an error.
`Lifecycle`: `main` and the goroutine waiting for a signal are scheduled; requests
need not end (`Balances` keeps that fairness). Deadlock is checked everywhere except
in `Lifecycle` and `Balances`, whose process exits.

Each property is paired in `PROJECT.json` with a changed definition (a dropped
comparison, an off-by-one, a missing release) under which its run fails. Those
definitions stand before the ones they change and are used nowhere else.

## 4. What holds

* A free session is charged at most once, and a commit of it is answered with 200
  only if it has been charged, under every failure, re-send and crash.
* A committed sentinel exists only for a charged session; what a device bought is
  in its balance or was charged for its own sessions.
* A reservation does not count against the daily limit, so the limit can be
  overshot, but only while reservations made before it was reached are alive.
* Whatever fails, is sent twice, expires or is lost with Redis, the two session
  endpoints do to sessions and balances only what `Ledger` allows.
* A commit that fails cleanly has not charged; every issued session is settled in
  the end, by its charge or by expiry.
* The lock, although never released, keeps a paid session from being charged twice
  if a commit takes less than half a lock and its sentinel is written
  (`TimelyCommits`); and a 200 that was given because the lock was busy belongs to a
  session that is charged, is about to be, or was given up by the lock's holder.
* Of the requests that Redis counts, one counter of the limiter lets at most twice
  the limit through, and an arbitrary hour, which meets two counters, at most four
  times the limit. A request whose INCR fails is let through uncounted, so these
  bounds cover all requests only as long as INCR does not fail. A counter without a
  time to live has its EXPIRE still to come or a failure behind it; how late that
  EXPIRE comes, nothing bounds.
* A purchase is credited once, with its record or not at all; every /verify ends.
  Whatever fails, waits or dies, /verify does to purchases and balances only what
  `Shop` allows, and tells its clients no more and no less than `Shop` lets it.
* Only devices with enough different reporters are blocked, and those are, unless a
  call failed after a report was stored. Clients' copies catch up within their life.
  Once enough reports have blocked a device, its new sessions are refused as long as
  the block list can be read: nothing takes a device off it.
* If no read fails, each number of a 200 was true at some moment of its request,
  except in the refusals of /verify, which show 0 of both; if one does, no number is
  above what was there, except `free_remaining` in three branches of commit (see
  below). A session is handed out with a balance that shows
  a bump, and refused only for want of both kinds.
* The daily counter loses at most the charges of the last second of a day, unless
  a script runs in a later half second than its clock was read.

### Known limits: where code and documents differ

Shown by a run (see `findings` in `PROJECT.json`):

1. *A paid session charged twice after a failed sentinel write*
   (`timely_unmarked`). The comment at `session_commit.go:182` and
   `docs/PRODUCTION_VERIFICATION.md:273` expect a 409; the `paid_balance > 0` guard
   gives one only to a device with a single bump.
2. *An immortal limiter counter* (`rate_immortal`) after one failed EXPIRE.
3. *A malformed service account* (`lifecycle_malformed`) does not stop the start.
4. *Shutdown is not graceful* (`lifecycle_graceful`): `main` returns as soon as the
   listener is closed.

Met while modelling, expressed as a condition of a property:

* Without a bound on a handler's time two commits of one paid session can both
  charge it with no failure at all: the first takes the lock and stalls for more
  than 30 s, or the second reads the reservation and stalls until the lock has gone
  (`redis.go:325` says they "can't double-decrement"). This is why `CommitBudget`
  is there.
* A commit whose charge landed and whose reply was lost is answered with 503
  (`docs/PRODUCTION_VERIFICATION.md:274` says a failed commit should not charge).
  `ErrorMeansNotCharged` is therefore checked without lost replies.
* "Sliding window" (`redis.go:41`): windows are fixed; `HourCap` is four times the
  limit and `WindowCap` twice, where `session.go:152-155` says "at most maxPerHour".
  Both count only requests whose INCR was answered (`recent`, `window`).
* A busy lock is answered with 200 (`session_commit.go:155`) even if its holder
  then fails, or if the lock was the caller's own, taken by a re-sent command.
* A lost COMMIT reply leaves a credit behind a 503 (`verify.go:272` says no state
  was persisted); the retry is told the purchase is invalid.
* Errors of ReportCount and AddToBlocklist are swallowed and not repaired by a
  retry, which is a duplicate (`dropped` in `Reports`).
* `schema.sql:22` says 3+ reports; the code blocks at 5.
* A commit script that runs after the half second in which its clock was read may
  keep yesterday's count alive past midnight, or cut today's short (`late` in
  `DailyCounter`; "Counter resets at midnight UTC", `redis.go:74`).
* The replay, busy and paid branches of commit drop the error of the daily read and
  show the full quota, where the comment at `session_commit.go:133-136` says "Report
  current committed counts" (`"recommit"` is excepted in `NothingOverstated`).
* A refused purchase is answered with `paid_balance` 0 and `free_remaining` 0 whatever
  the device has, where `verify.go:65-66` calls the fields the "device's total paid
  balance" and the "free bumps left today, for client UI sync". `ShownWasTrue` exempts
  these replies (`refused` in `Balances`).
* `free_remaining` of a commit is the plain difference and negative after an
  overshoot; /bumps, /session and /verify never go below 0 (`BalancesTypeOK`).
* A Redis that restarts without its data loses the locks of running commits, and a
  commit that has read the reservation before may charge the paid session again:
  `TimelyCommits` is checked with `RedisForgets` false. Free sessions stay safe,
  since the claim needs the reservation, which is lost too.
* `docs/PRODUCTION_VERIFICATION.md:54` says that allowlisted hashes bypass the block
  list; `session.go` asks the block list first and refuses them too.
* `docs/PRODUCTION_VERIFICATION.md:258` describes a delayed answer with a valid token
  for blocked devices; the code answers 403.
* `docs/PRODUCTION_VERIFICATION.md:299` and `:463` know neither the limiter nor the
  threshold of 5 that /report has.

## 5. Proofs

The proofs assume only what the modules' named ASSUMEs say about the constants:
lifetimes are positive, null values are not members of the sets they stand beside,
faults are drawn from the listed kinds, the quota is within its bound. Devices,
session ids, handlers, limits and lifetimes are arbitrary. Each property was checked
by TLC before it was proved. Every proof has one step per action of the next-state
relation; the temporal step at its end is the only use of PTL.

**`SessionsProofs`**: `TypeCorrect`, `FreeChargedOnce`, `FreeOkIsCharged`,
`SentinelIsCharged`, `OvershootIsShort`, `CleanErrors`, from one invariant `IInv`:

* `Handling`: what a handler's `pc` and operation say about its device and session
  (a session request works on an id that is drawn and not issued, a commit on an
  issued one; a handler at the paid lock has a paid session, one past its charge a
  charged one).
* `Keeping`: what a reservation's type says about `kind`, `owner` and `charges`: a
  free reservation belongs to an uncharged free session. This is what makes
  "charged at most once" inductive: the count alone says nothing about why a second
  claim must fail.
* `OneDrawer`: a session id is worked on by one /session request at most, so a
  reservation is planted once and never over a charged session.
* `Window`: while a device is at its limit, a live free reservation has at most
  `ReservationTTL - fullFor` ticks left; from it follows `OvershootWindow`.

An invariant such as `FreeOkMeansCharged` is not inductive alone because the paths
"already committed" and "replay" conclude a charge from the type of the
reservation, hence `Keeping`. A restart of Redis keeps all of it, since every
conjunct speaks of reservations that exist. `CleanErrors` assumes that a
call that fails has not been executed.

`LInv` adds `Belongs`: a reservation, and a handler working on a session, belong to
the session's owner. From it follow

* `PaidIsConserved`, with `Conserved`: only finitely many ids have been drawn, so the
  sum of a device's paid charges exists. A charge adds one to the sum of the device
  that owns the session and takes one bump out of its balance; an id that is drawn,
  or whose allowance is decided, enters the sum with no charge (`UnchargedMove`,
  `ChargeConserves`).
* `SettledIsFinal`: a session that was handed out and is settled stays settled and is
  never charged again (`SettledStays`, `SettledUncharged`). It is the part of
  `ChargesSettle` that is safety; that a session is settled at some time is liveness.
* `LedgerKept`, `Spec => ImplementsLedger`. Initial states map to initial states, and
  every action of `Sessions` maps to an action of `Ledger`: `SignToken` to `Grant`, a
  claiming `CommitFree` to `ChargeFree`, a `Consume` that takes a bump to
  `ChargePaid`, `Credit` to `Deposit`, and everything else to `Close`, which closes
  none, one or several sessions.

**`SumsProofs`**: the facts about sums the others use: the sum over nothing, over a set
with one element more or less, over a set of which one summand grew (`SumBump`) or
which moved by one place (`SumShift`). `SumOver` is a fold; that it does not depend on
the order of its choices is an induction over finite sets. The induction theorems take
an operator as a parameter, which the provers cannot instantiate, so the induction is
done once, in `SumsAgree`, by looking at a smallest counterexample (the least number
of a set of numbers, `Least`).

**`TimelyCommitsProofs`**: `PaidChargedOnce`, `LockExcludes`, `StaleReadHarmless`,
`PaidOkIsAccounted`, `TimelyKeepsLedger`. Besides the module's assumption that the lock outlives two
budgets, the first three assume `Harmless`: the call that charges is executed once,
its reply arrives, the sentinel is written, and neither handlers nor locks are lost.
The invariant `TInv` adds to `IInv` how the ages of the handlers past `Lookup` relate
to what is left of the lock: a holder's age and the lock's remaining time add up to
at least the lock's lifetime (`Locked`), so the lock cannot expire under its holder,
and a commit that read the reservation before the charge runs out of its budget
before the lock is free (`Outlasted`). `PaidOkIsAccounted` and `TimelyKeepsLedger`
need no such assumption; the latter says that every behaviour with timely commits is
one of `Sessions`, so what is proved there (`ImplementsLedger`, `PaidConserved` and
the others) holds with the clock as well.

**`RateLimiterProofs`**: `RateTypeCorrect`, `HardBlock`, `FailuresOrphan` from
`RateInv`: running requests have a key (`Keyed`) and a counter has let through no more
requests than it counts (`Counting`), which is what turns the comparison with the
count into a bound on requests.

`HourIsCapped` needs the history of an hour. `HourInv` says that a counter whose hour
has run for n ticks has counted whatever was let through in the last n
(`CountedWhileLived`), and that what passed within the hour without being counted by it
is at most what one older counter let through (`OneCounterBefore`). When a counter
expires its hour has run out, so all that is left of the last hour was counted by it.
An EXPIRE that is sent again only makes that hour start anew. The theorem speaks of
the requests whose INCR was answered; `EveryoneIsCounted` says that without errors of
INCR there are no others that get past the limiter, also not through the branch that
sends the EXPIRE first. `CountersExpire` proves the claim that `rate_immortal` refutes,
under the failures it does withstand: no INCR that is executed unheard or twice, no
failed EXPIRE, no crash.

**`PurchasesProofs`**: `TypeCorrect`, `CreditsMatch`, `OneGrant`, `OnlyConfirmed`. The
invariant ties the rows that open transactions hold to the handlers that run them: a
request that has inserted its key holds it and the key is unrecorded until that
request commits (`Handling`), and balance and spent bumps of a device add up to the
number of its records (`Counted`).

`ShopKept`, `Spec => ImplementsShop`: `Verify` maps to `Ask`; a COMMIT, heard or not,
to `Sell`; a replay, a conflict, an unusable transaction or a refusal of Google Play
to `Refuse`; another failed call to `Fail`; a crash to `Hangup`; the calls in between
change nothing `Shop` knows. It uses that the key is still unrecorded at the COMMIT and
that whoever asks Google Play has a service and a token of it (`AtGoogle`).

`NoCircularWait`: whenever a request waits for a row or for a connection, a statement of
another request holds a connection or some open transaction waits for nothing. Rows are
taken in one order, the key before the device (`Ordered`), and connections are asked for
by requests that own no row. It is the part of `Answered` that is safety, for a pool of
any size; that whoever can move does is fairness.

**`ReportsProofs`**: `TypeCorrect`, `OnlyEnoughBlock`, `EnoughDoBlock`,
`CopiesAreRecent`, `StayOut`. The invariant says that a handler at the insert
into the block list has counted enough (`Acts`), that a device with enough reporters
is blocked, is about to be, or met a swallowed error (`Pending`), and that the time
since a device was blocked and the time left to a copy without it add up to one
copy's life at most (`Catching`). `RowsAreReporters` turns the count of rows into
one of reporters.

**`DailyCounterProofs`**: `DayTypeCorrect`, `MidnightResets`, `ChargesCount`,
`EndsByDelay`, for a day of any length. Division and remainder are used through the
lemmas `Division`, `Unique`, `NextMidnight`, `NextRemainder` and `Truncated`, which
bound the truncated time to midnight; `DayInv` says for each request on its way
(`OnItsWay`) and each counter (`OnTime`) between which midnights it lies.

**`BalancesProofs`**: `ProcessCorrect` of `Lifecycle` alone, `ProcessTyped`,
`ServedChecked` and `ClosedWhenStopping` of the process that serves balances;
`RefusesTheRest`, that the claim `lifecycle_malformed` refutes fails for a malformed
account only; `BalancesTyped`, `ShownTrue`, `NotOverstated`, `SessionMatches` of the
balances. The invariant `BalInv` says for a request under way that each number it has gathered was
among those it has seen, or is one its branch puts in place of a failed read, or the 0
of a refusal (`Honest`); what it has seen only grows (`SeeingMore`).

Only model-checked: the liveness properties (`ChargesSettle`, `Answered`, `Stops`),
which rest on fairness and are beyond the prover.

## 6. Not modelled

* The session log and its cleanup: rows are written and deleted by age, no handler
  reads them and errors are dropped.
* Token signing: a pure function of its inputs. That the key decodes is the first
  check of `main` and is part of `Lifecycle`.
* Parsing of the configuration, recovery and logging middleware, validation of
  hashes, the static site, the health check and the key tools: pure functions or
  pure I/O. Whatever parsing can yield is a value of a constant or of `Lifecycle`'s
  environment.
* The lengths of throttle delays, so that a delay may exceed the server's 30 s
  WriteTimeout is not visible.
* A restart of Redis that loses only the last second of writes (AOF everysec,
  `docs/PRODUCTION_VERIFICATION.md:379`): keys vanish one by one by expiry or all
  together.

## 7. Plan

Done: the sessions and their refinement of `Ledger`, timely commits, the limiter,
purchases and their refinement of `Shop`, reports with the block list check, the daily counter, balances in the
process, restarts of Redis, and proofs of all of these.

Left, in this order:

1. A restart of Redis that loses a suffix of its writes.
2. The lengths of the throttle delays against the server's WriteTimeout, in
   `RateLimiter`.
3. Operators for the token layout and for configuration parsing, checked against
   reference definitions.
