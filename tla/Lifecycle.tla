----------------------------- MODULE Lifecycle -----------------------------
(***************************************************************************)
(* The server process, from its environment variables to its exit          *)
(* (main.go, handlers/verify.go, config/config.go).                        *)
(*                                                                         *)
(* main checks its configuration and its stores one after the other and    *)
(* gives up at the first that fails.  On a signal another goroutine calls  *)
(* Shutdown, which stops the listener at once and then waits for the       *)
(* requests in flight; ListenAndServe returns as soon as the listener is   *)
(* stopped, and main then closes its stores and returns, which ends the    *)
(* process with every goroutine in it.                                     *)
(***************************************************************************)
EXTENDS Integers, FiniteSets

CONSTANTS Handlers

Texts == {"empty", "malformed", "valid"}

\* What the environment variables and the stores are like.
Environment == [key: Texts, account: Texts, devMode: BOOLEAN,
                database: BOOLEAN, schema: BOOLEAN, redis: BOOLEAN]

Stages == {"signer", "gate", "database", "migrate", "redis", "verifier", "listen",
           "serving", "closeRedis", "closeDatabase", "exited"}

VARIABLES
    env,        \* the environment of the process
    stage,      \* what main does next
    service,    \* whether the verify handler has a Google Play service
    open,       \* the stores main has open
    listening,  \* whether connections are accepted
    signalled,  \* whether SIGINT or SIGTERM has come
    req         \* what each request is doing

vars == <<env, stage, service, open, listening, signalled, req>>

Init ==
    /\ env \in Environment
    /\ stage = "signer"
    /\ service = FALSE
    /\ open = {}
    /\ listening = FALSE
    /\ signalled = FALSE
    /\ req = [h \in Handlers |-> "none"]
-----------------------------------------------------------------------------
(* main *)

\* log.Fatal and the return of main: the process is gone, its requests with it.
Exit ==
    /\ stage' = "exited"
    /\ listening' = FALSE
    /\ req' = [h \in Handlers |-> IF req[h] = "running" THEN "cut" ELSE req[h]]

\* One check of main: on to the next stage, or out.
Check(here, ok, next) ==
    /\ stage = here
    /\ IF ok THEN stage' = next /\ UNCHANGED <<listening, req>> ELSE Exit
    /\ UNCHANGED <<env, signalled>>

\* The private key is base64 of the right length.
KeyDecodes == env.key = "valid"

NewSigner ==
    /\ Check("signer", KeyDecodes, "gate")
    /\ UNCHANGED <<service, open>>

AccountOrDevModeAlways == TRUE
\* The production check looks at whether the text is empty, and no further.
AccountOrDevMode == env.account # "empty" \/ env.devMode

ProductionGate ==
    /\ Check("gate", AccountOrDevMode, "database")
    /\ UNCHANGED <<service, open>>

Connect ==
    /\ Check("database", env.database, "migrate")
    /\ open' = IF env.database THEN open \cup {"database"} ELSE open
    /\ UNCHANGED service

Migrate ==
    /\ Check("migrate", env.schema, "redis")
    /\ UNCHANGED <<service, open>>

ConnectRedis ==
    /\ Check("redis", env.redis, "verifier")
    /\ open' = IF env.redis THEN open \cup {"redis"} ELSE open
    /\ UNCHANGED service

\* NewVerifyHandler: a text that cannot be parsed is logged and leaves the handler
\* without a service.
NewVerifyHandler ==
    /\ Check("verifier", TRUE, "listen")
    /\ service' = (env.account = "valid")
    /\ UNCHANGED open

\* ListenAndServe accepts connections, or finds its port taken.
Listen ==
    /\ stage = "listen"
    /\ \/ stage' = "serving" /\ listening' = TRUE /\ UNCHANGED req
       \/ Exit
    /\ UNCHANGED <<env, service, open, signalled>>

\* The process ends without main: the listener breaks (log.Fatalf), a signal comes
\* before it is waited for, the machine kills it.
Die ==
    /\ stage # "exited"
    /\ Exit
    /\ UNCHANGED <<env, service, open, signalled>>

ReturnsWhenSignalled == stage = "serving" /\ signalled
ReturnsWithoutServing == stage = "serving"
ReturnsNever == FALSE
\* When ListenAndServe returns ErrServerClosed.
ListenReturns == stage = "serving" /\ ~listening

Return ==
    /\ ListenReturns
    /\ stage' = "closeRedis"
    /\ UNCHANGED <<env, service, open, listening, signalled, req>>

\* The deferred calls of main, last one first.
CloseRedis ==
    /\ stage = "closeRedis"
    /\ open' = open \ {"redis"}
    /\ stage' = "closeDatabase"
    /\ UNCHANGED <<env, service, listening, signalled, req>>

CloseDatabase ==
    /\ stage = "closeDatabase"
    /\ open' = open \ {"database"}
    /\ Exit
    /\ UNCHANGED <<env, service, signalled>>

Main ==
    \/ NewSigner \/ ProductionGate \/ Connect \/ Migrate \/ ConnectRedis \/ NewVerifyHandler
    \/ Listen \/ Return \/ CloseRedis \/ CloseDatabase
-----------------------------------------------------------------------------
(* Signals and requests *)

Signal ==
    /\ stage = "serving" /\ ~signalled
    /\ signalled' = TRUE
    /\ UNCHANGED <<env, stage, service, open, listening, req>>

\* server.Shutdown stops the listener first.
Shutdown ==
    /\ signalled /\ listening
    /\ listening' = FALSE
    /\ UNCHANGED <<env, stage, service, open, signalled, req>>

\* A request that needs both stores (module Balances says how).
Request(h) ==
    /\ listening
    /\ req[h] # "running"
    /\ req' = [req EXCEPT ![h] = "running"]
    /\ UNCHANGED <<env, stage, service, open, listening, signalled>>

\* It is answered; once a store has been closed that may be with the error of a
\* call to it.
Finish(h) ==
    /\ req[h] = "running"
    /\ \E end \in IF open = {"database", "redis"} THEN {"served"} ELSE {"served", "failed"}:
          req' = [req EXCEPT ![h] = end]
    /\ UNCHANGED <<env, stage, service, open, listening, signalled>>

Next == Main \/ Die \/ Signal \/ Shutdown \/ \E h \in Handlers: Request(h) \/ Finish(h)

Spec == Init /\ [][Next]_vars

\* main and the goroutine that waits for the signal are scheduled.
FairSpec == Spec /\ WF_vars(Main) /\ WF_vars(Shutdown)
-----------------------------------------------------------------------------
(* Properties *)

\* The process state is typed, and connections are accepted only while main is in
\* ListenAndServe.
TypeOK ==
    /\ env \in Environment
    /\ stage \in Stages
    /\ service \in BOOLEAN /\ listening \in BOOLEAN /\ signalled \in BOOLEAN
    /\ listening => stage = "serving"
    /\ open \subseteq {"database", "redis"}
    /\ req \in [Handlers -> {"none", "running", "served", "failed", "cut"}]

\* No request is served by a process whose signing key, stores or production check
\* failed (the order of the checks of main).
ServesOnlyChecked ==
    (\E h \in Handlers: req[h] \in {"running", "served", "failed", "cut"}) =>
        /\ env.key = "valid" /\ env.database /\ env.schema /\ env.redis
        /\ env.account = "empty" => env.devMode

\* No request finds a store closed in a process that was not told to stop (the
\* deferred calls of main run after ListenAndServe).
FailsOnlyWhenStopping ==
    \A h \in Handlers: req[h] = "failed" => signalled

\* A process that was told to stop exits, whatever its requests do.
Stops == signalled ~> stage = "exited"

\* Outside development mode requests are served only with a Google Play service
\* (docs/OPERATIONS.md: "If GOOGLE_PLAY_SERVICE_ACCOUNT_JSON is empty or malformed,
\* the server refuses to start in production mode").  The code does not keep this.
RefusesMalformed ==
    (\E h \in Handlers: req[h] = "running") => (service \/ env.devMode)

\* main returns only when the requests in flight are finished (main.go: "Graceful
\* shutdown").  The code does not keep this.
ShutdownIsGraceful ==
    [][stage = "closeDatabase" => \A h \in Handlers: req[h] # "running"]_stage
=============================================================================
