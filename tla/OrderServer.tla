---------------------------- MODULE OrderServer ----------------------------
(***************************************************************************)
(* The life of one order-service process: app.Run loads its configuration, *)
(* connects to PostgreSQL with retries (pkg/postgres), asks for its        *)
(* version, serves HTTP (pkg/httpserver), and on a signal or a fatal serve *)
(* error shuts down and closes the pool.                                   *)
(*                                                                         *)
(* Actors: the main goroutine (Run), the ListenAndServe goroutine, one     *)
(* goroutine per request, the operating system.  What a handler does on a  *)
(* connection is OrderRepo's matter; here it takes and returns one.        *)
(***************************************************************************)
EXTENDS Naturals, FiniteSets

CONSTANTS
    Requests,       \* HTTP requests that reach the process
    ConnAttempts    \* _defaultConnAttempts

ASSUME ConnAttemptsAssumption == ConnAttempts \in Nat \ {0}

VARIABLES
    main,       \* where Run is
    attempt,    \* connectWithRetry's loop variable
    pools,      \* pgx pools opened and not closed
    signalled,  \* SIGINT or SIGTERM has cancelled Run's context
    listener,   \* the ListenAndServe goroutine; "failed": Notify has an error
    elapsed,    \* shutdownTimeout has passed since Shutdown was called
    req,        \* each request
    exit        \* what Run returns: nil ("ok") or which error

vars == <<main, attempt, pools, signalled, listener, elapsed, req, exit>>
network == <<listener, req>>

\* Before the pool works.
Connecting == {"loading", "parsing", "opening", "pinging", "backoff"}

\* How Run, or the process before Run has arranged for signals, ends early.
EarlyExits == {"config", "killed", "connect"}

\* A handler runs; "holding" a connection, "ready" when only its answer is left.
InFlight == {"running", "holding", "ready"}

\* Answered by OrderRepo's outcome, 500 from a closed pool, killed with the
\* process.
Ended == {"answered", "poolError", "cut"}

Init ==
    /\ main = "loading"
    /\ attempt = 1
    /\ pools = 0
    /\ signalled = FALSE
    /\ listener = "off"
    /\ elapsed = FALSE
    /\ req = [r \in Requests |-> "idle"]
    /\ exit = "none"

(***************************************************************************)
(* config.Load and the head of Run.                                        *)
(***************************************************************************)
ExitEarly(why) ==
    /\ main' = "exited"
    /\ exit' = why
    /\ UNCHANGED <<attempt, pools, signalled, network, elapsed>>

\* The environment does not parse or does not validate.
ConfigFails == main = "loading" /\ ExitEarly("config")

\* Configured; from here on a signal cancels ctx.
Configured ==
    /\ main = "loading"
    /\ main' = "parsing"
    /\ UNCHANGED <<attempt, pools, signalled, network, elapsed, exit>>

(***************************************************************************)
(* postgres.New.                                                           *)
(***************************************************************************)
\* pgxpool.ParseConfig takes the DSN or not; there is no second try.
UrlAccepted ==
    /\ main = "parsing"
    /\ main' = "opening"
    /\ UNCHANGED <<attempt, pools, signalled, network, elapsed, exit>>

UrlRejected == main = "parsing" /\ ExitEarly("connect")

\* Mutant: the last attempt is not recognised as such.
RetryOnceTooOften ==
    IF attempt > ConnAttempts
    THEN main' = "exited" /\ exit' = "connect"
    ELSE main' = "backoff" /\ UNCHANGED exit

\* The attempt failed: wait, unless it was the last one.
RetryOrGiveUp ==
    IF attempt = ConnAttempts
    THEN main' = "exited" /\ exit' = "connect"
    ELSE main' = "backoff" /\ UNCHANGED exit

OpenPool ==
    /\ main = "opening"
    /\ main' = "pinging"
    /\ pools' = pools + 1
    /\ UNCHANGED <<attempt, signalled, network, elapsed, exit>>

OpenFails ==
    /\ main = "opening"
    /\ RetryOrGiveUp
    /\ UNCHANGED <<attempt, pools, signalled, network, elapsed>>

\* Mutant: the half-open pool is not closed.
PingFailsWithoutClose ==
    /\ main = "pinging"
    /\ RetryOrGiveUp
    /\ UNCHANGED <<attempt, pools, signalled, network, elapsed>>

PingFails ==
    /\ main = "pinging"
    /\ pools' = pools - 1
    /\ RetryOrGiveUp
    /\ UNCHANGED <<attempt, signalled, network, elapsed>>

PingSucceeds ==
    /\ main = "pinging"
    /\ main' = "probing"
    /\ UNCHANGED <<attempt, pools, signalled, network, elapsed, exit>>

\* logDBInfo's query has answered or failed, which is only logged: Run wires
\* the layers, starts the server and waits.
Serve ==
    /\ main = "probing"
    /\ main' = "serving"
    /\ listener' = "starting"
    /\ UNCHANGED <<attempt, pools, signalled, elapsed, req, exit>>

\* Mutant: the query runs on context.Background().
VersionUncancelled == FALSE

\* A cancelled ctx ends the query, which has no timeout of its own.
VersionCancelled == signalled /\ Serve

\* Mutant: the timer branch does not count the attempt.
BackoffUncounted ==
    /\ main = "backoff"
    /\ main' = "opening"
    /\ UNCHANGED <<attempt, pools, signalled, network, elapsed, exit>>

\* select between the timer and the context; with both ready either is taken.
BackoffElapsed ==
    /\ main = "backoff"
    /\ main' = "opening"
    /\ attempt' = attempt + 1
    /\ UNCHANGED <<pools, signalled, network, elapsed, exit>>

BackoffCancelled ==
    /\ main = "backoff" /\ signalled
    /\ main' = "exited"
    /\ exit' = "connect"
    /\ UNCHANGED <<attempt, pools, signalled, network, elapsed>>

(***************************************************************************)
(* waitForShutdown and the deferred pg.Close.                              *)
(***************************************************************************)
\* The signal branch calls Shutdown, which closes the listener, or keeps a
\* goroutine that has not bound yet from doing so.
StartDrain ==
    /\ main = "serving" /\ signalled
    /\ main' = "draining"
    /\ listener' = IF listener = "failed" THEN listener ELSE "stopped"
    /\ UNCHANGED <<attempt, pools, signalled, elapsed, req, exit>>

\* Mutant: nobody listens on Notify, the error is found at the next signal.
ServeErrorUnnoticed ==
    /\ main = "serving" /\ listener = "failed" /\ signalled
    /\ main' = "closing"
    /\ exit' = "serve"
    /\ UNCHANGED <<attempt, pools, signalled, network, elapsed>>

\* The Notify branch returns the error at once.
ServeError ==
    /\ main = "serving" /\ listener = "failed"
    /\ main' = "closing"
    /\ exit' = "serve"
    /\ UNCHANGED <<attempt, pools, signalled, network, elapsed>>

\* Mutant: Shutdown closes the listener and does not wait for the handlers.
DrainWithoutWaiting ==
    /\ main = "draining"
    /\ main' = "closing"
    /\ exit' = "ok"
    /\ UNCHANGED <<attempt, pools, signalled, network, elapsed>>

\* All connections are idle: Shutdown returns nil.
DrainDone ==
    /\ main = "draining"
    /\ \A r \in Requests : req[r] \notin InFlight
    /\ main' = "closing"
    /\ exit' = "ok"
    /\ UNCHANGED <<attempt, pools, signalled, network, elapsed>>

\* Mutant: the timeout is derived from Run's context, cancelled already.
DrainOnCancelledContext ==
    /\ main = "draining" /\ (elapsed \/ signalled)
    /\ main' = "closing"
    /\ exit' = "drain"
    /\ UNCHANGED <<attempt, pools, signalled, network, elapsed>>

\* Mutant: Shutdown waits without a deadline.
DrainUnbounded ==
    /\ main = "draining" /\ elapsed
    /\ \A r \in Requests : req[r] \notin InFlight
    /\ main' = "closing"
    /\ exit' = "drain"
    /\ UNCHANGED <<attempt, pools, signalled, network, elapsed>>

\* context.DeadlineExceeded from Shutdown.
DrainTimesOut ==
    /\ main = "draining" /\ elapsed
    /\ main' = "closing"
    /\ exit' = "drain"
    /\ UNCHANGED <<attempt, pools, signalled, network, elapsed>>

\* pg.Close returns when every connection is back; the process ends and takes
\* the handlers that are left with it.
ClosePool ==
    /\ main = "closing"
    /\ \A r \in Requests : req[r] # "holding"
    /\ main' = "exited"
    /\ pools' = pools - 1
    /\ req' = [r \in Requests |-> IF req[r] \in InFlight THEN "cut" ELSE req[r]]
    /\ UNCHANGED <<attempt, signalled, listener, elapsed, exit>>

(***************************************************************************)
(* The ListenAndServe goroutine.                                           *)
(***************************************************************************)
Bind ==
    /\ listener = "starting"
    /\ listener' = "listening"
    /\ UNCHANGED <<main, attempt, pools, signalled, elapsed, req, exit>>

\* The port is taken, or Accept fails for good; the error goes to notify.
ServeFails ==
    /\ main # "exited"
    /\ listener \in {"starting", "listening"}
    /\ listener' = "failed"
    /\ UNCHANGED <<main, attempt, pools, signalled, elapsed, req, exit>>

(***************************************************************************)
(* The request handlers.                                                   *)
(***************************************************************************)
RequestStep(r, from, to) ==
    /\ main # "exited"
    /\ req[r] = from
    /\ req' = [req EXCEPT ![r] = to]
    /\ UNCHANGED <<main, attempt, pools, signalled, listener, elapsed, exit>>

\* A connection that has been answered stays open for the next request, until
\* Shutdown is called.
KeptAlive ==
    /\ main = "serving" \/ exit = "serve"
    /\ \E r \in Requests : req[r] \in {"answered", "poolError"}

\* A failed Accept leaves the connections there are to their goroutines.
Arrive(r) ==
    /\ listener = "listening" \/ (listener = "failed" /\ KeptAlive)
    /\ RequestStep(r, "idle", "running")

\* A create takes a connection once, a read twice; rejected requests never do.
TakeConn(r) == main # "closing" /\ RequestStep(r, "running", "holding")

\* pg.Close has begun: the pool refuses, the handler answers 500.
PoolRefuses(r) == main = "closing" /\ RequestStep(r, "running", "poolError")

ReturnConn(r) ==
    RequestStep(r, "holding", "running") \/ RequestStep(r, "holding", "ready")

Reject(r) == RequestStep(r, "running", "ready")

Reply(r) == RequestStep(r, "ready", "answered")

(***************************************************************************)
(* The operating system.                                                   *)
(***************************************************************************)
Signal ==
    /\ main \notin {"loading", "exited"} /\ ~signalled
    /\ signalled' = TRUE
    /\ UNCHANGED <<main, attempt, pools, network, elapsed, exit>>

\* NotifyContext has not been called: the default action of the signal.
KilledWhileLoading == main = "loading" /\ ExitEarly("killed")

TimeoutElapses ==
    /\ main = "draining" /\ ~elapsed
    /\ elapsed' = TRUE
    /\ UNCHANGED <<main, attempt, pools, signalled, network, exit>>

-----------------------------------------------------------------------------
MainStep ==
    \/ ConfigFails \/ Configured \/ UrlAccepted \/ UrlRejected
    \/ OpenPool \/ OpenFails \/ PingFails \/ PingSucceeds \/ VersionCancelled
    \/ BackoffElapsed \/ BackoffCancelled
    \/ StartDrain \/ ServeError \/ DrainDone \/ DrainTimesOut \/ ClosePool

HandlerStep(r) ==
    TakeConn(r) \/ PoolRefuses(r) \/ ReturnConn(r) \/ Reject(r) \/ Reply(r)

Exited == main = "exited" /\ UNCHANGED vars

Next ==
    \/ MainStep \/ Serve
    \/ Bind \/ ServeFails
    \/ \E r \in Requests : Arrive(r) \/ HandlerStep(r)
    \/ Signal \/ KilledWhileLoading \/ TimeoutElapses
    \/ Exited

Spec == Init /\ [][Next]_vars

\* The main goroutine runs and the shutdown timer fires.  Nothing is assumed of
\* clients, which may take for ever to read an answer, nor of PostgreSQL, which
\* may leave the version query and any statement unanswered.
Fairness == WF_vars(MainStep) /\ WF_vars(TimeoutElapses)

FairSpec == Spec /\ Fairness

-----------------------------------------------------------------------------
TypeOK ==
    /\ main \in Connecting \cup {"probing", "serving", "draining", "closing", "exited"}
    /\ attempt \in 1..ConnAttempts
    /\ pools \in Nat
    /\ signalled \in BOOLEAN
    /\ listener \in {"off", "starting", "listening", "failed", "stopped"}
    /\ elapsed \in BOOLEAN
    /\ req \in [Requests -> {"idle"} \cup InFlight \cup Ended]
    /\ exit \in EarlyExits \cup {"none", "ok", "serve", "drain"}

\* Failed attempts leave no pool behind: at most one is ever open, the one that
\* is served from, and none is when Run has returned (postgres.go:148).
NoPoolLeaks ==
    pools = IF main \in {"pinging", "probing", "serving", "draining", "closing"} THEN 1 ELSE 0

\* Run returns nil only after a signal and a complete drain: no request was
\* answered from a closed pool or killed (app.go:99-108).
CleanExitIsGraceful ==
    exit = "ok" => /\ signalled
                   /\ \A r \in Requests : req[r] \in {"idle", "answered"}

\* A signal gives the requests in flight the whole shutdownTimeout: none is
\* refused a connection or killed before it has passed (server.go:77-82).
DrainKeepsItsPromise ==
    (\E r \in Requests : req[r] \in {"poolError", "cut"})
        => elapsed \/ exit = "serve"

\* PostgreSQL answers what handlers ask it: no connection is held for ever, be it
\* that a handler takes one after another.  The code sets no statement timeout, so
\* this is for the server to see to; OrderService's ClosingPoolCloses shows that
\* no handler waits for another.
StatementsEnd == \A r \in Requests : []<>(req[r] # "holding")

\* A signal ends the process if statements end: during start-up even when the
\* version query is never answered, and under load whatever the clients do
\* (app.go:50, :88-104).
StopsOnSignal == StatementsEnd => (signalled ~> main = "exited")

\* A fatal serve error ends the process if statements end; it does not stay up
\* serving nothing (server.go:67, app.go:93).
StopsOnServeError == StatementsEnd => (listener = "failed" ~> main = "exited")

\* Connecting ends within ConnAttempts attempts, one way or the other.
StartUpEnds == <>(main \notin Connecting)

(***************************************************************************)
(* What comments of the code say.                                          *)
(***************************************************************************)
\* app.go:49: a signal "cancels ctx, which propagates to all DB calls", so one
\* that is under way ends, answered or not; no handler is left with a connection
\* the closing pool waits for.
SignalReachesDbCalls ==
    \A r \in Requests : signalled /\ req[r] = "holding" ~> req[r] # "holding"

\* app.go:85: waitForShutdown "blocks until either a signal or a fatal server
\* error, then drains HTTP", so either way no request is in flight when the
\* pool closes before the timeout.
FatalErrorDrainsToo ==
    main = "closing" /\ ~elapsed => \A r \in Requests : req[r] \notin InFlight
=============================================================================
