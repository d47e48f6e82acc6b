# checkout-saga: a TLA+ verification project

The repository holds an order service in Go (`cmd/order`, `internal/order`) on
PostgreSQL, four service skeletons that only log and wait for a signal
(`cmd/{inventory,payment,saga,notification}`), and the packages they share
(`pkg/*`). The saga, outbox, Kafka and Redis parts exist in `docs/` only. The
order service therefore carries all the logic there is to verify: idempotent
creation of orders, their totals, and the life of the process around it.

## 1. Inventory

| Component | State | Operations | Talks to | Correct when |
|---|---|---|---|---|
| Order repository `internal/order/repo` | tables `orders`, `order_items`; one transaction per create; the pool's connections | `Create`, `GetByID`, `insertItems`, `loadOrderByID`, `loadOrderByKey`, `attachItems` | PostgreSQL through `pgxpool` | one order per key, one answer per key, a success is stored and complete, no connection leaks, every request ends |
| Order use case `internal/order/usecase` | none | `Create`, `GetByID` | entity, repository | an atomic idempotent store from outside |
| Order entity `internal/order/entity` | none (pure) | `NewOrder`, `ParseMoney`, `String`, `Mul` | - | the total is the exact sum of the lines |
| HTTP layer `internal/order/controller/http` | the user id and trace id in a request's context | `create`, `getByID`, `issue`, `authMiddleware`, `withTraceID` | use case, JWT manager | a refused request has no effect, an order belongs to the subject of its token, an answer shows the stored order |
| JWT manager `pkg/jwt` | secret, expiry | `Generate`, `Parse` | - | a token is accepted until it expires, and only if it was issued with the secret |
| Application `internal/order/app` | signal context, pool, server | `Run`, `waitForShutdown`, `connectDB`, `logDBInfo` | all of the above | requests in flight drain before the pool closes |
| HTTP server `pkg/httpserver` | listener, notify channel | `Start`, `Notify`, `Shutdown` | `net/http` | a fatal error is reported once, a drain is bounded |
| Postgres wrapper `pkg/postgres` | pool | `New`, `connectWithRetry`, `tryConnect`, `Version`, `Close` | `pgxpool` | bounded attempts, no leaked pool, cancellation stops it |
| Config, logger `pkg/config`, `pkg/logger` | environment, zap cores | `Load`, `New`, `WithTraceID` | - | a bad configuration ends the process before it has done anything; a request's log lines carry its trace id |
| Skeleton services | none | log, wait for a signal | - | not modelled: no logic |

Hard behaviours: concurrent duplicates of a create, a lost COMMIT answer, a
rollback on a cancelled context, a batch that fails half way, a pool whose
connections are all waiting for one key, a read in two snapshots, a token that
expires between two attempts at one create, a shutdown that overtakes the
requests it drains, and a pool that closes while its handlers wait for a key
another instance has left locked.


## 2. Modules

| Module | Models | Used by |
|---|---|---|
| `IdempotentCreate` | what the order service promises: an atomic table with one order per key | `OrderRepoRefinement`, `OrderApi` |
| `OrderRepo` | `Create` and `GetByID`, the pools, PostgreSQL's transactions | `MCOrderRepo`, `OrderRepoProofs`, `OrderRepoRefinement` |
| `OrderRepoRefinement` | the mapping from `OrderRepo` to `IdempotentCreate` | `OrderService`, `OrderRepoRefinementProofs` |
| `OrderServer` | `app.Run`, `waitForShutdown`, `pkg/httpserver`, `pkg/postgres` | `MCOrderServer`, `OrderServerProofs` |
| `OrderService` | `OrderRepo` in instances that drain, close, are killed and restart | `OrderServiceProofs` |
| `OrderApi` | the router, authentication, login, both order handlers, tokens over a clock; on top of `IdempotentCreate` | `MCOrderApi`, `OrderApiProofs` |
| `OrderTotal` | `NewOrder`'s sum in int64 and the columns it goes into | `MCOrderTotal`, `OrderTotalProofs` |
| `Money` | `ParseMoney`, `String`, the JSON form | `MCMoney`, `MoneyProofs` |
| `Induction` | induction over the naturals, and that the recursions of `OrderTotal` and `Money` have a solution | `OrderTotalProofs`, `MoneyProofs` |

How they fit together: `OrderApi` is the service from the client to the use case
and takes what is below from the abstract `IdempotentCreate`; `OrderRepo` is
what is below and is proved to implement `IdempotentCreate`; `OrderService`
proves that this stays so when the instances are stopped and started;
`OrderServer` has one instance's start and stop in detail. Where it needs that a
handler's connection comes back, its properties say so (`StatementsEnd`);
`ClosingPoolCloses` of `OrderService` shows that this takes no more than that
PostgreSQL answers: no handler waits for another for ever.

An operator whose comment begins with "Mutant:" is not part of a model. It
stands before the definition it would replace and shows what a plausible bug
there looks like; every checked property is violated by one of them.

### OrderRepo

Each request has a program counter, `pc`, whose values are the statements of the
Go function it is in: `inserting` is line 91 of `order-postgres.go`, `items`
line 113, `reloading` line 118, `loading` line 99, `committing` lines 103 and
123, `rollback` and `missing` the deferred function of line 84 after an error
and after `ErrOrderNotFound`. `held` is the set of requests with a connection.
`at` says which instance of the service a request is sent to: every instance
has a pool of its own and the database is shared.

The server's side of a transaction is `tx`, with `rows` and `lines` for the two
tables. An INSERT and a COMMIT take two steps each: the server executes
(`InsertRow`, `InsertConflict`, `Commit`), then the handler learns of it
(`Inserted`, `Conflicted`, `CommitAck`), so that a connection can break in
between and leave the handler with an error and the database with the order.
The other statements have no effect another transaction can observe before the
commit and take one step. PostgreSQL itself is external; it is modelled by what
the code relies on: an INSERT whose key is taken by an undecided row waits, one
whose key is taken by a committed row does nothing, a statement sees committed
rows and its own (READ COMMITTED, the isolation `pool.Begin` asks for), and an
aborted transaction leaves no trace.

Failures: a statement fails (`DbError`, `ServerAbort`), the connection breaks
(`ConnLost`), the client goes away (`Disconnect`: `r.Context()` is cancelled, so
the deferred Rollback, which uses the same context, does not reach the server),
an instance is killed and started again (`Crash`), no connection can be had
(`AcquireFails`). A client's retry is another request with the same key.

Abstractions: the id of an order is the request that inserted it, its content is
that request's body, and its lines are all there or not. The batch of line
inserts is one step because a failing line aborts the transaction. Requests that
validation or authentication turns away never reach the repository.

### OrderServer

`main` is where `Run` is. Start-up is `config.Load` (`ConfigFails`,
`Configured`), `postgres.New` parsing the URL (`UrlAccepted`, `UrlRejected`) and
`connectWithRetry`: `OpenPool`, `OpenFails`, `PingFails`, `PingSucceeds`, and
the select between the timer and the context (`BackoffElapsed`,
`BackoffCancelled`). In `probing` the version query is out; its answer is only
logged. `Serve` is its end, by answer, error or cancellation, and everything
from there to `server.Start()`. A signal before `NotifyContext` kills the
process (`KilledWhileLoading`); one after it cancels the context (`Signal`).
`waitForShutdown` is `StartDrain` or `ServeError`,
then `DrainDone` or `DrainTimesOut`; `ClosePool` is the deferred `pg.Close`,
which blocks while a connection is out, and the end of the process. `listener`
is the goroutine that runs `ListenAndServe`. A request arrives when its
connection is accepted or, on a connection kept alive, when it follows another
(`KeptAlive`), which goes on after `Accept` has failed and ends when `Shutdown`
is called. A request takes and returns connections to the database; what it does
with them is `OrderRepo`'s matter.

### OrderService

`OrderRepo` with the phase of each instance. `StartDrain`, `DrainDone`,
`StopWaiting`, `ClosePool` are `waitForShutdown` and the deferred `pg.Close`
seen from outside; `Kill` is a process killed in any phase and `Restart` starts
it again. `Accept` sends requests to serving instances only (what a kept-alive
connection brings to a closing pool is refused at once, and is in `OrderServer`
only). Once an instance is
closing its pool gives no connection (`PoolRefuses`, and the guard of `Handle`),
but the handlers that have one go on, and `ClosePool` waits for them. The exit
takes the handlers that are left with it, which `OrderRepo` knows as `Crash`.
An instance here is a place a process runs at, so that a restarted process is
the same instance with an empty pool.

### OrderApi

A call is one HTTP request. `stage` is where its handler is: `auth` is
`authMiddleware`, `handling` a handler before it calls the use case, `calling`
the call, `answered` a status that is written but not yet sent. `Deliver` and
`WriteFails` end it. `ask` is what the request carries; whether the headers, the
path and the body pass every check is one Boolean, `sound`, because all the
checks end in a 400 and no state is kept between them. `NewOrder`'s refusal,
which the use case returns before it touches the repository, counts as one of
them. A bearer token is the login that issued it, or `Forged`: no login's. A
client can send any token that a login's answer has delivered, at any time, and
ask for any id it was told.

Time is an integer that ticks at any point up to `Horizon`. `Generate` reads it
and truncates the expiry to whole seconds, as `NewNumericDate` does; `Parse`
reads it again. `clock` remembers what `time.Now` gave each handler.

The use case is the instance `UseCase` of `IdempotentCreate`, whose variables
`OrderApi` shares: a handler sends (`SendCreate`, `SendRead`) and reacts to the
answer, and the create's effect may come after its handler has given up.
`traced` and `untraced` are the calls with a trace id in their context and those
that have written a log line without one.

### OrderTotal

`NewOrder`'s loop, one line a step, with int64 multiplication and addition that
wrap, then the two inserts, which fail when a number does not fit its column.
The widths are constants.

### Money

The functions of `money.go` as operators on sequences of characters, and the way
of one amount: `Unmarshal` from the request, `Write` to the column and to
clients, `ReadBack` from the column. The reference they are checked against is
stated apart from them: a grammar of decimal text (`Numerals`) and the weight of
each digit (`Weigh`). In a text "s" is white space and "x" any character without
a meaning.

## 3. Runs

| Run | Instance | States | Shows |
|---|---|---|---|
| `OrderRepo_safety` | 3 creates on up to 2 keys, 1 read, 2 instances with 1 connection each | 1,484,277 | one order per key, one answer per key, a success is stored and complete, 404 is honest, no connection leaks, stored orders stay |
| `OrderServer_life` | 3 requests, 3 attempts | 6,590 | no pool outlives its use, exit nil means all was answered, a signal leaves the whole timeout; a signal and a serve error end the process if statements end, start-up ends |
| `OrderServer_silent`, `_fatal` | 2 requests | - | violated: see Findings |
| `OrderService_life` | 2 creates on up to 2 keys, 1 read, 1 instance with 2 connections that stops and starts | 127,982 | the composition implements the atomic service, 404 stays honest, an exited process has no handler and no connection, a closing pool closes and every request ends |
| `OrderApi_safety` | 2 creates on up to 2 keys, 2 logins of up to 2 users, a lifetime of one second, a clock of 3 instants | 1,120,236 | a refused create has no effect, stored orders are their user's, answers show the stored order |
| `OrderApi_read` | 1 create, 1 read, 1 login, a clock of 4 instants | 191,560 | tokens live one lifetime, answers to reads show the stored order, every call ends |
| `OrderApi_trace` | 1 create, 1 read, 1 login | - | violated: see Findings |
| `OrderTotal_safety` | up to 2 lines, six-bit money | 54,667 | CHECKs never trip, nothing that fits is refused, sums are exact within the width |
| `OrderTotal_exact` | 1 line | - | violated: see Findings |
| `Money_safety` | all texts of up to 5 of 8 characters, 3004 computed amounts of 18 bits | 85,095 | decimal text is exact, nothing is rounded, what is written is canonical and read back unchanged |
| `Money_text` | the same | - | violated: see Findings |

Why the bounds are enough. `OrderRepo` has three roles for a key: the request
that inserted the row, one that waits for it, and one that comes later; three
creates fill them, and two keys let a wait for a key meet a request that has
nothing to do with it. `Init` leaves the keys and the instances open, so the run
covers three duplicates as well as three strangers. A pool of one connection is
the tightest. The theorems below lift the safety properties and the refinement
to every number of requests, keys, instances and connections.

`OrderServer` has no interaction between requests but through the drain, so two
or three are enough, and three attempts give a first, a middle and a last one;
its safety properties are proved for every number too.

`OrderService` has one instance, which is enough because a process and its
successor at the same instance meet as two instances do: through the database,
where the first may have left a transaction open whose key the second wants. Two
creates are an owner of a key and one that waits for it, two connections let
both be in a transaction and leave the read, which takes two connections in
turn, to compete for them, and the read can meet the closing pool between the
two. Its safety properties are proved for every number of everything.

`OrderApi`'s two creates are two strangers, a call and its retry with one token,
or a retry after a new login, of the same user or another; `Init` leaves the
keys open and the logins choose their user. A second has two units and the
lifetime is one second. The clock of `OrderApi_safety`, 0 to 2, puts a login at
the start or the middle of a second and a check before the expiry or at it; the
clock of `OrderApi_read`, 0 to 3, a check after it too. Two creates show a
first attempt and its retry; a retry that is refused with a third that follows
it, lifetimes of more than a second, and every number of calls, are covered by
the theorems.

`OrderTotal` keeps the proportions of the service: 10^10 - 1 (`DECIMAL(10,2)`)
times 2^31 - 1 (`INT`) is a little over 2^64, as 10 times 7 is a little over
2^6. There are inputs below, at and beyond each bound. `LinesMax` bounds the
lines of a request; the code has a limit on the body's size only.

`Money` has two digits before the dot in place of fifteen and three digits in a
column in place of ten, within an int of eighteen bits, so that, as in the
service, the largest amount that parses is well inside the int and the columns
are well inside what parses. Five characters hold a sign, two digits, the dot
and a digit, or the other splits, and one more than each bound allows. The
computed amounts surround the powers of ten and both ends of the int: a subtotal
in a response can be any int64, since `Mul` wraps.

No state constraint is used. All models are finite for a finite instance, and
each ends in an explicit stuttering action (`Finished`, `Exited`, `Done`) that
is enabled in final states only, or never ends (`OrderService`, whose instances
can always be restarted), so deadlock is checked in every run. Liveness runs use no symmetry. The symmetry of
`MCOrderRepo`, `MCOrderServer` and `MCOrderApi` is sound because no definition
tells two requests of one kind, two keys, instances, logins or users apart.

## 4. Fairness

`OrderService!ServiceFairness`: weak fairness of each handler's next step (the
Go scheduler, and the pool hands connections to whoever waits as soon as one is
back), of the server executing what it was sent, of the server rolling back a
transaction whose client is gone (PostgreSQL notices a closed socket), and of a
closing pool, which refuses who waits for a connection and returns when all are
back. No failure is forced, no client is obliged to do anything, no instance has
to stop, and none that has stopped has to start again. Weak fairness of a wait
for a connection is enough because the queue in the pool is finite: only
finitely many requests exist, and each takes a connection at most twice.

`OrderServer!Fairness`: the main goroutine runs and the shutdown timer fires.
That is all. The version query of start-up need never be answered: it runs
outside the weak fairness of `MainStep` unless the context is cancelled. Nothing
is assumed of clients either: a handler may never finish writing its answer, and
the timeout must still end the process. `StopsOnSignal` and `StopsOnServeError`
are stated under a premise, `StatementsEnd`: no handler holds a connection for
ever. The code does not provide for it, since it sets no statement timeout and
nothing in a shutdown cancels `r.Context()`; without the premise the process
need not end (`OrderServer_silent`, below). `ClosingPoolCloses` and
`EveryRequestEnds` of `OrderService` make the same assumption of PostgreSQL, as
fairness of the steps by which statements end.

`OrderApi!Fairness`: each handler takes its next step, and an answer is sent or
fails to be sent, by the `WriteTimeout` at the latest. The use case answers in
the end because requests end (`EveryRequestEnds`); that a create takes effect is not
assumed, and clients send and ask what they like.

## 5. Proofs

tlapm checks every theorem to the last leaf.

`OrderRepoProofs`. The assumptions are `PoolAssumption` and
`RequestAssumption` (finitely many requests, creates apart from reads, `NoOrder`
apart from both). None of the properties is inductive: that a key names one
stored order depends on no two undecided rows sharing a key, and that an answer
is right on what the handler scanned before the commit. The invariant
`IInv` says so in layers. `StepInv` relates where a handler is to what
the server can be doing for it. `RowInv` makes an undecided row the lock on its
key. `LineInv` says the lines are written before COMMIT is sent. `SeenInv` says
that what a create has scanned is its own row or a committed row with its key.
`ReadInv` does the same for reads, and `HeldInv` with `BoundInv` accounts for
the connections. Each layer is inductive given the ones before it (`StepStep`
... `BoundStep`), `Invariance` puts them together, and
`OneOrderPerKey`, `OneAnswerPerKey`, `SuccessIsStored`, `NotFoundIsUnknown`,
`ConnectionsReturn` and `OrdersStay` follow.

`OrderRepoRefinementProofs`. `Refinement` shows that every step of `OrderRepo`
is a step of `IdempotentCreate` under the mapping, or a stutter. The set of
stored orders changes only in `Commit` (`OrdersChangeAtCommit`), which is where
a create takes effect; if its handler has been told of a failure by then, the
abstract create takes effect late, which is why `TakeEffect` allows it.

`OrderServerProofs`. Assumption: `ConnAttempts` is positive. `PhaseInv` says
what the phase of `Run` implies for the listener and the exit code,
`RequestInv` that a request meets a closing pool only after the drain was given
up; `PoolsAreClosed`, `CleanExit` and `DrainHolds` follow.

`OrderServiceProofs`. By construction every step of the service is one of
`OrderRepo` or changes a phase only (the lemma `ServiceRefinement`), so all theorems about `OrderRepo` hold of
it: `NotFoundDespiteShutdown` and `ServiceIsAtomic`, the refinement to
`IdempotentCreate`, are two that are stated. `ProcessesEnd` adds that an exited
process has left nothing: a handler's step is never one of an exited process
(`HandlerStep`), and only requests that are under way hold connections
(`OrderRepo`'s `HeldInv`).

`OrderApiProofs`. Assumptions: `TimeAssumption` (a positive lifetime and
precision) and `CallAssumption` (the kinds of calls are apart, and so are the
values that stand for none). `RefusedHasNoEffect` is not inductive without the
agreement of handler and use case (`StageInv`: the use case knows a call only
when its handler has called it), `TokensLiveOneLifetime` not without what a
token says of its login (`TokenInv`) and what the check saw (`IdentityInv`), and
`AnswersShowTheStoredOrder` not without the use case's own invariant
(`StoreInv`, `AnswerInv`). `LifetimesHold` is the arithmetic of truncation.
The lemma `UsesTheUseCase` records the link to the modules below: every step is
one `IdempotentCreate` allows, which is what `OrderRepo` is shown to implement.

`Induction`. The induction theorems of the library take a predicate as a
parameter, which the provers cannot instantiate. `Induction` states the
principle with a set instead (a set that holds 0, and n + 1 whenever it holds n,
holds every natural) and gets it from `WFMin`: every set of naturals that is not
empty has a least element. From it follow what the two modules below need of
data: that the recursive functions by which they define a sum, a numeral and a
power have a solution (`SumRecursion`, `NumeralRecursion`, `PowerRecursion`), so
that what their definitions choose obeys the recursion. Sums and numerals are
therefore written as recursive functions in `OrderTotal` and `Money`, not with a
fold over an operator.

`OrderTotalProofs`. Assumption: `WidthAssumption`. The invariant is that the
running total is the wrapped cost of the lines the loop has seen, all of them
sane (`LoopInv`), and what the tests passed or failed say of the request
(`PassedInv`, `RefusedInv`). That wrapping line by line is wrapping the exact sum
once (`WrapIsBlind`, `WrapOfSum`) carries it through the loop. `ChecksHold`: what
`NewOrder` accepts satisfies the CHECKs. `RefusalsAreJustified`: a total that is
refused, at the entity or at the column, is one that does not fit, for a sum
that fits is not changed by wrapping (`WrapOfFit`). `FittingTotalsAreExact`: a
stored total whose sum fits an int64 is the sum.

`MoneyProofs`. Assumption: `MoneyAssumption`; the lengths of texts, the number of
digits before the dot and the width are arbitrary within it. The argument has
three parts.

- Digits. Reading a numeral from the left gives the weight of its digits, less
  than 10^n for n of them (`ParseIntWeighs`); what `Decimal` writes is a numeral
  that is worth what was written, with no digit too many (`DecimalIsNumeral`).
- Text. Trimming, taking off signs and cutting at the dot take apart what is put
  together of white space, a sign, digits, a dot and digits, and nothing else
  (`TrimIsSlice`, `SignsComeOff`, `CutOfParts`, and `SignsWereThere`,
  `PartsOfText` for the converse). `MoneyGrammar` is the result: `ParseMoney`
  accepts a text exactly if it `Reads` as such parts; `MoneyValue` says what it
  is worth, with no wrap for any text within the digit bounds (`WorthFits`).
- The way of an amount. `IInv` says that the verdict is the one on the text, the
  amount what was parsed and the wire its text. `DecimalTextIsExact`,
  `AcceptedIsNearlyDecimal` and `WrittenIsExact` follow with the two parts above.
  `ColumnsReadBack` needs `StringReads`: what `String` writes of an amount a column
  holds can be read, and is the amount. That a column's text can always be read
  is part of the invariant ("unreadable" is not among the values of `pc`).

Every invariant and every action property of the passing runs is a theorem of
its specification. Model-checked only is everything under fairness
(`EveryRequestEnds`, `ClosingPoolCloses`, `EveryCallEnds`,
`StopsOnSignal`, `StopsOnServeError`, `StartUpEnds`), since the prover has no
rules for `ENABLED`.

## 6. Findings

- `OrderServer_silent`. `app.go:49` says that a signal cancels a context "which
  propagates to all DB calls". It reaches the connect attempts and the version
  query of start-up. Handlers use `r.Context()`, which a graceful shutdown does
  not cancel: requests in flight go on, and begin new statements, after the
  signal. That is what a drain is for; but if PostgreSQL falls silent under one
  of them, nothing ends the statement. `Shutdown` gives up after
  `shutdownTimeout`, the deferred `pg.Close` (`postgres.go:191`) then waits for
  the connection without bound, and the process stays up until it is killed.
- `OrderServer_fatal`. `app.go:85` says that `waitForShutdown` blocks until a
  signal or a fatal server error, "then drains HTTP". The `Notify` branch
  returns before `Shutdown` is called, so requests accepted before a fatal
  `Accept` error are cut off.
- `OrderTotal_exact`. `order.go:37` says that a subtotal is "exact in minor
  units". `Mul` wraps, and a wrapped subtotal can be a small positive number the
  schema accepts: quantity 2147483647 at 85899345.97, both within their columns,
  makes 2^64 + 2147483643
  minor units and is stored with a total of 21474836.43.
- `Money_text`. `errors.go:18` reserves an error for money text that is "not
  exact decimal". `ParseMoney` takes ".", "-" and "+" for 0.00 and "+-5" for
  5.00. `NothingIsRounded` shows that there is nothing else of the kind.
- `OrderApi_trace`. `logger.go:7` says that every log line in a request scope
  "MUST carry a trace_id field". `write` logs a failed write without one: it is
  given the logger but not the context. (The log lines of the handlers all carry
  it.)

## 7. Not modelled, and the plan

What could still be added: instances whose clocks differ. A token minted by one
and checked by another lives shorter or longer by the difference. The service
assumes one clock, and so does `OrderApi`.

Left out for good: what the configuration contains and how log lines are encoded
(no state another part reads back), `WithLogger` and `FromContext` (no caller),
`Health` and `Stat` (they only read), the order status lifecycle and the
optimistic `version` (the schema declares them, no code changes them), the
expiry of idempotency keys (documented, not implemented), and the inventory,
payment, saga and notification services, which log a line and wait for a signal.
