----------------------------- MODULE OrderRepo -----------------------------
(***************************************************************************)
(* POST /orders and GET /orders/{id} as internal/order/repo runs them over *)
(* the pgx pools of several instances of the service and one PostgreSQL    *)
(* database.                                                               *)
(*                                                                         *)
(* A request is one HTTP call that passed authentication and validation;   *)
(* the retry of a call is another request with the same key.  The id that  *)
(* gen_random_uuid() gives to the row inserted by request r is r itself,   *)
(* and the order's content is r's body, so an order is named by the        *)
(* request that inserted it.                                               *)
(*                                                                         *)
(* Handler side: pc, held, seen, full.  Database side: tx, rows, lines.    *)
(* The two sides meet only through statements and their answers; INSERT    *)
(* and COMMIT, whose effects other transactions can observe, are executed  *)
(* by the server in steps of their own.                                    *)
(***************************************************************************)
EXTENDS Naturals, FiniteSets

CONSTANTS
    Creates,    \* POST /orders requests
    Reads,      \* GET /orders/{id} requests
    Keys,       \* Idempotency-Key header values
    Instances,  \* running copies of the order service
    PoolMax,    \* POSTGRES_POOL_MAX, the connections of an instance's pool
    NoOrder     \* the id of no order

ASSUME PoolAssumption == PoolMax \in Nat \ {0}

ASSUME RequestAssumption ==
    /\ IsFiniteSet(Creates \cup Reads)
    /\ Creates \cap Reads = {}
    /\ NoOrder \notin Creates

VARIABLES
    key,        \* the Idempotency-Key each create carries
    at,         \* the instance each request is sent to
    target,     \* the order id each read asks for
    pc,         \* where each request is in its handler, or how it ended
    held,       \* the requests that hold a connection of their pool
    seen,       \* the order id a handler has scanned
    full,       \* the requests whose scanned order has its lines attached
    tx,         \* the server's view of each create's transaction
    rows,       \* orders with a row in table orders, uncommitted ones too
    lines       \* orders with their rows in table order_items, likewise

vars == <<key, at, target, pc, held, seen, full, tx, rows, lines>>
client == <<key, at, target>>
handler == <<pc, held, seen, full>>
database == <<tx, rows, lines>>

Requests == Creates \cup Reads

\* Waiting for a connection.  GetByID waits a second time, for its lines.
Waiting == {"acquiring", "acquiringItems"}

\* OrderRepo.Create with a statement in flight.
Statements == {"inserting", "items", "reloading", "loading", "attaching", "committing"}

\* The deferred Rollback, after an error or after ErrOrderNotFound.
Undoing == {"rollback", "missing"}

\* GetByID with a query in flight.
Querying == {"readOrder", "readItems"}

Busy == Waiting \cup Statements \cup Undoing \cup Querying

\* 201, 200 with the first order, 200 with the order asked for, 404, 500, and
\* a request whose client is gone or whose process crashed.
Outcomes == {"created", "replayed", "found", "notFound", "failed", "lost"}

\* A transaction the server has not decided.  "conflict": DO NOTHING hit a row.
Undecided == {"inserting", "inserted", "conflict", "committing"}

Orders == {o \in rows : tx[o] = "committed"}
SameKey(r) == {o \in rows : key[o] = key[r]}

\* READ COMMITTED: a statement of r sees what is committed and r's own rows.
Visible(r) == {o \in rows : o = r \/ tx[o] = "committed"}

\* The ids clients have been told.
Acknowledged == {seen[r] : r \in {c \in Creates : pc[c] \in {"created", "replayed"}}}

Init ==
    /\ key \in [Creates -> Keys]
    /\ at \in [Requests -> Instances]
    /\ target = [g \in Reads |-> NoOrder]
    /\ pc = [r \in Requests |-> "idle"]
    /\ held = {}
    /\ seen = [r \in Requests |-> NoOrder]
    /\ full = {}
    /\ tx = [r \in Creates |-> "none"]
    /\ rows = {}
    /\ lines = {}

Goto(r, step) == pc' = [pc EXCEPT ![r] = step]

InUse(i) == {r \in held : at[r] = i}

Acquire(r) ==
    /\ Cardinality(InUse(at[r])) < PoolMax
    /\ held' = held \cup {r}

Release(r) == held' = held \ {r}

(***************************************************************************)
(* The clients.                                                            *)
(***************************************************************************)
Post(r) ==
    /\ pc[r] = "idle"
    /\ Goto(r, "acquiring")
    /\ UNCHANGED <<client, held, seen, full, database>>

\* A client asks for an id it was told, or for one that names no order.
Get(g) ==
    /\ pc[g] = "idle"
    /\ \E id \in Acknowledged \cup {NoOrder} : target' = [target EXCEPT ![g] = id]
    /\ Goto(g, "acquiring")
    /\ UNCHANGED <<key, at, held, seen, full, database>>

(***************************************************************************)
(* OrderRepo.Create.                                                       *)
(***************************************************************************)
\* pool.Begin returns; the INSERT is on its way.
Begin(r) ==
    /\ pc[r] = "acquiring"
    /\ Acquire(r)
    /\ Goto(r, "inserting")
    /\ tx' = [tx EXCEPT ![r] = "inserting"]
    /\ UNCHANGED <<client, seen, full, rows, lines>>

\* Mutant: the lines are forgotten.
InsertedWithoutItems(r) ==
    /\ pc[r] = "inserting" /\ tx[r] = "inserted"
    /\ Goto(r, "reloading")
    /\ UNCHANGED <<client, held, seen, full, database>>

\* RETURNING id gave a row: this request owns the key.
Inserted(r) ==
    /\ pc[r] = "inserting" /\ tx[r] = "inserted"
    /\ Goto(r, "items")
    /\ UNCHANGED <<client, held, seen, full, database>>

\* pgx.ErrNoRows: the key is taken.
Conflicted(r) ==
    /\ pc[r] = "inserting" /\ tx[r] = "conflict"
    /\ Goto(r, "loading")
    /\ UNCHANGED <<client, held, seen, full, database>>

\* Mutant: the lines get order.ID, unset so far, instead of the id RETURNING gave.
InsertItemsOfUnsetId(r) ==
    /\ pc[r] = "items" /\ tx[r] = "inserted"
    /\ lines' = lines \cup {seen[r]}
    /\ Goto(r, "reloading")
    /\ UNCHANGED <<client, held, seen, full, tx, rows>>

\* The batch of line inserts; one failing line aborts the transaction, see
\* ServerAbort.
InsertItems(r) ==
    /\ pc[r] = "items" /\ tx[r] = "inserted"
    /\ lines' = lines \cup {r}
    /\ Goto(r, "reloading")
    /\ UNCHANGED <<client, held, seen, full, tx, rows>>

\* scanOrder either finds a row or translates pgx.ErrNoRows to ErrOrderNotFound.
ScanOrder(r, candidates) ==
    IF candidates = {}
    THEN Goto(r, "missing") /\ UNCHANGED seen
    ELSE /\ Goto(r, "attaching")
         /\ \E o \in candidates : seen' = [seen EXCEPT ![r] = o]

\* Mutant: loadOrderByID gets r.pool where it should get tx.
ReloadThroughPool(r) ==
    /\ pc[r] = "reloading" /\ tx[r] = "inserted"
    /\ Cardinality(InUse(at[r])) < PoolMax
    /\ ScanOrder(r, {r})
    /\ UNCHANGED <<client, held, full, database>>

Reload(r) ==
    /\ pc[r] = "reloading" /\ tx[r] = "inserted"
    /\ ScanOrder(r, Visible(r) \cap {r})
    /\ UNCHANGED <<client, held, full, database>>

\* Mutant: the WHERE clause on the key is lost.
LoadByKeyUnfiltered(r) ==
    /\ pc[r] = "loading" /\ tx[r] = "conflict"
    /\ ScanOrder(r, Visible(r))
    /\ UNCHANGED <<client, held, full, database>>

LoadByKey(r) ==
    /\ pc[r] = "loading" /\ tx[r] = "conflict"
    /\ ScanOrder(r, Visible(r) \cap SameKey(r))
    /\ UNCHANGED <<client, held, full, database>>

\* attachItems on either path, then COMMIT is sent.
AttachItems(r) ==
    /\ pc[r] = "attaching" /\ tx[r] \in {"inserted", "conflict"}
    /\ full' = IF seen[r] \in Visible(r) \cap lines THEN full \cup {r} ELSE full
    /\ Goto(r, "committing")
    /\ tx' = [tx EXCEPT ![r] = "committing"]
    /\ UNCHANGED <<client, held, seen, rows, lines>>

\* Mutant: the handler answers before the server has confirmed the COMMIT.
AnswerBeforeAck(r) ==
    /\ pc[r] = "committing" /\ tx[r] \in {"committing", "committed"}
    /\ Release(r)
    /\ Goto(r, IF r \in rows THEN "created" ELSE "replayed")
    /\ UNCHANGED <<client, seen, full, database>>

\* Commit returns nil: the connection goes back and the handler answers 201 to
\* the request whose INSERT made the row, 200 to any other.
CommitAck(r) ==
    /\ pc[r] = "committing" /\ tx[r] = "committed"
    /\ Release(r)
    /\ Goto(r, IF r \in rows THEN "created" ELSE "replayed")
    /\ UNCHANGED <<client, seen, full, database>>

\* Every early return runs the deferred Rollback, except that Commit has
\* closed the transaction and released the connection even when it failed.
StatementFails(r) ==
    /\ IF pc[r] = "committing"
       THEN Release(r) /\ Goto(r, "failed")
       ELSE Goto(r, "rollback") /\ UNCHANGED held
    /\ UNCHANGED <<client, seen, full, database>>

DbError(r) == pc[r] \in Statements /\ tx[r] = "aborted" /\ StatementFails(r)

\* The connection breaks under a statement: the handler cannot know whether
\* the server has executed it or still will.
ConnLost(r) == pc[r] \in Statements /\ tx[r] # "aborted" /\ StatementFails(r)

\* The server takes back what r's transaction wrote and frees its key.
Abort(r) ==
    /\ tx' = [tx EXCEPT ![r] = "aborted"]
    /\ rows' = rows \ {r}
    /\ lines' = lines \ {r}

\* Mutant: no deferred Rollback, the connection never goes back.
ReturnWithoutRollback(r) ==
    /\ pc[r] \in Undoing
    /\ Goto(r, IF pc[r] = "missing" THEN "notFound" ELSE "failed")
    /\ UNCHANGED <<client, held, seen, full, database>>

\* Mutant: the undo is a DELETE by idempotency key.
RollbackByKey(r) ==
    /\ pc[r] \in Undoing
    /\ Release(r)
    /\ Goto(r, IF pc[r] = "missing" THEN "notFound" ELSE "failed")
    /\ rows' = rows \ SameKey(r)
    /\ lines' = lines \ SameKey(r)
    /\ tx' = [tx EXCEPT ![r] = "aborted"]
    /\ UNCHANGED <<client, seen, full>>

\* ROLLBACK reaches the server or the connection dies with it; both release
\* the pool's slot.
Rollback(r) ==
    /\ pc[r] \in Undoing
    /\ Release(r)
    /\ Goto(r, IF pc[r] = "missing" THEN "notFound" ELSE "failed")
    /\ Abort(r) \/ UNCHANGED database
    /\ UNCHANGED <<client, seen, full>>

(***************************************************************************)
(* OrderRepo.GetByID: two queries, each on a connection of its own.        *)
(***************************************************************************)
AcquireForRead(g) ==
    /\ pc[g] \in Waiting
    /\ Acquire(g)
    /\ Goto(g, IF pc[g] = "acquiring" THEN "readOrder" ELSE "readItems")
    /\ UNCHANGED <<client, seen, full, database>>

\* Mutant: the first query's connection is kept while the second one is awaited.
ReadOrderKeepingConn(g) ==
    /\ pc[g] = "readOrder"
    /\ IF target[g] \in Orders
       THEN Goto(g, "acquiringItems") /\ seen' = [seen EXCEPT ![g] = target[g]]
       ELSE Goto(g, "notFound") /\ UNCHANGED seen
    /\ UNCHANGED <<client, held, full, database>>

ReadOrder(g) ==
    /\ pc[g] = "readOrder"
    /\ Release(g)
    /\ IF target[g] \in Orders
       THEN Goto(g, "acquiringItems") /\ seen' = [seen EXCEPT ![g] = target[g]]
       ELSE Goto(g, "notFound") /\ UNCHANGED seen
    /\ UNCHANGED <<client, full, database>>

ReadItems(g) ==
    /\ pc[g] = "readItems"
    /\ Release(g)
    /\ full' = IF seen[g] \in Orders \cap lines THEN full \cup {g} ELSE full
    /\ Goto(g, "found")
    /\ UNCHANGED <<client, seen, database>>

QueryFails(g) ==
    /\ pc[g] \in Querying
    /\ Release(g)
    /\ Goto(g, "failed")
    /\ UNCHANGED <<client, seen, full, database>>

(***************************************************************************)
(* What can end any request.                                               *)
(***************************************************************************)
\* No connection can be had: dialling or BEGIN fails.
AcquireFails(r) ==
    /\ pc[r] \in Waiting
    /\ Goto(r, "failed")
    /\ UNCHANGED <<client, held, seen, full, database>>

\* The client goes away and r.Context() is cancelled: the call in progress
\* fails, and so does the Rollback on the same context, which kills the
\* connection.  The server is not told.
Disconnect(r) ==
    /\ pc[r] \in Busy
    /\ Release(r)
    /\ Goto(r, "lost")
    /\ UNCHANGED <<client, seen, full, database>>

\* An instance dies and is started again: none of its handlers survives.
Crash(i) ==
    /\ \E r \in Requests : at[r] = i /\ pc[r] \in Busy
    /\ pc' = [r \in Requests |->
                 IF at[r] = i /\ pc[r] \in Busy THEN "lost" ELSE pc[r]]
    /\ held' = held \ InUse(i)
    /\ UNCHANGED <<client, seen, full, database>>

(***************************************************************************)
(* PostgreSQL.                                                             *)
(***************************************************************************)
\* Mutant: check-then-insert, which sees only what is committed.
InsertUnlessCommitted(r) ==
    /\ tx[r] = "inserting"
    /\ \A o \in SameKey(r) : tx[o] # "committed"
    /\ rows' = rows \cup {r}
    /\ tx' = [tx EXCEPT ![r] = "inserted"]
    /\ UNCHANGED <<client, handler, lines>>

\* The UNIQUE index: an INSERT waits for an undecided row with its key.
InsertRow(r) ==
    /\ tx[r] = "inserting"
    /\ SameKey(r) = {}
    /\ rows' = rows \cup {r}
    /\ tx' = [tx EXCEPT ![r] = "inserted"]
    /\ UNCHANGED <<client, handler, lines>>

\* Mutant: a conflict with an undecided row is reported without waiting.
ConflictWithoutWaiting(r) ==
    /\ tx[r] = "inserting"
    /\ SameKey(r) # {}
    /\ tx' = [tx EXCEPT ![r] = "conflict"]
    /\ UNCHANGED <<client, handler, rows, lines>>

InsertConflict(r) ==
    /\ tx[r] = "inserting"
    /\ \E o \in SameKey(r) : tx[o] = "committed"
    /\ tx' = [tx EXCEPT ![r] = "conflict"]
    /\ UNCHANGED <<client, handler, rows, lines>>

Commit(r) ==
    /\ tx[r] = "committing"
    /\ tx' = [tx EXCEPT ![r] = "committed"]
    /\ UNCHANGED <<client, handler, rows, lines>>

\* An SQL error, an administrator, a restart of the database, or the server
\* noticing that its client is gone.
ServerAbort(r) ==
    /\ tx[r] \in Undecided
    /\ Abort(r)
    /\ UNCHANGED <<client, handler>>

-----------------------------------------------------------------------------
CreateStep(r) ==
    \/ Begin(r) \/ Inserted(r) \/ Conflicted(r) \/ InsertItems(r) \/ Reload(r)
    \/ LoadByKey(r) \/ AttachItems(r) \/ CommitAck(r) \/ DbError(r) \/ Rollback(r)

ReadStep(g) == AcquireForRead(g) \/ ReadOrder(g) \/ ReadItems(g)

ServerStep(r) == InsertRow(r) \/ InsertConflict(r) \/ Commit(r)

\* All requests are answered or lost and the server has decided them all.
Finished ==
    /\ \A r \in Requests : pc[r] \in Outcomes
    /\ \A r \in Creates : tx[r] \notin Undecided
    /\ UNCHANGED vars

Next ==
    \/ \E r \in Creates : Post(r) \/ CreateStep(r) \/ ConnLost(r)
    \/ \E r \in Creates : ServerStep(r) \/ ServerAbort(r)
    \/ \E g \in Reads : Get(g) \/ ReadStep(g) \/ QueryFails(g)
    \/ \E r \in Requests : AcquireFails(r) \/ Disconnect(r)
    \/ \E i \in Instances : Crash(i)
    \/ Finished

Spec == Init /\ [][Next]_vars

-----------------------------------------------------------------------------
TypeOK ==
    /\ key \in [Creates -> Keys]
    /\ at \in [Requests -> Instances]
    /\ target \in [Reads -> Creates \cup {NoOrder}]
    /\ pc \in [Requests -> {"idle"} \cup Busy \cup Outcomes]
    /\ held \subseteq Requests
    /\ seen \in [Requests -> Creates \cup {NoOrder}]
    /\ full \subseteq Requests
    /\ tx \in [Creates -> {"none", "committed", "aborted"} \cup Undecided]
    /\ rows \subseteq Creates
    /\ lines \subseteq Creates

\* One key names at most one stored order, however many requests carry it and
\* however they interleave, fail or are retried (order-postgres.go:71-76).
AtMostOneOrderPerKey ==
    \A o, p \in Orders : key[o] = key[p] => o = p

\* Requests with the same key that get a success get the same order, and at
\* most one of them is told 201 (order-handler.go:36-40).
SameAnswerPerKey ==
    \A r, s \in Creates :
        /\ key[r] = key[s]
        /\ pc[r] \in {"created", "replayed"} /\ pc[s] \in {"created", "replayed"}
        => /\ seen[r] = seen[s]
           /\ pc[r] = "created" /\ pc[s] = "created" => r = s

\* What a success carries is stored: the order is committed, carries the key
\* asked for, and comes with all its lines.  A 201 is the request's own order.
AcknowledgedIsStored ==
    \A r \in Requests : pc[r] \in {"created", "replayed", "found"} =>
        /\ seen[r] \in Orders \cap lines
        /\ r \in full
        /\ r \in Creates => key[seen[r]] = key[r]
        /\ r \in Creates => (pc[r] = "created" <=> seen[r] = r)

\* 404 is for ids that name no order.  The loser of a race always finds the
\* winner, and a client always finds an order it was told about.
NotFoundMeansUnknown ==
    \A r \in Requests : pc[r] = "notFound" => r \in Reads /\ target[r] = NoOrder

\* A connection is held exactly by the requests that have a statement in
\* flight or a transaction to roll back: no early return leaks one, and no
\* request waits for a second one while it holds one.
PoolAccounting ==
    /\ held = {r \in Requests : pc[r] \in Statements \cup Undoing \cup Querying}
    /\ \A i \in Instances : Cardinality(InUse(i)) <= PoolMax

\* A stored order and its lines are never lost, whatever crashes or rolls back.
StoredForever == [][Orders \subseteq Orders' /\ Orders \cap lines \subseteq lines']_vars

\* Every request ends if PostgreSQL executes what it is sent: waits for a
\* connection and waits for a key resolve, a key that an abandoned transaction has
\* locked too (order-postgres.go:78, :91).
EveryRequestEnds == \A r \in Requests : pc[r] \in Busy ~> pc[r] \in Outcomes
=============================================================================
