---------------------------- MODULE OrderService ----------------------------
(***************************************************************************)
(* The order service in operation: OrderRepo's instances are processes     *)
(* that are told to stop, drain, close their pool, exit, are killed, and   *)
(* are started again, while requests are under way in them and in others.  *)
(*                                                                         *)
(* OrderServer has the life of one process in detail and leaves open what  *)
(* its handlers do; OrderRepo has the handlers and only lets an instance   *)
(* crash.  This module puts the two together.                              *)
(***************************************************************************)
EXTENDS OrderRepoRefinement

VARIABLE phase      \* of each instance, as OrderServer's main

serviceVars == <<vars, phase>>

Phases == {"serving", "draining", "closing", "exited"}

AtWork(i) == {r \in Requests : at[r] = i /\ pc[r] \in Busy}

ServiceInit == Init /\ phase = [i \in Instances |-> "serving"]

EnterPhase(i, next) == phase' = [phase EXCEPT ![i] = next]

(***************************************************************************)
(* Requests.                                                               *)
(***************************************************************************)
\* Only a listening instance is sent requests; those that a kept-alive connection
\* still brings to a closing pool (OrderServer's Arrive) are refused there and
\* then, and left out.
Accept(r) ==
    /\ phase[at[r]] = "serving"
    /\ IF r \in Creates THEN Post(r) ELSE Get(r)
    /\ UNCHANGED phase

\* Mutant: the closed pool's error is taken for ErrOrderNotFound.
PoolRefusesAsNotFound(r) ==
    /\ phase[at[r]] = "closing"
    /\ pc[r] \in Waiting
    /\ Goto(r, "notFound")
    /\ UNCHANGED <<client, held, seen, full, database, phase>>

\* pg.Close has begun: the pool gives no connection any more, not even to who
\* waits for one.
PoolRefuses(r) ==
    /\ phase[at[r]] = "closing"
    /\ AcquireFails(r)
    /\ UNCHANGED phase

\* The next step of a handler; it takes a connection only from an open pool.
Handle(r) ==
    /\ pc[r] \in Waiting => phase[at[r]] # "closing"
    /\ IF r \in Creates THEN CreateStep(r) ELSE ReadStep(r)
    /\ UNCHANGED phase

\* A statement fails, the connection breaks, the client goes away.
Fail(r) ==
    /\ IF r \in Creates THEN ConnLost(r) ELSE QueryFails(r)
    /\ UNCHANGED phase

GiveUp(r) == (AcquireFails(r) \/ Disconnect(r)) /\ UNCHANGED phase

(***************************************************************************)
(* Processes.                                                              *)
(***************************************************************************)
\* A signal: Shutdown closes the listener.
StartDrain(i) ==
    /\ phase[i] = "serving"
    /\ EnterPhase(i, "draining")
    /\ UNCHANGED vars

DrainDone(i) ==
    /\ phase[i] = "draining" /\ AtWork(i) = {}
    /\ EnterPhase(i, "closing")
    /\ UNCHANGED vars

\* The shutdown times out, or the listener has failed.
StopWaiting(i) ==
    /\ phase[i] \in {"serving", "draining"}
    /\ EnterPhase(i, "closing")
    /\ UNCHANGED vars

\* The process ends and takes its handlers with it.
Exit(i) ==
    /\ EnterPhase(i, "exited")
    /\ IF AtWork(i) = {} THEN UNCHANGED vars ELSE Crash(i)

\* Mutant: the exit waits for no connection, and none is given back.
ClosePoolLeaking(i) ==
    /\ phase[i] = "closing"
    /\ EnterPhase(i, "exited")
    /\ pc' = [r \in Requests |-> IF r \in AtWork(i) THEN "lost" ELSE pc[r]]
    /\ UNCHANGED <<client, held, seen, full, database>>

\* pg.Close returns when all connections are back.
ClosePool(i) ==
    /\ phase[i] = "closing" /\ InUse(i) = {}
    /\ Exit(i)

Kill(i) == phase[i] # "exited" /\ Exit(i)

Restart(i) ==
    /\ phase[i] = "exited"
    /\ EnterPhase(i, "serving")
    /\ UNCHANGED vars

-----------------------------------------------------------------------------
Process(i) ==
    \/ StartDrain(i) \/ DrainDone(i) \/ StopWaiting(i) \/ ClosePool(i) \/ Kill(i)
    \/ Restart(i)

Database(r) == (ServerStep(r) \/ ServerAbort(r)) /\ UNCHANGED phase

ServiceNext ==
    \/ \E r \in Requests : Accept(r) \/ Handle(r) \/ PoolRefuses(r) \/ Fail(r) \/ GiveUp(r)
    \/ \E r \in Creates : Database(r)
    \/ \E i \in Instances : Process(i)

ServiceSpec == ServiceInit /\ [][ServiceNext]_serviceVars

\* Handlers run, the server executes what it was sent, and it notices in the end
\* that the client of a transaction is gone.  A pool that is closing tells who
\* waits, and closes.  Failures are not forced, and nothing makes an instance
\* stop, or start again.
ServiceFairness ==
    /\ \A r \in Requests : WF_serviceVars(Handle(r)) /\ WF_serviceVars(PoolRefuses(r))
    /\ \A r \in Creates : /\ WF_serviceVars(ServerStep(r) /\ UNCHANGED phase)
                          /\ WF_serviceVars(pc[r] \in Outcomes /\ ServerAbort(r)
                                                /\ UNCHANGED phase)
    /\ \A i \in Instances : WF_serviceVars(ClosePool(i))

FairServiceSpec == ServiceSpec /\ ServiceFairness

-----------------------------------------------------------------------------
\* Phases are of their type, and an exited process has left no handler running
\* and no connection in use (postgres.go:189, main.go:22).
PhaseOK ==
    /\ phase \in [Instances -> Phases]
    /\ \A i \in Instances : phase[i] = "exited" => AtWork(i) = {} /\ InUse(i) = {}

\* If PostgreSQL executes what it is sent, a pool that is being closed gets its
\* connections back, though a handler may be waiting for a key whose transaction
\* another process has abandoned (postgres.go:189, order-postgres.go:91).
ClosingPoolCloses == \A i \in Instances : phase[i] = "closing" ~> phase[i] = "exited"
=============================================================================
