------------------------- MODULE OrderServiceProofs -------------------------
(***************************************************************************)
(* OrderService keeps within OrderRepo, so that the theorems about         *)
(* OrderRepo hold of instances that drain, close and restart.              *)
(***************************************************************************)
EXTENDS OrderService, OrderRepoRefinementProofs

\* Every step of the service is a step of OrderRepo or changes a phase only
\* (app.go:88-109).
LEMMA ServiceRefinement == ServiceSpec => Spec
<1>1. ServiceInit => Init
  BY DEF ServiceInit
<1>2. [ServiceNext]_serviceVars => [Next]_vars
  <2> SUFFICES ASSUME [ServiceNext]_serviceVars PROVE [Next]_vars
    OBVIOUS
  <2> USE DEF Next, Requests
  <2>1. ASSUME NEW r \in Requests, Accept(r) PROVE Next
    BY <2>1 DEF Accept
  <2>2. ASSUME NEW r \in Requests, Handle(r) PROVE Next
    BY <2>2 DEF Handle
  <2>3. ASSUME NEW r \in Requests, PoolRefuses(r) PROVE Next
    BY <2>3 DEF PoolRefuses
  <2>4. ASSUME NEW r \in Requests, Fail(r) PROVE Next
    BY <2>4 DEF Fail
  <2>5. ASSUME NEW r \in Requests, GiveUp(r) PROVE Next
    BY <2>5 DEF GiveUp
  <2>6. ASSUME NEW r \in Creates, Database(r) PROVE Next
    BY <2>6 DEF Database
  <2>7. ASSUME NEW i \in Instances, Exit(i) PROVE [Next]_vars
    BY <2>7 DEF Exit
  <2>8. ASSUME NEW i \in Instances, Process(i) PROVE [Next]_vars
    BY <2>7, <2>8 DEF Process, StartDrain, DrainDone, StopWaiting, ClosePool, Kill, Restart
  <2>9. CASE UNCHANGED serviceVars
    BY <2>9 DEF serviceVars
  <2> HIDE DEF Next, Requests
  <2> QED
    BY <2>1, <2>2, <2>3, <2>4, <2>5, <2>6, <2>8, <2>9 DEF ServiceNext
<1> QED
  BY <1>1, <1>2, PTL DEF ServiceSpec, Spec

\* Requests that meet a draining, closing or restarted instance are told 404
\* only about ids that name no order (postgres.go:189, order-postgres.go:134).
THEOREM NotFoundDespiteShutdown == ServiceSpec => []NotFoundMeansUnknown
BY ServiceRefinement, NotFoundIsUnknown, PTL

\* The service as a whole, its shutdowns included, is the atomic service of
\* IdempotentCreate: a create cut by a shutdown and sent again elsewhere yields
\* one order (order-handler.go:36-40).
THEOREM ServiceIsAtomic == ServiceSpec => ImplementsIdempotentCreate
BY ServiceRefinement, Refinement, PTL

\* No handler runs in an exited process.
ExitInv == \A i \in Instances : phase[i] = "exited" => AtWork(i) = {}

\* A step of one handler leaves the others alone, and it is not one of an exited
\* process.
LEMMA HandlerStep ==
    ASSUME TypeOK, phase \in [Instances -> Phases], ExitInv, NEW r \in Requests,
           Accept(r) \/ Handle(r) \/ PoolRefuses(r) \/ Fail(r) \/ GiveUp(r)
    PROVE  /\ UNCHANGED <<at, phase>> /\ phase[at[r]] # "exited"
           /\ \A q \in Requests \ {r} : pc'[q] = pc[q]
<1> USE DEF client, Goto, StatementFails
<1>1. pc[r] \in Busy => phase[at[r]] # "exited"
  BY DEF ExitInv, AtWork, TypeOK
<1>2. CASE Accept(r)
  BY <1>2 DEF Accept, Post, Get, TypeOK
<1>3. CASE Handle(r) /\ r \in Creates
  <2>1. UNCHANGED phase /\ CreateStep(r)
    BY <1>3 DEF Handle
  <2>2. pc[r] \in Busy
    BY <2>1 DEF CreateStep, Begin, Inserted, Conflicted, InsertItems, Reload, LoadByKey,
                AttachItems, CommitAck, DbError, Rollback, Busy, Waiting, Statements, Undoing
  <2>3. UNCHANGED at /\ \E next : pc' = [pc EXCEPT ![r] = next]
    BY <2>1 DEF CreateStep, Begin, Inserted, Conflicted, InsertItems, Reload, LoadByKey,
                AttachItems, CommitAck, DbError, Rollback, ScanOrder
  <2> QED
    BY <1>1, <2>1, <2>2, <2>3 DEF TypeOK
<1>4. CASE Handle(r) /\ r \notin Creates
  <2>1. UNCHANGED phase /\ ReadStep(r)
    BY <1>4 DEF Handle
  <2>2. pc[r] \in Busy
    BY <2>1 DEF ReadStep, AcquireForRead, ReadOrder, ReadItems, Busy, Waiting, Querying
  <2>3. UNCHANGED at /\ \E next : pc' = [pc EXCEPT ![r] = next]
    BY <2>1 DEF ReadStep, AcquireForRead, ReadOrder, ReadItems
  <2> QED
    BY <1>1, <2>1, <2>2, <2>3 DEF TypeOK
<1>5. CASE PoolRefuses(r)
  BY <1>1, <1>5 DEF PoolRefuses, AcquireFails, Busy, TypeOK
<1>6. CASE Fail(r)
  BY <1>1, <1>6 DEF Fail, ConnLost, QueryFails, Busy, TypeOK
<1>7. CASE GiveUp(r)
  BY <1>1, <1>7 DEF GiveUp, AcquireFails, Disconnect, Busy, TypeOK
<1> QED
  BY <1>2, <1>3, <1>4, <1>5, <1>6, <1>7

\* Phases are of their type, and an exited process leaves no handler running and
\* no connection in use (postgres.go:189, main.go:22).
THEOREM ProcessesEnd == ServiceSpec => []PhaseOK
<1>1. ServiceInit => phase \in [Instances -> Phases] /\ ExitInv
  BY DEF ServiceInit, Phases, ExitInv
<1>2. TypeOK /\ phase \in [Instances -> Phases] /\ ExitInv /\ [ServiceNext]_serviceVars
        => (phase \in [Instances -> Phases] /\ ExitInv)'
  <2> SUFFICES ASSUME TypeOK, phase \in [Instances -> Phases], ExitInv,
                      [ServiceNext]_serviceVars
               PROVE  (phase \in [Instances -> Phases] /\ ExitInv)'
    OBVIOUS
  <2>1. ASSUME NEW r \in Requests,
               Accept(r) \/ Handle(r) \/ PoolRefuses(r) \/ Fail(r) \/ GiveUp(r)
        PROVE  (phase \in [Instances -> Phases] /\ ExitInv)'
    BY <2>1, HandlerStep DEF ExitInv, AtWork
  <2>2. ASSUME NEW r \in Creates, Database(r)
        PROVE  (phase \in [Instances -> Phases] /\ ExitInv)'
    BY <2>2 DEF Database, ServerStep, InsertRow, InsertConflict, Commit, ServerAbort,
                client, handler, ExitInv, AtWork
  <2>3. ASSUME NEW i \in Instances, Exit(i)
        PROVE  (phase \in [Instances -> Phases] /\ ExitInv)'
    <3>1. phase' = [phase EXCEPT ![i] = "exited"] /\ UNCHANGED at
      BY <2>3 DEF Exit, EnterPhase, Crash, vars, client
    <3>2. \A r \in Requests : pc'[r] \in Busy => at[r] # i /\ pc'[r] = pc[r]
      BY <2>3 DEF Exit, Crash, AtWork, vars, TypeOK, Busy, Waiting, Statements, Undoing, Querying
    <3> QED
      BY <3>1, <3>2 DEF ExitInv, AtWork, Phases
  <2>4. ASSUME NEW i \in Instances, Process(i)
        PROVE  (phase \in [Instances -> Phases] /\ ExitInv)'
    <3>1. CASE ClosePool(i) \/ Kill(i)
      BY <2>3, <3>1 DEF ClosePool, Kill
    <3>2. CASE StartDrain(i) \/ DrainDone(i) \/ StopWaiting(i) \/ Restart(i)
      BY <3>2 DEF StartDrain, DrainDone, StopWaiting, Restart, EnterPhase, vars, client,
                  ExitInv, AtWork, Phases
    <3> QED
      BY <2>4, <3>1, <3>2 DEF Process
  <2>5. CASE UNCHANGED serviceVars
    BY <2>5 DEF serviceVars, vars, ExitInv, AtWork
  <2> QED
    BY <2>1, <2>2, <2>4, <2>5 DEF ServiceNext
<1>3. HeldInv /\ phase \in [Instances -> Phases] /\ ExitInv => PhaseOK
  BY DEF HeldInv, ExitInv, PhaseOK, InUse, AtWork, Busy
<1>4. Spec => [](TypeOK /\ HeldInv)
  BY Invariance, PTL DEF IInv
<1> QED
  BY <1>1, <1>2, <1>3, <1>4, ServiceRefinement, PTL DEF ServiceSpec
=============================================================================
