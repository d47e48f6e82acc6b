--------------------- MODULE OrderRepoRefinementProofs ---------------------
(***************************************************************************)
(* OrderRepo implements IdempotentCreate for every set of requests and     *)
(* keys and every pool size.  Most steps are invisible to clients; the     *)
(* COMMIT of an inserted row is the one that takes effect.                 *)
(***************************************************************************)
EXTENDS OrderRepoRefinement, OrderRepoProofs

\* Only the COMMIT of an inserted row changes the stored orders.
LEMMA OrdersChangeAtCommit ==
    /\ IInv /\ [Next]_vars
    /\ \A r \in Creates : Commit(r) => r \notin rows
    => Orders' = Orders
<1> SUFFICES ASSUME IInv, [Next]_vars,
                    \A r \in Creates : Commit(r) => r \notin rows
             PROVE  Orders' = Orders
  OBVIOUS
<1> USE DEF Orders, client, handler, database
<1>1. ASSUME NEW r \in Creates, Rollback(r) \/ ServerAbort(r) PROVE Orders' = Orders
  BY <1>1 DEF IInv, TypeOK, StepInv, RowInv, Rollback, ServerAbort, Abort, Undoing,
              Undecided
<1>2. ASSUME NEW r \in Creates,
             \/ Begin(r) \/ AttachItems(r) \/ InsertRow(r) \/ InsertConflict(r)
             \/ Commit(r) \/ InsertItems(r)
      PROVE  Orders' = Orders
  BY <1>2 DEF IInv, TypeOK, StepInv, RowInv, Begin, AttachItems, InsertRow,
              InsertConflict, Commit, InsertItems
<1>3. CASE UNCHANGED database
  BY <1>3
<1> QED
  BY <1>1, <1>2, <1>3
     DEF Next, CreateStep, ReadStep, ServerStep, Finished, vars, Post, Inserted,
         Conflicted, Reload, LoadByKey, CommitAck, DbError, ConnLost,
         StatementFails, Get, AcquireForRead, ReadOrder, ReadItems, QueryFails,
         AcquireFails, Disconnect, Crash

\* The mapped table holds exactly the stored orders, each under its key.
LEMMA StoreHolds ==
    ASSUME IInv, NEW k \in Keys
    PROVE  /\ \A o \in Orders : key[o] = k => storeBar[k] = o
           /\ (\A o \in Orders : key[o] # k) => storeBar[k] = NoOrder
           /\ storeBar[k] # NoOrder => storeBar[k] \in Orders /\ key[storeBar[k]] = k
<1>1. ASSUME NEW o \in Orders, key[o] = k PROVE storeBar[k] = o
  <2>1. \A p \in Orders : key[p] = k => p = o
    BY <1>1 DEF IInv, RowInv, Orders
  <2> QED
    BY <1>1, <2>1 DEF storeBar
<1>2. ASSUME \A o \in Orders : key[o] # k PROVE storeBar[k] = NoOrder
  BY <1>2 DEF storeBar
<1> QED
  BY <1>1, <1>2

LEMMA StoreKeeps == ASSUME key' = key, Orders' = Orders PROVE storeBar' = storeBar
BY DEF storeBar

\* Init of the handlers and the database is Init of the service.
LEMMA InitRefines == Init => Abstract!Init
<1> SUFFICES ASSUME Init PROVE Abstract!Init
  OBVIOUS
<1>1. statusBar = [r \in Requests |-> "idle"]
  BY DEF Init, statusBar, Busy, Waiting, Statements, Undoing, Querying
<1>2. answerBar = [r \in Requests |-> NoOrder]
  BY DEF Init, answerBar
<1>3. storeBar = [k \in Keys |-> NoOrder]
  BY DEF Init, storeBar, Orders
<1> QED
  BY <1>1, <1>2, <1>3 DEF Init, Abstract!Init, Abstract!Requests, Requests

\* Every step of OrderRepo is a step of the service or a stutter.
LEMMA StepRefines ==
    IInv /\ IInv' /\ [Next]_vars => [Abstract!Next]_(Abstract!vars)
<1> SUFFICES ASSUME IInv, IInv', [Next]_vars
             PROVE  Abstract!Next \/ UNCHANGED Abstract!vars
  OBVIOUS
<1> DEFINE Goal == Abstract!Next \/ UNCHANGED Abstract!vars
<1> USE RequestAssumption DEF Requests, Abstract!Requests, Busy, Waiting, Statements, Undoing,
        Querying, Goto, client, handler, database
<1>t. TypeOK /\ StepInv
  BY DEF IInv
<1>1. ASSUME NEW r \in Creates, Begin(r) PROVE Goal
  <2>1. key' = key /\ target' = target /\ Orders' = Orders
    BY <1>1, <1>t DEF Begin, TypeOK, IInv, RowInv, StepInv, Orders, Undecided
  <2>2. statusBar' = statusBar /\ answerBar' = answerBar
    BY <1>1, <1>t DEF Begin, TypeOK, StepInv, statusBar, answerBar
  <2> QED
    BY <2>1, <2>2, StoreKeeps DEF Abstract!vars
<1>2. ASSUME NEW r \in Creates, Inserted(r) PROVE Goal
  <2>1. key' = key /\ target' = target /\ Orders' = Orders
    BY <1>2, <1>t DEF Inserted, TypeOK, IInv, RowInv, StepInv, Orders, Undecided
  <2>2. statusBar' = statusBar /\ answerBar' = answerBar
    BY <1>2, <1>t DEF Inserted, TypeOK, StepInv, statusBar, answerBar
  <2> QED
    BY <2>1, <2>2, StoreKeeps DEF Abstract!vars
<1>3. ASSUME NEW r \in Creates, Conflicted(r) PROVE Goal
  <2>1. key' = key /\ target' = target /\ Orders' = Orders
    BY <1>3, <1>t DEF Conflicted, TypeOK, IInv, RowInv, StepInv, Orders, Undecided
  <2>2. statusBar' = statusBar /\ answerBar' = answerBar
    BY <1>3, <1>t DEF Conflicted, TypeOK, StepInv, statusBar, answerBar
  <2> QED
    BY <2>1, <2>2, StoreKeeps DEF Abstract!vars
<1>4. ASSUME NEW r \in Creates, InsertItems(r) PROVE Goal
  <2>1. key' = key /\ target' = target /\ Orders' = Orders
    BY <1>4, <1>t DEF InsertItems, TypeOK, IInv, RowInv, StepInv, Orders, Undecided
  <2>2. statusBar' = statusBar /\ answerBar' = answerBar
    BY <1>4, <1>t DEF InsertItems, TypeOK, StepInv, statusBar, answerBar
  <2> QED
    BY <2>1, <2>2, StoreKeeps DEF Abstract!vars
<1>5. ASSUME NEW r \in Creates, Reload(r) PROVE Goal
  <2>1. key' = key /\ target' = target /\ Orders' = Orders
    BY <1>5, <1>t DEF Reload, ScanOrder, Visible, TypeOK, IInv, RowInv, StepInv, Orders, Undecided
  <2>2. statusBar' = statusBar /\ answerBar' = answerBar
    BY <1>5, <1>t DEF Reload, ScanOrder, Visible, TypeOK, StepInv, statusBar, answerBar
  <2> QED
    BY <2>1, <2>2, StoreKeeps DEF Abstract!vars
<1>6. ASSUME NEW r \in Creates, LoadByKey(r) PROVE Goal
  <2>1. key' = key /\ target' = target /\ Orders' = Orders
    BY <1>6, <1>t DEF LoadByKey, ScanOrder, Visible, TypeOK, IInv, RowInv, StepInv, Orders, Undecided
  <2>2. statusBar' = statusBar /\ answerBar' = answerBar
    BY <1>6, <1>t DEF LoadByKey, ScanOrder, Visible, TypeOK, StepInv, statusBar, answerBar
  <2> QED
    BY <2>1, <2>2, StoreKeeps DEF Abstract!vars
<1>7. ASSUME NEW r \in Creates, AttachItems(r) PROVE Goal
  <2>1. key' = key /\ target' = target /\ Orders' = Orders
    BY <1>7, <1>t DEF AttachItems, TypeOK, IInv, RowInv, StepInv, Orders, Undecided
  <2>2. statusBar' = statusBar /\ answerBar' = answerBar
    BY <1>7, <1>t DEF AttachItems, TypeOK, StepInv, statusBar, answerBar
  <2> QED
    BY <2>1, <2>2, StoreKeeps DEF Abstract!vars
<1>8. ASSUME NEW r \in Creates, InsertRow(r) PROVE Goal
  <2>1. key' = key /\ target' = target /\ Orders' = Orders
    BY <1>8, <1>t DEF InsertRow, TypeOK, IInv, RowInv, StepInv, Orders, Undecided
  <2>2. statusBar' = statusBar /\ answerBar' = answerBar
    BY <1>8, <1>t DEF InsertRow, TypeOK, StepInv, statusBar, answerBar
  <2> QED
    BY <2>1, <2>2, StoreKeeps DEF Abstract!vars
<1>9. ASSUME NEW r \in Creates, InsertConflict(r) PROVE Goal
  <2>1. key' = key /\ target' = target /\ Orders' = Orders
    BY <1>9, <1>t DEF InsertConflict, TypeOK, IInv, RowInv, StepInv, Orders, Undecided
  <2>2. statusBar' = statusBar /\ answerBar' = answerBar
    BY <1>9, <1>t DEF InsertConflict, TypeOK, StepInv, statusBar, answerBar
  <2> QED
    BY <2>1, <2>2, StoreKeeps DEF Abstract!vars
<1>10. ASSUME NEW r \in Creates, ServerAbort(r) PROVE Goal
  <2>1. key' = key /\ target' = target /\ Orders' = Orders
    BY <1>10, <1>t DEF ServerAbort, Abort, TypeOK, IInv, RowInv, StepInv, Orders, Undecided
  <2>2. statusBar' = statusBar /\ answerBar' = answerBar
    BY <1>10, <1>t DEF ServerAbort, Abort, TypeOK, StepInv, statusBar, answerBar
  <2> QED
    BY <2>1, <2>2, StoreKeeps DEF Abstract!vars
<1>11. ASSUME NEW r \in Creates, Post(r) PROVE Goal
  <2>1. key' = key /\ storeBar' = storeBar
    BY <1>11, StoreKeeps DEF Post, Orders
  <2>2. Abstract!SendCreate(r)
    BY <1>11, <1>t, <2>1 DEF Post, TypeOK, statusBar, answerBar, Abstract!SendCreate
  <2> QED
    BY <2>2 DEF Abstract!Next
<1>12. ASSUME NEW r \in Creates, CommitAck(r) PROVE Goal
  <2>1. key' = key /\ storeBar' = storeBar /\ target' = target
    BY <1>12, StoreKeeps DEF CommitAck, Orders
  <2>2. /\ seen[r] \in Orders
        /\ key[seen[r]] = key[r]
        /\ r \in rows <=> seen[r] = r
    BY <1>12 DEF CommitAck, IInv, SeenInv, RowInv, TypeOK, Visible, Orders
  <2>3. storeBar[key[r]] = seen[r] /\ seen[r] # NoOrder
    BY <2>2, <1>t, StoreHolds DEF TypeOK, Orders
  <2>4. statusBar[r] = "pending"
    BY <1>12 DEF CommitAck, statusBar
  <2>5. answerBar' = [answerBar EXCEPT ![r] = seen[r]]
    BY <1>12, <1>t DEF CommitAck, TypeOK, answerBar
  <2>6. CASE r \in rows
    <3>1. statusBar' = [statusBar EXCEPT ![r] = "created"]
      BY <1>12, <2>6, <1>t DEF CommitAck, TypeOK, statusBar
    <3> QED
      BY <2>1, <2>2, <2>3, <2>4, <2>5, <2>6, <3>1
         DEF Abstract!AnswerCreated, Abstract!Answer, Abstract!Next
  <2>7. CASE r \notin rows
    <3>1. statusBar' = [statusBar EXCEPT ![r] = "replayed"]
      BY <1>12, <2>7, <1>t DEF CommitAck, TypeOK, statusBar
    <3> QED
      BY <2>1, <2>2, <2>3, <2>4, <2>5, <2>7, <3>1
         DEF Abstract!AnswerReplayed, Abstract!Answer, Abstract!Next
  <2> QED
    BY <2>6, <2>7
<1>13. ASSUME NEW r \in Creates, DbError(r) \/ ConnLost(r) PROVE Goal
  <2>1. key' = key /\ storeBar' = storeBar /\ target' = target
    BY <1>13, StoreKeeps DEF DbError, ConnLost, StatementFails, Orders
  <2>2. CASE pc[r] = "committing"
    <3>1. Abstract!AnswerFailed(r)
      BY <1>13, <2>1, <2>2, <1>t
         DEF DbError, ConnLost, StatementFails, TypeOK, statusBar, answerBar,
             Abstract!AnswerFailed, Abstract!Answer
    <3> QED
      BY <3>1 DEF Abstract!Next
  <2>3. CASE pc[r] # "committing"
    <3>1. statusBar' = statusBar /\ answerBar' = answerBar
      BY <1>13, <2>3, <1>t
         DEF DbError, ConnLost, StatementFails, TypeOK, statusBar, answerBar
    <3> QED
      BY <2>1, <3>1 DEF Abstract!vars
  <2> QED
    BY <2>2, <2>3
<1>14. ASSUME NEW r \in Creates, Rollback(r) PROVE Goal
  <2>1. key' = key /\ target' = target /\ Orders' = Orders
    BY <1>14, <1>t DEF Rollback, Abort, TypeOK, IInv, RowInv, StepInv, Orders
  <2>2. pc[r] = "rollback"
    BY <1>14 DEF Rollback, IInv, SeenInv
  <2>3. Abstract!AnswerFailed(r)
    BY <1>14, <1>t, <2>1, <2>2, StoreKeeps
       DEF Rollback, TypeOK, statusBar, answerBar, Abstract!AnswerFailed, Abstract!Answer
  <2> QED
    BY <2>3 DEF Abstract!Next
<1>15. ASSUME NEW r \in Creates, Commit(r) PROVE Goal
  <2>1. key' = key /\ target' = target /\ statusBar' = statusBar /\ answerBar' = answerBar
    BY <1>15 DEF Commit, statusBar, answerBar
  <2>2. CASE r \notin rows
    <3>1. Orders' = Orders
      BY <1>15, <2>2, <1>t DEF Commit, TypeOK, Orders
    <3> QED
      BY <2>1, <3>1, StoreKeeps DEF Abstract!vars
  <2>3. CASE r \in rows
    <3>1. Orders' = Orders \cup {r} /\ r \notin Orders
      BY <1>15, <2>3, <1>t DEF Commit, TypeOK, Orders
    <3>2. \A o \in Orders : key[o] # key[r]
      BY <2>3, <3>1 DEF IInv, RowInv, Orders
    <3>3. key[r] \in Keys /\ storeBar[key[r]] = NoOrder
      BY <3>2, <1>t, StoreHolds DEF TypeOK
    <3>4. storeBar' = [storeBar EXCEPT ![key[r]] = r]
      <4>1. \A o \in Orders' : key'[o] = key'[r] => o = r
        BY <2>1, <3>1, <3>2
      <4>2. storeBar'[key[r]] = r
        BY <2>1, <3>1, <3>3, <4>1 DEF storeBar
      <4>3. ASSUME NEW k \in Keys, k # key[r] PROVE storeBar'[k] = storeBar[k]
        <5>1. \A o : o \in Orders' /\ key'[o] = k <=> o \in Orders /\ key[o] = k
          BY <2>1, <3>1, <4>3
        <5>2. CASE \E o \in Orders : key[o] = k
          <6>1. PICK o \in Orders : key[o] = k
            BY <5>2
          <6>2. \A p \in Orders' : key'[p] = k => p = o
            BY <5>1, <6>1 DEF IInv, RowInv, Orders
          <6>3. o \in Orders' /\ key'[o] = k
            BY <5>1, <6>1
          <6>4. storeBar[k] = o
            BY <6>1, StoreHolds
          <6>5. storeBar'[k] = o
            BY <6>2, <6>3 DEF storeBar
          <6> QED
            BY <6>4, <6>5
        <5>3. CASE \A o \in Orders : key[o] # k
          BY <5>1, <5>3 DEF storeBar
        <5> QED
          BY <5>2, <5>3
      <4> QED
        BY <4>2, <4>3, <3>3 DEF storeBar
    <3>5. statusBar[r] \in {"pending", "failed", "lost"}
      BY <1>15, <1>t DEF Commit, StepInv, TypeOK, statusBar, Outcomes, IInv, SeenInv
    <3> QED
      BY <2>1, <3>3, <3>4, <3>5 DEF Abstract!TakeEffect, Abstract!Next
  <2> QED
    BY <2>2, <2>3
<1>16. ASSUME NEW r \in Reads, Get(r) PROVE Goal
  <2>1. key' = key /\ storeBar' = storeBar
    BY <1>16, StoreKeeps DEF Get, Orders
  <2>2. statusBar[r] = "idle" /\ statusBar' = [statusBar EXCEPT ![r] = "pending"]
    BY <1>16, <1>t DEF Get, TypeOK, statusBar
  <2>3. answerBar' = answerBar
    BY <1>16, <1>t DEF Get, TypeOK, answerBar
  <2>4. Acknowledged \subseteq Abstract!Acknowledged
    BY DEF Acknowledged, Abstract!Acknowledged, Abstract!Successes, statusBar, answerBar
  <2>5. Abstract!SendRead(r)
    BY <1>16, <2>1, <2>2, <2>3, <2>4 DEF Get, Abstract!SendRead
  <2> QED
    BY <2>5 DEF Abstract!Next
<1>17. ASSUME NEW r \in Reads, AcquireForRead(r) PROVE Goal
  <2>1. key' = key /\ target' = target /\ storeBar' = storeBar
    BY <1>17, StoreKeeps DEF AcquireForRead, Orders
  <2>2. statusBar' = statusBar /\ answerBar' = answerBar
    BY <1>17, <1>t DEF AcquireForRead, TypeOK, statusBar, answerBar
  <2> QED
    BY <2>1, <2>2 DEF Abstract!vars
<1>18. ASSUME NEW r \in Reads, ReadOrder(r) PROVE Goal
  <2>1. key' = key /\ target' = target /\ storeBar' = storeBar
    BY <1>18, StoreKeeps DEF ReadOrder, Orders
  <2>2. CASE target[r] \in Orders
    <3>1. statusBar' = statusBar /\ answerBar' = answerBar
      BY <1>18, <2>2, <1>t DEF ReadOrder, TypeOK, statusBar, answerBar
    <3> QED
      BY <2>1, <3>1 DEF Abstract!vars
  <2>3. CASE target[r] \notin Orders
    <3>1. target[r] = NoOrder
      BY <2>3 DEF IInv, ReadInv
    <3>2. Abstract!AnswerNotFound(r)
      BY <1>18, <2>1, <2>3, <3>1, <1>t
         DEF ReadOrder, TypeOK, statusBar, answerBar, Abstract!AnswerNotFound,
             Abstract!Answer
    <3> QED
      BY <3>2 DEF Abstract!Next
  <2> QED
    BY <2>2, <2>3
<1>19. ASSUME NEW r \in Reads, ReadItems(r) PROVE Goal
  <2>1. key' = key /\ target' = target /\ storeBar' = storeBar
    BY <1>19, StoreKeeps DEF ReadItems, Orders
  <2>2. seen[r] = target[r] /\ target[r] \in Orders
    BY <1>19 DEF ReadItems, IInv, ReadInv
  <2>3. target[r] # NoOrder /\ key[target[r]] \in Keys
    BY <2>2, <1>t DEF TypeOK, Orders
  <2>4. storeBar[key[target[r]]] = target[r]
    BY <2>2, <2>3, StoreHolds
  <2>5. Abstract!AnswerFound(r)
    BY <1>19, <2>1, <2>2, <2>3, <2>4, <1>t
       DEF ReadItems, TypeOK, statusBar, answerBar, Abstract!AnswerFound, Abstract!Answer
  <2> QED
    BY <2>5 DEF Abstract!Next
<1>20. ASSUME NEW r \in Requests, (r \in Reads /\ QueryFails(r)) \/ AcquireFails(r) PROVE Goal
  <2>1. key' = key /\ target' = target /\ storeBar' = storeBar
    BY <1>20, StoreKeeps DEF QueryFails, AcquireFails, Orders
  <2>2. Abstract!AnswerFailed(r)
    BY <1>20, <2>1, <1>t
       DEF QueryFails, AcquireFails, TypeOK, statusBar, answerBar,
           Abstract!AnswerFailed, Abstract!Answer
  <2> QED
    BY <2>2 DEF Abstract!Next
<1>21. ASSUME NEW r \in Requests, Disconnect(r) PROVE Goal
  <2> DEFINE some == {r}
  <2>1. key' = key /\ target' = target /\ storeBar' = storeBar
    BY <1>21, StoreKeeps DEF Disconnect, Orders
  <2>2. some # {} /\ some \in SUBSET {q \in Requests : statusBar[q] = "pending"}
    BY <1>21, <1>t DEF Disconnect, TypeOK, statusBar
  <2>3. statusBar' = [q \in Requests |-> IF q \in some THEN "lost" ELSE statusBar[q]]
    BY <1>21, <1>t DEF Disconnect, TypeOK, statusBar
  <2>4. answerBar' = answerBar
    BY <1>21, <1>t DEF Disconnect, TypeOK, answerBar
  <2> QED
    BY <2>1, <2>2, <2>3, <2>4 DEF Abstract!Lose, Abstract!Next
<1>22. ASSUME NEW i \in Instances, Crash(i) PROVE Goal
  <2> DEFINE some == {q \in Requests : at[q] = i /\ pc[q] \in Busy}
  <2>1. key' = key /\ target' = target /\ storeBar' = storeBar
    BY <1>22, StoreKeeps DEF Crash, Orders
  <2>2. some # {} /\ some \in SUBSET {q \in Requests : statusBar[q] = "pending"}
    BY <1>22, <1>t DEF Crash, TypeOK, statusBar
  <2>3. statusBar' = [q \in Requests |-> IF q \in some THEN "lost" ELSE statusBar[q]]
    BY <1>22, <1>t DEF Crash, TypeOK, statusBar
  <2>4. answerBar' = answerBar
    BY <1>22, <1>t DEF Crash, TypeOK, answerBar
  <2> QED
    BY <2>1, <2>2, <2>3, <2>4 DEF Abstract!Lose, Abstract!Next
<1>23. CASE UNCHANGED vars
  BY <1>23, StoreKeeps DEF vars, statusBar, answerBar, Orders, Abstract!vars
<1> QED
  BY <1>1, <1>2, <1>3, <1>4, <1>5, <1>6, <1>7, <1>8, <1>9, <1>10, <1>11, <1>12,
     <1>13, <1>14, <1>15, <1>16, <1>17, <1>18, <1>19, <1>20, <1>21, <1>22, <1>23
     DEF Next, CreateStep, ReadStep, ServerStep, Finished

\* Clients cannot tell the handlers, the pool and the transactions from the
\* atomic service (order-postgres.go:71-128, order-handler.go:36-40).
THEOREM Refinement == Spec => ImplementsIdempotentCreate
<1>1. Spec => Abstract!Init
  BY InitRefines DEF Spec
<1>2. IInv /\ IInv' /\ [Next]_vars => [Abstract!Next]_(Abstract!vars)
  BY StepRefines
<1> QED
  BY <1>1, <1>2, Invariance, PTL DEF Spec, Abstract!Spec, ImplementsIdempotentCreate
=============================================================================
