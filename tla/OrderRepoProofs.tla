-------------------------- MODULE OrderRepoProofs --------------------------
(***************************************************************************)
(* Theorems about OrderRepo for every set of requests and keys and every   *)
(* pool size.  The inductive invariant is built in layers, each of which   *)
(* is inductive once the layers before it are known.                       *)
(***************************************************************************)
EXTENDS OrderRepo, FiniteSetTheorems, TLAPS

\* Where a handler is bounds what the server can be doing for it.
StepInv ==
    \A r \in Creates :
        /\ pc[r] \notin Querying \cup {"acquiringItems", "found"}
        /\ pc[r] \in {"idle", "acquiring"} => tx[r] = "none"
        /\ pc[r] \in {"inserting", "rollback", "missing"} =>
               tx[r] \in {"inserting", "inserted", "conflict", "aborted"}
        /\ pc[r] \in {"items", "reloading"} => tx[r] \in {"inserted", "aborted"}
        /\ pc[r] = "loading" => tx[r] \in {"conflict", "aborted"}
        /\ pc[r] = "attaching" => tx[r] \in {"inserted", "conflict", "aborted"}
        /\ pc[r] = "committing" => tx[r] \in {"committing", "committed", "aborted"}
        /\ pc[r] \in {"created", "replayed"} => tx[r] = "committed"

\* A row exists from INSERT until abort, and no other row shares its key: the
\* row of an undecided transaction is the lock on the key.
RowInv ==
    /\ \A r \in Creates : tx[r] = "inserted" => r \in rows
    /\ \A r \in rows : tx[r] \in {"inserted", "committing", "committed"}
    /\ \A o, p \in rows : key[o] = key[p] => o = p

\* The lines are written before the COMMIT is sent.
LineInv ==
    \A r \in rows :
        tx[r] # "inserted" \/ pc[r] \in {"reloading", "attaching"} => r \in lines

\* A conflict was with a committed order, and what a handler has scanned is
\* its own row or that order.
SeenInv ==
    \A r \in Creates :
        /\ tx[r] = "conflict" => \E o \in Orders : key[o] = key[r]
        /\ pc[r] \in {"attaching", "committing", "created", "replayed"}
              /\ tx[r] # "aborted"
           => /\ seen[r] \in Visible(r)
              /\ key[seen[r]] = key[r]
              /\ pc[r] # "attaching" => r \in full
        /\ pc[r] \notin {"missing", "notFound"}
        /\ pc[r] = "created" => r \in rows
        /\ pc[r] = "replayed" => r \notin rows

\* A read asks for a stored order or for none.
ReadInv ==
    \A g \in Reads :
        /\ target[g] \in Orders \cup {NoOrder}
        /\ pc[g] \in {"idle", "acquiring", "acquiringItems", "found", "notFound",
                      "failed", "lost"} \cup Querying
        /\ pc[g] \in {"acquiringItems", "readItems", "found"} =>
               seen[g] = target[g] /\ seen[g] \in Orders
        /\ pc[g] = "found" => g \in full
        /\ pc[g] = "notFound" => target[g] = NoOrder

\* A connection is held by exactly the requests between Begin and their return,
\* or in a query of GetByID.
HeldInv ==
    held = {r \in Requests : pc[r] \in Statements \cup Undoing \cup Querying}

BoundInv == \A i \in Instances : Cardinality(InUse(i)) <= PoolMax

IInv ==
    /\ TypeOK /\ StepInv /\ RowInv /\ LineInv /\ SeenInv /\ ReadInv
    /\ HeldInv /\ BoundInv

\* The variables keep their types (order-postgres.go:71-138).
THEOREM TypeCorrect == Spec => []TypeOK
<1>1. Init => TypeOK
  BY RequestAssumption DEF Init, TypeOK, Requests
<1>2. TypeOK /\ [Next]_vars => TypeOK'
  <2> SUFFICES ASSUME TypeOK, [Next]_vars PROVE TypeOK'
    OBVIOUS
  <2> USE DEF TypeOK, Requests, Busy, Waiting, Statements, Undoing, Querying,
              Outcomes, Undecided, Goto, client, handler, database
  <2>1. ASSUME NEW r \in Creates, Post(r) PROVE TypeOK'
    BY <2>1 DEF Post
  <2>2. ASSUME NEW r \in Creates, Begin(r) PROVE TypeOK'
    BY <2>2 DEF Begin, Acquire
  <2>3. ASSUME NEW r \in Creates, Inserted(r) PROVE TypeOK'
    BY <2>3 DEF Inserted
  <2>4. ASSUME NEW r \in Creates, Conflicted(r) PROVE TypeOK'
    BY <2>4 DEF Conflicted
  <2>5. ASSUME NEW r \in Creates, InsertItems(r) PROVE TypeOK'
    BY <2>5 DEF InsertItems
  <2>6. ASSUME NEW r \in Creates, Reload(r) PROVE TypeOK'
    BY <2>6 DEF Reload, ScanOrder, Visible
  <2>7. ASSUME NEW r \in Creates, LoadByKey(r) PROVE TypeOK'
    BY <2>7 DEF LoadByKey, ScanOrder, Visible
  <2>8. ASSUME NEW r \in Creates, AttachItems(r) PROVE TypeOK'
    BY <2>8 DEF AttachItems
  <2>9. ASSUME NEW r \in Creates, CommitAck(r) PROVE TypeOK'
    BY <2>9 DEF CommitAck, Release
  <2>10. ASSUME NEW r \in Creates, DbError(r) PROVE TypeOK'
    BY <2>10 DEF DbError, StatementFails, Release
  <2>11. ASSUME NEW r \in Creates, ConnLost(r) PROVE TypeOK'
    BY <2>11 DEF ConnLost, StatementFails, Release
  <2>12. ASSUME NEW r \in Creates, Rollback(r) PROVE TypeOK'
    BY <2>12 DEF Rollback, Release, Abort
  <2>13. ASSUME NEW r \in Creates, InsertRow(r) PROVE TypeOK'
    BY <2>13 DEF InsertRow
  <2>14. ASSUME NEW r \in Creates, InsertConflict(r) PROVE TypeOK'
    BY <2>14 DEF InsertConflict
  <2>15. ASSUME NEW r \in Creates, Commit(r) PROVE TypeOK'
    BY <2>15 DEF Commit
  <2>16. ASSUME NEW r \in Creates, ServerAbort(r) PROVE TypeOK'
    BY <2>16 DEF ServerAbort, Abort
  <2>17. ASSUME NEW r \in Reads, Get(r) PROVE TypeOK'
    BY <2>17 DEF Get, Acknowledged
  <2>18. ASSUME NEW r \in Reads, AcquireForRead(r) PROVE TypeOK'
    BY <2>18 DEF AcquireForRead, Acquire
  <2>19. ASSUME NEW r \in Reads, ReadOrder(r) PROVE TypeOK'
    BY <2>19 DEF ReadOrder, Release, Orders
  <2>20. ASSUME NEW r \in Reads, ReadItems(r) PROVE TypeOK'
    BY <2>20 DEF ReadItems, Release
  <2>21. ASSUME NEW r \in Reads, QueryFails(r) PROVE TypeOK'
    BY <2>21 DEF QueryFails, Release
  <2>22. ASSUME NEW r \in Requests, AcquireFails(r) PROVE TypeOK'
    BY <2>22 DEF AcquireFails
  <2>23. ASSUME NEW r \in Requests, Disconnect(r) PROVE TypeOK'
    BY <2>23 DEF Disconnect, Release
  <2>24. ASSUME NEW i \in Instances, Crash(i) PROVE TypeOK'
    BY <2>24 DEF Crash, InUse
  <2>25. CASE UNCHANGED vars
    BY <2>25 DEF vars
  <2> QED
    BY <2>1, <2>2, <2>3, <2>4, <2>5, <2>6, <2>7, <2>8, <2>9, <2>10, <2>11, <2>12, <2>13, <2>14, <2>15, <2>16, <2>17, <2>18, <2>19, <2>20, <2>21, <2>22, <2>23, <2>24, <2>25
       DEF Next, CreateStep, ReadStep, ServerStep, Finished
<1> QED
  BY <1>1, <1>2, PTL DEF Spec

\* Handlers and the server stay in step: no action of one, and no failure, leaves
\* the other in a state the code does not expect.
LEMMA StepStep ==
    TypeOK /\ StepInv /\ [Next]_vars => StepInv'
<1> SUFFICES ASSUME TypeOK, StepInv, [Next]_vars PROVE StepInv'
  OBVIOUS
<1> USE RequestAssumption DEF TypeOK, StepInv, Requests, Busy, Waiting, Statements,
        Undoing, Querying, Outcomes, Undecided, Goto, client, handler, database
<1>1. ASSUME NEW r \in Creates, Post(r) PROVE StepInv'
  BY <1>1 DEF Post
<1>2. ASSUME NEW r \in Creates, Begin(r) PROVE StepInv'
  BY <1>2 DEF Begin, Acquire
<1>3. ASSUME NEW r \in Creates, Inserted(r) PROVE StepInv'
  BY <1>3 DEF Inserted
<1>4. ASSUME NEW r \in Creates, Conflicted(r) PROVE StepInv'
  BY <1>4 DEF Conflicted
<1>5. ASSUME NEW r \in Creates, InsertItems(r) PROVE StepInv'
  BY <1>5 DEF InsertItems
<1>6. ASSUME NEW r \in Creates, Reload(r) PROVE StepInv'
  BY <1>6 DEF Reload, ScanOrder
<1>7. ASSUME NEW r \in Creates, LoadByKey(r) PROVE StepInv'
  BY <1>7 DEF LoadByKey, ScanOrder
<1>8. ASSUME NEW r \in Creates, AttachItems(r) PROVE StepInv'
  BY <1>8 DEF AttachItems
<1>9. ASSUME NEW r \in Creates, CommitAck(r) PROVE StepInv'
  BY <1>9 DEF CommitAck
<1>10. ASSUME NEW r \in Creates, DbError(r) PROVE StepInv'
  BY <1>10 DEF DbError, StatementFails
<1>11. ASSUME NEW r \in Creates, ConnLost(r) PROVE StepInv'
  BY <1>11 DEF ConnLost, StatementFails
<1>12. ASSUME NEW r \in Creates, Rollback(r) PROVE StepInv'
  BY <1>12 DEF Rollback, Abort
<1>13. ASSUME NEW r \in Creates, InsertRow(r) PROVE StepInv'
  BY <1>13 DEF InsertRow
<1>14. ASSUME NEW r \in Creates, InsertConflict(r) PROVE StepInv'
  BY <1>14 DEF InsertConflict
<1>15. ASSUME NEW r \in Creates, Commit(r) PROVE StepInv'
  BY <1>15 DEF Commit
<1>16. ASSUME NEW r \in Creates, ServerAbort(r) PROVE StepInv'
  BY <1>16 DEF ServerAbort, Abort
<1>17. ASSUME NEW r \in Reads, Get(r) PROVE StepInv'
  BY <1>17 DEF Get, Acknowledged
<1>18. ASSUME NEW r \in Reads, AcquireForRead(r) PROVE StepInv'
  BY <1>18 DEF AcquireForRead
<1>19. ASSUME NEW r \in Reads, ReadOrder(r) PROVE StepInv'
  BY <1>19 DEF ReadOrder
<1>20. ASSUME NEW r \in Reads, ReadItems(r) PROVE StepInv'
  BY <1>20 DEF ReadItems
<1>21. ASSUME NEW r \in Reads, QueryFails(r) PROVE StepInv'
  BY <1>21 DEF QueryFails
<1>22. ASSUME NEW r \in Requests, AcquireFails(r) PROVE StepInv'
  BY <1>22 DEF AcquireFails
<1>23. ASSUME NEW r \in Requests, Disconnect(r) PROVE StepInv'
  BY <1>23 DEF Disconnect
<1>24. ASSUME NEW i \in Instances, Crash(i) PROVE StepInv'
  BY <1>24 DEF Crash, InUse
<1>25. CASE UNCHANGED vars
  BY <1>25 DEF vars
<1> QED
  BY <1>1, <1>2, <1>3, <1>4, <1>5, <1>6, <1>7, <1>8, <1>9, <1>10, <1>11, <1>12, <1>13, <1>14,
     <1>15, <1>16, <1>17, <1>18, <1>19, <1>20, <1>21, <1>22, <1>23, <1>24, <1>25
     DEF Next, CreateStep, ReadStep, ServerStep, Finished

\* Only InsertRow adds a row, and only when its key has none.
LEMMA RowStep ==
    TypeOK /\ StepInv /\ RowInv /\ [Next]_vars => RowInv'
<1> SUFFICES ASSUME TypeOK, StepInv, RowInv, [Next]_vars PROVE RowInv'
  OBVIOUS
<1> USE RequestAssumption DEF TypeOK, StepInv, RowInv, Requests, Busy, Waiting, Statements,
        Undoing, Querying, Outcomes, Undecided, Goto, client, handler, database
<1>1. ASSUME NEW r \in Creates, Post(r) PROVE RowInv'
  BY <1>1 DEF Post
<1>2. ASSUME NEW r \in Creates, Begin(r) PROVE RowInv'
  BY <1>2 DEF Begin, Acquire
<1>3. ASSUME NEW r \in Creates, Inserted(r) PROVE RowInv'
  BY <1>3 DEF Inserted
<1>4. ASSUME NEW r \in Creates, Conflicted(r) PROVE RowInv'
  BY <1>4 DEF Conflicted
<1>5. ASSUME NEW r \in Creates, InsertItems(r) PROVE RowInv'
  BY <1>5 DEF InsertItems
<1>6. ASSUME NEW r \in Creates, Reload(r) PROVE RowInv'
  BY <1>6 DEF Reload, ScanOrder
<1>7. ASSUME NEW r \in Creates, LoadByKey(r) PROVE RowInv'
  BY <1>7 DEF LoadByKey, ScanOrder
<1>8. ASSUME NEW r \in Creates, AttachItems(r) PROVE RowInv'
  BY <1>8 DEF AttachItems
<1>9. ASSUME NEW r \in Creates, CommitAck(r) PROVE RowInv'
  BY <1>9 DEF CommitAck
<1>10. ASSUME NEW r \in Creates, DbError(r) PROVE RowInv'
  BY <1>10 DEF DbError, StatementFails
<1>11. ASSUME NEW r \in Creates, ConnLost(r) PROVE RowInv'
  BY <1>11 DEF ConnLost, StatementFails
<1>12. ASSUME NEW r \in Creates, Rollback(r) PROVE RowInv'
  BY <1>12 DEF Rollback, Abort
<1>13. ASSUME NEW r \in Creates, InsertRow(r) PROVE RowInv'
  BY <1>13 DEF InsertRow, SameKey
<1>14. ASSUME NEW r \in Creates, InsertConflict(r) PROVE RowInv'
  BY <1>14 DEF InsertConflict
<1>15. ASSUME NEW r \in Creates, Commit(r) PROVE RowInv'
  BY <1>15 DEF Commit
<1>16. ASSUME NEW r \in Creates, ServerAbort(r) PROVE RowInv'
  BY <1>16 DEF ServerAbort, Abort
<1>17. ASSUME NEW r \in Reads, Get(r) PROVE RowInv'
  BY <1>17 DEF Get, Acknowledged
<1>18. ASSUME NEW r \in Reads, AcquireForRead(r) PROVE RowInv'
  BY <1>18 DEF AcquireForRead
<1>19. ASSUME NEW r \in Reads, ReadOrder(r) PROVE RowInv'
  BY <1>19 DEF ReadOrder
<1>20. ASSUME NEW r \in Reads, ReadItems(r) PROVE RowInv'
  BY <1>20 DEF ReadItems
<1>21. ASSUME NEW r \in Reads, QueryFails(r) PROVE RowInv'
  BY <1>21 DEF QueryFails
<1>22. ASSUME NEW r \in Requests, AcquireFails(r) PROVE RowInv'
  BY <1>22 DEF AcquireFails
<1>23. ASSUME NEW r \in Requests, Disconnect(r) PROVE RowInv'
  BY <1>23 DEF Disconnect
<1>24. ASSUME NEW i \in Instances, Crash(i) PROVE RowInv'
  BY <1>24 DEF Crash, InUse
<1>25. CASE UNCHANGED vars
  BY <1>25 DEF vars
<1> QED
  BY <1>1, <1>2, <1>3, <1>4, <1>5, <1>6, <1>7, <1>8, <1>9, <1>10, <1>11, <1>12, <1>13, <1>14,
     <1>15, <1>16, <1>17, <1>18, <1>19, <1>20, <1>21, <1>22, <1>23, <1>24, <1>25
     DEF Next, CreateStep, ReadStep, ServerStep, Finished

\* The batch is executed before the COMMIT is sent, so no order is stored without
\* its lines.
LEMMA LineStep ==
    TypeOK /\ StepInv /\ RowInv /\ LineInv /\ [Next]_vars => LineInv'
<1> SUFFICES ASSUME TypeOK, StepInv, RowInv, LineInv, [Next]_vars PROVE LineInv'
  OBVIOUS
<1> USE RequestAssumption DEF TypeOK, StepInv, RowInv, LineInv, Requests, Busy, Waiting, Statements,
        Undoing, Querying, Outcomes, Undecided, Goto, client, handler, database
<1>1. ASSUME NEW r \in Creates, Post(r) PROVE LineInv'
  BY <1>1 DEF Post
<1>2. ASSUME NEW r \in Creates, Begin(r) PROVE LineInv'
  BY <1>2 DEF Begin, Acquire
<1>3. ASSUME NEW r \in Creates, Inserted(r) PROVE LineInv'
  BY <1>3 DEF Inserted
<1>4. ASSUME NEW r \in Creates, Conflicted(r) PROVE LineInv'
  BY <1>4 DEF Conflicted
<1>5. ASSUME NEW r \in Creates, InsertItems(r) PROVE LineInv'
  BY <1>5 DEF InsertItems
<1>6. ASSUME NEW r \in Creates, Reload(r) PROVE LineInv'
  BY <1>6 DEF Reload, ScanOrder
<1>7. ASSUME NEW r \in Creates, LoadByKey(r) PROVE LineInv'
  BY <1>7 DEF LoadByKey, ScanOrder
<1>8. ASSUME NEW r \in Creates, AttachItems(r) PROVE LineInv'
  BY <1>8 DEF AttachItems
<1>9. ASSUME NEW r \in Creates, CommitAck(r) PROVE LineInv'
  BY <1>9 DEF CommitAck
<1>10. ASSUME NEW r \in Creates, DbError(r) PROVE LineInv'
  BY <1>10 DEF DbError, StatementFails
<1>11. ASSUME NEW r \in Creates, ConnLost(r) PROVE LineInv'
  BY <1>11 DEF ConnLost, StatementFails
<1>12. ASSUME NEW r \in Creates, Rollback(r) PROVE LineInv'
  BY <1>12 DEF Rollback, Abort
<1>13. ASSUME NEW r \in Creates, InsertRow(r) PROVE LineInv'
  BY <1>13 DEF InsertRow
<1>14. ASSUME NEW r \in Creates, InsertConflict(r) PROVE LineInv'
  BY <1>14 DEF InsertConflict
<1>15. ASSUME NEW r \in Creates, Commit(r) PROVE LineInv'
  BY <1>15 DEF Commit
<1>16. ASSUME NEW r \in Creates, ServerAbort(r) PROVE LineInv'
  BY <1>16 DEF ServerAbort, Abort
<1>17. ASSUME NEW r \in Reads, Get(r) PROVE LineInv'
  BY <1>17 DEF Get, Acknowledged
<1>18. ASSUME NEW r \in Reads, AcquireForRead(r) PROVE LineInv'
  BY <1>18 DEF AcquireForRead
<1>19. ASSUME NEW r \in Reads, ReadOrder(r) PROVE LineInv'
  BY <1>19 DEF ReadOrder
<1>20. ASSUME NEW r \in Reads, ReadItems(r) PROVE LineInv'
  BY <1>20 DEF ReadItems
<1>21. ASSUME NEW r \in Reads, QueryFails(r) PROVE LineInv'
  BY <1>21 DEF QueryFails
<1>22. ASSUME NEW r \in Requests, AcquireFails(r) PROVE LineInv'
  BY <1>22 DEF AcquireFails
<1>23. ASSUME NEW r \in Requests, Disconnect(r) PROVE LineInv'
  BY <1>23 DEF Disconnect
<1>24. ASSUME NEW i \in Instances, Crash(i) PROVE LineInv'
  BY <1>24 DEF Crash, InUse
<1>25. CASE UNCHANGED vars
  BY <1>25 DEF vars
<1> QED
  BY <1>1, <1>2, <1>3, <1>4, <1>5, <1>6, <1>7, <1>8, <1>9, <1>10, <1>11, <1>12, <1>13, <1>14,
     <1>15, <1>16, <1>17, <1>18, <1>19, <1>20, <1>21, <1>22, <1>23, <1>24, <1>25
     DEF Next, CreateStep, ReadStep, ServerStep, Finished

\* The loser of a race scans the committed winner, everyone else its own row.
LEMMA SeenStep ==
    TypeOK /\ StepInv /\ RowInv /\ RowInv' /\ LineInv /\ SeenInv /\ [Next]_vars => SeenInv'
<1> SUFFICES ASSUME TypeOK, StepInv, RowInv, RowInv', LineInv, SeenInv, [Next]_vars PROVE SeenInv'
  OBVIOUS
<1> USE RequestAssumption DEF TypeOK, StepInv, RowInv, LineInv, SeenInv, Orders, Visible, Requests, Busy, Waiting, Statements,
        Undoing, Querying, Outcomes, Undecided, Goto, client, handler, database
<1>1. ASSUME NEW r \in Creates, Post(r) PROVE SeenInv'
  BY <1>1 DEF Post
<1>2. ASSUME NEW r \in Creates, Begin(r) PROVE SeenInv'
  BY <1>2 DEF Begin, Acquire
<1>3. ASSUME NEW r \in Creates, Inserted(r) PROVE SeenInv'
  BY <1>3 DEF Inserted
<1>4. ASSUME NEW r \in Creates, Conflicted(r) PROVE SeenInv'
  BY <1>4 DEF Conflicted
<1>5. ASSUME NEW r \in Creates, InsertItems(r) PROVE SeenInv'
  BY <1>5 DEF InsertItems
<1>6. ASSUME NEW r \in Creates, Reload(r) PROVE SeenInv'
  BY <1>6 DEF Reload, ScanOrder
<1>7. ASSUME NEW r \in Creates, LoadByKey(r) PROVE SeenInv'
  BY <1>7 DEF LoadByKey, ScanOrder, SameKey
<1>8. ASSUME NEW r \in Creates, AttachItems(r) PROVE SeenInv'
  BY <1>8 DEF AttachItems
<1>9. ASSUME NEW r \in Creates, CommitAck(r) PROVE SeenInv'
  BY <1>9 DEF CommitAck
<1>10. ASSUME NEW r \in Creates, DbError(r) PROVE SeenInv'
  BY <1>10 DEF DbError, StatementFails
<1>11. ASSUME NEW r \in Creates, ConnLost(r) PROVE SeenInv'
  BY <1>11 DEF ConnLost, StatementFails
<1>12. ASSUME NEW r \in Creates, Rollback(r) PROVE SeenInv'
  BY <1>12 DEF Rollback, Abort
<1>13. ASSUME NEW r \in Creates, InsertRow(r) PROVE SeenInv'
  BY <1>13 DEF InsertRow
<1>14. ASSUME NEW r \in Creates, InsertConflict(r) PROVE SeenInv'
  BY <1>14 DEF InsertConflict, SameKey
<1>15. ASSUME NEW r \in Creates, Commit(r) PROVE SeenInv'
  BY <1>15 DEF Commit
<1>16. ASSUME NEW r \in Creates, ServerAbort(r) PROVE SeenInv'
  BY <1>16 DEF ServerAbort, Abort
<1>17. ASSUME NEW r \in Reads, Get(r) PROVE SeenInv'
  BY <1>17 DEF Get, Acknowledged
<1>18. ASSUME NEW r \in Reads, AcquireForRead(r) PROVE SeenInv'
  BY <1>18 DEF AcquireForRead
<1>19. ASSUME NEW r \in Reads, ReadOrder(r) PROVE SeenInv'
  BY <1>19 DEF ReadOrder
<1>20. ASSUME NEW r \in Reads, ReadItems(r) PROVE SeenInv'
  BY <1>20 DEF ReadItems
<1>21. ASSUME NEW r \in Reads, QueryFails(r) PROVE SeenInv'
  BY <1>21 DEF QueryFails
<1>22. ASSUME NEW r \in Requests, AcquireFails(r) PROVE SeenInv'
  BY <1>22 DEF AcquireFails
<1>23. ASSUME NEW r \in Requests, Disconnect(r) PROVE SeenInv'
  BY <1>23 DEF Disconnect
<1>24. ASSUME NEW i \in Instances, Crash(i) PROVE SeenInv'
  BY <1>24 DEF Crash, InUse
<1>25. CASE UNCHANGED vars
  BY <1>25 DEF vars
<1> QED
  BY <1>1, <1>2, <1>3, <1>4, <1>5, <1>6, <1>7, <1>8, <1>9, <1>10, <1>11, <1>12, <1>13, <1>14,
     <1>15, <1>16, <1>17, <1>18, <1>19, <1>20, <1>21, <1>22, <1>23, <1>24, <1>25
     DEF Next, CreateStep, ReadStep, ServerStep, Finished

\* What a client was told stays stored while GET makes its two queries.
LEMMA ReadInvStep ==
    TypeOK /\ StepInv /\ RowInv /\ LineInv /\ SeenInv /\ ReadInv /\ [Next]_vars => ReadInv'
<1> SUFFICES ASSUME TypeOK, StepInv, RowInv, LineInv, SeenInv, ReadInv, [Next]_vars PROVE ReadInv'
  OBVIOUS
<1> USE RequestAssumption DEF TypeOK, StepInv, RowInv, LineInv, SeenInv, ReadInv, Orders, Visible, Requests, Busy, Waiting, Statements,
        Undoing, Querying, Outcomes, Undecided, Goto, client, handler, database
<1>1. ASSUME NEW r \in Creates, Post(r) PROVE ReadInv'
  BY <1>1 DEF Post
<1>2. ASSUME NEW r \in Creates, Begin(r) PROVE ReadInv'
  BY <1>2 DEF Begin, Acquire
<1>3. ASSUME NEW r \in Creates, Inserted(r) PROVE ReadInv'
  BY <1>3 DEF Inserted
<1>4. ASSUME NEW r \in Creates, Conflicted(r) PROVE ReadInv'
  BY <1>4 DEF Conflicted
<1>5. ASSUME NEW r \in Creates, InsertItems(r) PROVE ReadInv'
  BY <1>5 DEF InsertItems
<1>6. ASSUME NEW r \in Creates, Reload(r) PROVE ReadInv'
  BY <1>6 DEF Reload, ScanOrder
<1>7. ASSUME NEW r \in Creates, LoadByKey(r) PROVE ReadInv'
  BY <1>7 DEF LoadByKey, ScanOrder
<1>8. ASSUME NEW r \in Creates, AttachItems(r) PROVE ReadInv'
  BY <1>8 DEF AttachItems
<1>9. ASSUME NEW r \in Creates, CommitAck(r) PROVE ReadInv'
  BY <1>9 DEF CommitAck
<1>10. ASSUME NEW r \in Creates, DbError(r) PROVE ReadInv'
  BY <1>10 DEF DbError, StatementFails
<1>11. ASSUME NEW r \in Creates, ConnLost(r) PROVE ReadInv'
  BY <1>11 DEF ConnLost, StatementFails
<1>12. ASSUME NEW r \in Creates, Rollback(r) PROVE ReadInv'
  BY <1>12 DEF Rollback, Abort
<1>13. ASSUME NEW r \in Creates, InsertRow(r) PROVE ReadInv'
  BY <1>13 DEF InsertRow
<1>14. ASSUME NEW r \in Creates, InsertConflict(r) PROVE ReadInv'
  BY <1>14 DEF InsertConflict
<1>15. ASSUME NEW r \in Creates, Commit(r) PROVE ReadInv'
  BY <1>15 DEF Commit
<1>16. ASSUME NEW r \in Creates, ServerAbort(r) PROVE ReadInv'
  BY <1>16 DEF ServerAbort, Abort
<1>17. ASSUME NEW r \in Reads, Get(r) PROVE ReadInv'
  BY <1>17 DEF Get, Acknowledged
<1>18. ASSUME NEW r \in Reads, AcquireForRead(r) PROVE ReadInv'
  BY <1>18 DEF AcquireForRead
<1>19. ASSUME NEW r \in Reads, ReadOrder(r) PROVE ReadInv'
  BY <1>19 DEF ReadOrder
<1>20. ASSUME NEW r \in Reads, ReadItems(r) PROVE ReadInv'
  BY <1>20 DEF ReadItems
<1>21. ASSUME NEW r \in Reads, QueryFails(r) PROVE ReadInv'
  BY <1>21 DEF QueryFails
<1>22. ASSUME NEW r \in Requests, AcquireFails(r) PROVE ReadInv'
  BY <1>22 DEF AcquireFails
<1>23. ASSUME NEW r \in Requests, Disconnect(r) PROVE ReadInv'
  BY <1>23 DEF Disconnect
<1>24. ASSUME NEW i \in Instances, Crash(i) PROVE ReadInv'
  BY <1>24 DEF Crash, InUse
<1>25. CASE UNCHANGED vars
  BY <1>25 DEF vars
<1> QED
  BY <1>1, <1>2, <1>3, <1>4, <1>5, <1>6, <1>7, <1>8, <1>9, <1>10, <1>11, <1>12, <1>13, <1>14,
     <1>15, <1>16, <1>17, <1>18, <1>19, <1>20, <1>21, <1>22, <1>23, <1>24, <1>25
     DEF Next, CreateStep, ReadStep, ServerStep, Finished

\* Every path through a handler returns the connection it took.
LEMMA HeldStep ==
    TypeOK /\ StepInv /\ HeldInv /\ [Next]_vars => HeldInv'
<1> SUFFICES ASSUME TypeOK, StepInv, HeldInv, [Next]_vars PROVE HeldInv'
  OBVIOUS
<1> USE RequestAssumption DEF TypeOK, StepInv, HeldInv, Requests, Busy, Waiting, Statements,
        Undoing, Querying, Outcomes, Undecided, Goto, client, handler, database
<1>1. ASSUME NEW r \in Creates, Post(r) PROVE HeldInv'
  BY <1>1 DEF Post
<1>2. ASSUME NEW r \in Creates, Begin(r) PROVE HeldInv'
  BY <1>2 DEF Begin, Acquire
<1>3. ASSUME NEW r \in Creates, Inserted(r) PROVE HeldInv'
  BY <1>3 DEF Inserted
<1>4. ASSUME NEW r \in Creates, Conflicted(r) PROVE HeldInv'
  BY <1>4 DEF Conflicted
<1>5. ASSUME NEW r \in Creates, InsertItems(r) PROVE HeldInv'
  BY <1>5 DEF InsertItems
<1>6. ASSUME NEW r \in Creates, Reload(r) PROVE HeldInv'
  BY <1>6 DEF Reload, ScanOrder
<1>7. ASSUME NEW r \in Creates, LoadByKey(r) PROVE HeldInv'
  BY <1>7 DEF LoadByKey, ScanOrder
<1>8. ASSUME NEW r \in Creates, AttachItems(r) PROVE HeldInv'
  BY <1>8 DEF AttachItems
<1>9. ASSUME NEW r \in Creates, CommitAck(r) PROVE HeldInv'
  BY <1>9 DEF CommitAck, Release
<1>10. ASSUME NEW r \in Creates, DbError(r) PROVE HeldInv'
  BY <1>10 DEF DbError, StatementFails, Release
<1>11. ASSUME NEW r \in Creates, ConnLost(r) PROVE HeldInv'
  BY <1>11 DEF ConnLost, StatementFails, Release
<1>12. ASSUME NEW r \in Creates, Rollback(r) PROVE HeldInv'
  BY <1>12 DEF Rollback, Release
<1>13. ASSUME NEW r \in Creates, InsertRow(r) PROVE HeldInv'
  BY <1>13 DEF InsertRow
<1>14. ASSUME NEW r \in Creates, InsertConflict(r) PROVE HeldInv'
  BY <1>14 DEF InsertConflict
<1>15. ASSUME NEW r \in Creates, Commit(r) PROVE HeldInv'
  BY <1>15 DEF Commit
<1>16. ASSUME NEW r \in Creates, ServerAbort(r) PROVE HeldInv'
  BY <1>16 DEF ServerAbort
<1>17. ASSUME NEW r \in Reads, Get(r) PROVE HeldInv'
  BY <1>17 DEF Get
<1>18. ASSUME NEW r \in Reads, AcquireForRead(r) PROVE HeldInv'
  BY <1>18 DEF AcquireForRead, Acquire
<1>19. ASSUME NEW r \in Reads, ReadOrder(r) PROVE HeldInv'
  BY <1>19 DEF ReadOrder, Release
<1>20. ASSUME NEW r \in Reads, ReadItems(r) PROVE HeldInv'
  BY <1>20 DEF ReadItems, Release
<1>21. ASSUME NEW r \in Reads, QueryFails(r) PROVE HeldInv'
  BY <1>21 DEF QueryFails, Release
<1>22. ASSUME NEW r \in Requests, AcquireFails(r) PROVE HeldInv'
  BY <1>22 DEF AcquireFails
<1>23. ASSUME NEW r \in Requests, Disconnect(r) PROVE HeldInv'
  BY <1>23 DEF Disconnect, Release
<1>24. ASSUME NEW i \in Instances, Crash(i) PROVE HeldInv'
  BY <1>24 DEF Crash, InUse
<1>25. CASE UNCHANGED vars
  BY <1>25 DEF vars
<1> QED
  BY <1>1, <1>2, <1>3, <1>4, <1>5, <1>6, <1>7, <1>8, <1>9, <1>10, <1>11, <1>12, <1>13, <1>14,
     <1>15, <1>16, <1>17, <1>18, <1>19, <1>20, <1>21, <1>22, <1>23, <1>24, <1>25
     DEF Next, CreateStep, ReadStep, ServerStep, Finished

\* The pool hands out a connection only when one is free, and every other step
\* keeps held or takes requests out of it.
LEMMA BoundStep ==
    TypeOK /\ BoundInv /\ [Next]_vars => BoundInv'
<1> SUFFICES ASSUME TypeOK, BoundInv, [Next]_vars PROVE BoundInv'
  OBVIOUS
<1> USE DEF BoundInv
<1>1. /\ \A i \in Instances : IsFiniteSet(InUse(i)) /\ Cardinality(InUse(i)) \in Nat
      /\ PoolMax \in Nat
  <2>1. \A i \in Instances : InUse(i) \subseteq Creates \cup Reads
    BY DEF InUse, TypeOK, Requests
  <2> QED
    BY <2>1, PoolAssumption, RequestAssumption, FS_Subset, FS_CardinalityType
<1>2. ASSUME held' \subseteq held, at' = at PROVE BoundInv'
  <2> SUFFICES ASSUME NEW i \in Instances PROVE Cardinality(InUse(i)') <= PoolMax
    BY DEF InUse
  <2>1. InUse(i)' \subseteq InUse(i)
    BY <1>2 DEF InUse
  <2>2. Cardinality(InUse(i)') <= Cardinality(InUse(i)) /\ Cardinality(InUse(i)') \in Nat
    BY <1>1, <2>1, FS_Subset, FS_CardinalityType
  <2> QED
    BY <1>1, <2>2
<1>3. ASSUME NEW r \in Requests, Acquire(r), at' = at PROVE BoundInv'
  <2> SUFFICES ASSUME NEW i \in Instances PROVE Cardinality(InUse(i)') <= PoolMax
    BY DEF InUse
  <2>1. CASE i = at[r]
    <3>1. InUse(i)' = InUse(i) \cup {r}
      BY <1>3, <2>1 DEF Acquire, InUse
    <3>2. /\ Cardinality(InUse(i) \cup {r}) <= Cardinality(InUse(i)) + 1
          /\ Cardinality(InUse(i) \cup {r}) \in Nat
      <4>1. Cardinality(InUse(i) \cup {r}) =
               IF r \in InUse(i) THEN Cardinality(InUse(i)) ELSE Cardinality(InUse(i)) + 1
        BY <1>1, FS_AddElement, Zenon
      <4> QED
        BY <1>1, <4>1
    <3> QED
      BY <1>1, <1>3, <2>1, <3>1, <3>2 DEF Acquire
  <2>2. CASE i # at[r]
    <3>1. InUse(i)' = InUse(i)
      BY <1>3, <2>2 DEF Acquire, InUse
    <3> QED
      BY <3>1
  <2> QED
    BY <2>1, <2>2
<1>4. /\ at' = at
      /\ held' \subseteq held \/ \E r \in Requests : Acquire(r)
  BY DEF Next, CreateStep, ReadStep, ServerStep, Finished, Post, Begin, Inserted,
         Conflicted, InsertItems, Reload, LoadByKey, AttachItems, CommitAck,
         DbError, ConnLost, StatementFails, Rollback, InsertRow, InsertConflict,
         Commit, ServerAbort, Get, AcquireForRead, ReadOrder, ReadItems,
         QueryFails, AcquireFails, Disconnect, Crash, Release, Requests,
         ScanOrder, Goto, Abort, client, handler, vars
<1> QED
  BY <1>2, <1>3, <1>4

\* The inductive invariant, from its layers.
THEOREM Invariance == Spec => []IInv
<1>1. Init => IInv
  <2> SUFFICES ASSUME Init PROVE IInv
    OBVIOUS
  <2>1. TypeOK
    BY RequestAssumption DEF Init, TypeOK, Requests
  <2>2. StepInv /\ RowInv /\ LineInv /\ SeenInv /\ ReadInv /\ HeldInv
    BY RequestAssumption
       DEF Init, StepInv, RowInv, LineInv, SeenInv, ReadInv, HeldInv, Requests,
           Statements, Undoing, Querying
  <2>3. BoundInv
    <3>1. \A i \in Instances : InUse(i) = {}
      BY DEF Init, InUse
    <3> QED
      BY <3>1, PoolAssumption, FS_EmptySet DEF BoundInv
  <2> QED
    BY <2>1, <2>2, <2>3 DEF IInv
<1>2. TypeOK' /\ IInv /\ [Next]_vars => IInv'
  <2>1. TypeOK' /\ IInv /\ [Next]_vars => RowInv'
    BY RowStep DEF IInv
  <2> QED
    BY <2>1, StepStep, LineStep, SeenStep, ReadInvStep, HeldStep, BoundStep DEF IInv
<1> QED
  BY <1>1, <1>2, TypeCorrect, PTL DEF Spec

\* Creates with one key store one order, however they race and fail
\* (order-postgres.go:71-76).
THEOREM OneOrderPerKey == Spec => []AtMostOneOrderPerKey
<1>1. IInv => AtMostOneOrderPerKey
  BY DEF IInv, RowInv, AtMostOneOrderPerKey, Orders
<1> QED
  BY <1>1, Invariance, PTL

\* All successful answers for a key name one order and at most one is a 201
\* (order-handler.go:36-40).
THEOREM OneAnswerPerKey == Spec => []SameAnswerPerKey
<1>1. IInv => SameAnswerPerKey
  BY DEF IInv, TypeOK, StepInv, RowInv, SeenInv, SameAnswerPerKey, Visible
<1> QED
  BY <1>1, Invariance, PTL

\* A success is stored, complete, and for the key that was asked.
THEOREM SuccessIsStored == Spec => []AcknowledgedIsStored
<1>1. IInv => AcknowledgedIsStored
  <2> SUFFICES ASSUME IInv, NEW r \in Requests,
                      pc[r] \in {"created", "replayed", "found"}
               PROVE  /\ seen[r] \in Orders \cap lines
                      /\ r \in full
                      /\ r \in Creates => key[seen[r]] = key[r]
                      /\ r \in Creates => (pc[r] = "created" <=> seen[r] = r)
    BY DEF AcknowledgedIsStored
  <2>1. CASE r \in Creates
    BY <2>1 DEF IInv, TypeOK, StepInv, RowInv, LineInv, SeenInv, Visible, Orders
  <2>2. CASE r \in Reads
    BY <2>2, RequestAssumption
       DEF IInv, ReadInv, LineInv, RowInv, Orders, Querying
  <2> QED
    BY <2>1, <2>2 DEF Requests
<1> QED
  BY <1>1, Invariance, PTL

\* A create never ends in 404, a read only when its id names no order.
THEOREM NotFoundIsUnknown == Spec => []NotFoundMeansUnknown
<1>1. IInv => NotFoundMeansUnknown
  BY DEF IInv, SeenInv, ReadInv, NotFoundMeansUnknown, Requests
<1> QED
  BY <1>1, Invariance, PTL

\* No early return of a handler leaks a connection.
THEOREM ConnectionsReturn == Spec => []PoolAccounting
<1>1. IInv => PoolAccounting
  BY DEF IInv, HeldInv, BoundInv, PoolAccounting
<1> QED
  BY <1>1, Invariance, PTL

\* Nothing that happens after the COMMIT of an order removes it or its lines.
THEOREM OrdersStay == Spec => StoredForever
<1>1. IInv /\ [Next]_vars => [Orders \subseteq Orders' /\ Orders \cap lines \subseteq lines']_vars
  <2> SUFFICES ASSUME IInv, Next
               PROVE  Orders \subseteq Orders' /\ Orders \cap lines \subseteq lines'
    OBVIOUS
  <2> USE DEF Orders, client, handler, database
  <2>1. ASSUME NEW r \in Creates, Rollback(r) \/ ServerAbort(r)
        PROVE  Orders \subseteq Orders' /\ Orders \cap lines \subseteq lines'
    BY <2>1 DEF IInv, TypeOK, StepInv, Rollback, ServerAbort, Abort, Undoing, Undecided
  <2>2. ASSUME NEW r \in Creates,
               \/ Begin(r) \/ AttachItems(r) \/ InsertRow(r) \/ InsertConflict(r)
               \/ Commit(r) \/ InsertItems(r)
        PROVE  Orders \subseteq Orders' /\ Orders \cap lines \subseteq lines'
    BY <2>2 DEF IInv, TypeOK, StepInv, Begin, AttachItems, InsertRow,
                InsertConflict, Commit, InsertItems
  <2>3. CASE UNCHANGED database
    BY <2>3
  <2> QED
    BY <2>1, <2>2, <2>3
       DEF Next, CreateStep, ReadStep, ServerStep, Finished, vars, Post, Inserted,
           Conflicted, Reload, LoadByKey, CommitAck, DbError, ConnLost,
           StatementFails, Get, AcquireForRead, ReadOrder, ReadItems, QueryFails,
           AcquireFails, Disconnect, Crash
<1> QED
  BY <1>1, Invariance, PTL DEF Spec, StoredForever
=============================================================================
