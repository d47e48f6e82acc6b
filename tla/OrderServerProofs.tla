------------------------- MODULE OrderServerProofs -------------------------
(***************************************************************************)
(* Theorems about OrderServer for every set of requests and every number   *)
(* of connect attempts.                                                    *)
(***************************************************************************)
EXTENDS OrderServer, TLAPS

\* What the position of the main goroutine says about the rest.
PhaseInv ==
    /\ main \in Connecting \cup {"probing"} => listener = "off"
    /\ main = "backoff" => attempt < ConnAttempts
    /\ main \in {"draining", "closing"} => listener \in {"stopped", "failed"}
    /\ exit # "none" <=> main \in {"closing", "exited"}
    /\ exit = "ok" \/ main = "draining" => signalled
    /\ main = "exited" /\ exit \notin EarlyExits => listener \in {"stopped", "failed"}
    /\ main = "closing" => exit \notin EarlyExits

\* A request meets a closing pool only after the drain has been given up.
RequestInv ==
    /\ exit \in {"none", "ok"} =>
           \A r \in Requests : req[r] \notin {"poolError", "cut"}
    /\ exit = "ok" => \A r \in Requests : req[r] \notin InFlight
    /\ exit = "drain" => elapsed
    /\ exit \in EarlyExits \/ main \in Connecting \cup {"probing"} =>
           \A r \in Requests : req[r] = "idle"

IInv == TypeOK /\ NoPoolLeaks /\ PhaseInv /\ RequestInv

\* The inductive invariant, one step per action.
THEOREM Invariance == Spec => []IInv
<1> USE ConnAttemptsAssumption
    DEF IInv, TypeOK, NoPoolLeaks, PhaseInv, RequestInv, Connecting, EarlyExits, InFlight,
        Ended, network, ExitEarly
<1>1. Init => IInv
  <2> SUFFICES ASSUME Init PROVE IInv
    OBVIOUS
  <2>1. attempt \in 1..ConnAttempts /\ pools \in Nat
    BY DEF Init
  <2>2. req \in [Requests -> {"idle"} \cup InFlight \cup Ended]
    BY DEF Init
  <2> QED
    BY <2>1, <2>2 DEF Init
<1>2. IInv /\ [Next]_vars => IInv'
  <2> SUFFICES ASSUME IInv, [Next]_vars PROVE IInv'
    OBVIOUS
  <2>1. CASE OpenPool
    BY <2>1 DEF OpenPool
  <2>2. CASE OpenFails
    BY <2>2 DEF OpenFails, RetryOrGiveUp
  <2>3. CASE PingFails
    BY <2>3 DEF PingFails, RetryOrGiveUp
  <2>4. CASE Serve
    BY <2>4 DEF Serve
  <2>5. CASE BackoffElapsed
    BY <2>5 DEF BackoffElapsed
  <2>6. CASE BackoffCancelled
    BY <2>6 DEF BackoffCancelled
  <2>7. CASE StartDrain
    BY <2>7 DEF StartDrain
  <2>8. CASE ServeError
    BY <2>8 DEF ServeError
  <2>9. CASE DrainDone
    BY <2>9 DEF DrainDone
  <2>10. CASE DrainTimesOut
    BY <2>10 DEF DrainTimesOut
  <2>11. CASE ClosePool
    BY <2>11 DEF ClosePool
  <2>12. CASE Bind
    BY <2>12 DEF Bind
  <2>13. CASE ServeFails
    BY <2>13 DEF ServeFails
  <2>14. CASE Signal
    BY <2>14 DEF Signal
  <2>15. CASE TimeoutElapses
    BY <2>15 DEF TimeoutElapses
  <2>16. ASSUME NEW r \in Requests, Arrive(r) PROVE IInv'
    <3>1. listener \in {"listening", "failed"} /\ exit \notin EarlyExits \cup {"ok"}
      BY <2>16 DEF Arrive, KeptAlive, RequestStep
    <3>2. main # "exited" /\ req' = [req EXCEPT ![r] = "running"]
          /\ UNCHANGED <<main, attempt, pools, signalled, listener, elapsed, exit>>
      BY <2>16 DEF Arrive, RequestStep
    <3> QED
      BY <3>1, <3>2
  <2>17. ASSUME NEW r \in Requests, TakeConn(r) PROVE IInv'
    BY <2>17 DEF TakeConn, RequestStep
  <2>18. ASSUME NEW r \in Requests, PoolRefuses(r) PROVE IInv'
    BY <2>18 DEF PoolRefuses, RequestStep
  <2>19. ASSUME NEW r \in Requests, ReturnConn(r) PROVE IInv'
    BY <2>19 DEF ReturnConn, RequestStep
  <2>20. ASSUME NEW r \in Requests, Reject(r) PROVE IInv'
    BY <2>20 DEF Reject, RequestStep
  <2>21. ASSUME NEW r \in Requests, Reply(r) PROVE IInv'
    BY <2>21 DEF Reply, RequestStep
  <2>22. CASE ConfigFails
    BY <2>22 DEF ConfigFails
  <2>23. CASE Configured
    BY <2>23 DEF Configured
  <2>24. CASE UrlAccepted
    BY <2>24 DEF UrlAccepted
  <2>25. CASE UrlRejected
    BY <2>25 DEF UrlRejected
  <2>26. CASE PingSucceeds
    BY <2>26 DEF PingSucceeds
  <2>27. CASE KilledWhileLoading
    BY <2>27 DEF KilledWhileLoading
  <2>28. CASE UNCHANGED vars
    BY <2>28 DEF vars
  <2> HIDE DEF IInv, TypeOK, NoPoolLeaks, PhaseInv, RequestInv
  <2> QED
    BY <2>1, <2>2, <2>3, <2>4, <2>5, <2>6, <2>7, <2>8, <2>9, <2>10, <2>11,
       <2>12, <2>13, <2>14, <2>15, <2>16, <2>17, <2>18, <2>19, <2>20, <2>21, <2>22,
       <2>23, <2>24, <2>25, <2>26, <2>27, <2>28
       DEF Next, MainStep, HandlerStep, Exited, VersionCancelled
<1> HIDE DEF IInv
<1> QED
  BY <1>1, <1>2, PTL DEF Spec

\* The variables keep their types; the attempt never passes ConnAttempts
\* (postgres.go:104).
THEOREM TypeCorrect == Spec => []TypeOK
<1>1. IInv => TypeOK
  BY DEF IInv
<1> QED
  BY <1>1, Invariance, PTL

\* No failed attempt and no shutdown leaves a pool open (postgres.go:147-149,
\* app.go:66).
THEOREM PoolsAreClosed == Spec => []NoPoolLeaks
<1>1. IInv => NoPoolLeaks
  BY DEF IInv
<1> QED
  BY <1>1, Invariance, PTL

\* Run returns nil only when every request it accepted was answered
\* (app.go:88-109).
THEOREM CleanExit == Spec => []CleanExitIsGraceful
<1>1. IInv => CleanExitIsGraceful
  BY DEF IInv, TypeOK, RequestInv, PhaseInv, InFlight, Ended, CleanExitIsGraceful, Connecting, EarlyExits
<1> QED
  BY <1>1, Invariance, PTL

\* No request suffers from a shutdown before shutdownTimeout has passed
\* (server.go:80-89).
THEOREM DrainHolds == Spec => []DrainKeepsItsPromise
<1>1. IInv => DrainKeepsItsPromise
  BY DEF IInv, TypeOK, RequestInv, PhaseInv, DrainKeepsItsPromise, Connecting, EarlyExits,
     InFlight, Ended
<1> QED
  BY <1>1, Invariance, PTL
=============================================================================
