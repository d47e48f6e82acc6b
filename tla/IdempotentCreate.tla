-------------------------- MODULE IdempotentCreate --------------------------
(***************************************************************************)
(* What POST /orders and GET /orders/{id} promise their clients, with no   *)
(* pool, transaction or statement in sight: one table with at most one     *)
(* order per Idempotency-Key, in which a create takes effect at once, at   *)
(* some point after it was sent.                                           *)
(*                                                                         *)
(* A create whose client was told of a failure, or never heard, may have   *)
(* taken effect and may still do so.                                       *)
(***************************************************************************)
CONSTANTS Creates, Reads, Keys, NoOrder

VARIABLES
    key,        \* the Idempotency-Key each create carries
    target,     \* the order id each read asks for
    status,     \* "idle", "pending" or how the request ended
    answer,     \* the order a successful answer carries
    store       \* the order of each key, NoOrder while it has none

vars == <<key, target, status, answer, store>>

Requests == Creates \cup Reads
Successes == {"created", "replayed", "found"}
Statuses == Successes \cup {"idle", "pending", "notFound", "failed", "lost"}

\* The ids clients have been told.
Acknowledged == {answer[r] : r \in {c \in Creates : status[c] \in Successes}}

Init ==
    /\ key \in [Creates -> Keys]
    /\ target = [g \in Reads |-> NoOrder]
    /\ status = [r \in Requests |-> "idle"]
    /\ answer = [r \in Requests |-> NoOrder]
    /\ store = [k \in Keys |-> NoOrder]

Answer(r, outcome, order) ==
    /\ status[r] = "pending"
    /\ status' = [status EXCEPT ![r] = outcome]
    /\ answer' = [answer EXCEPT ![r] = order]
    /\ UNCHANGED <<key, target, store>>

SendCreate(r) ==
    /\ status[r] = "idle"
    /\ status' = [status EXCEPT ![r] = "pending"]
    /\ UNCHANGED <<key, target, answer, store>>

SendRead(g) ==
    /\ status[g] = "idle"
    /\ status' = [status EXCEPT ![g] = "pending"]
    /\ \E id \in Acknowledged \cup {NoOrder} : target' = [target EXCEPT ![g] = id]
    /\ UNCHANGED <<key, answer, store>>

\* The one instant at which a create changes the table.
TakeEffect(r) ==
    /\ status[r] \in {"pending", "failed", "lost"}
    /\ store[key[r]] = NoOrder
    /\ store' = [store EXCEPT ![key[r]] = r]
    /\ UNCHANGED <<key, target, status, answer>>

\* 201 to the create that made the order, 200 with that order to the others.
AnswerCreated(r) == store[key[r]] = r /\ Answer(r, "created", r)

AnswerReplayed(r) ==
    /\ store[key[r]] \notin {NoOrder, r}
    /\ Answer(r, "replayed", store[key[r]])

\* 200 for an order that is stored, 404 only for an id that names none.
AnswerFound(g) ==
    /\ \E k \in Keys : store[k] = target[g]
    /\ target[g] # NoOrder
    /\ Answer(g, "found", target[g])

AnswerNotFound(g) ==
    /\ target[g] = NoOrder
    /\ Answer(g, "notFound", NoOrder)

AnswerFailed(r) == Answer(r, "failed", NoOrder)

\* Clients go away one by one, or all that wait when the service crashes.
Lose ==
    \E some \in SUBSET {r \in Requests : status[r] = "pending"} :
        /\ some # {}
        /\ status' = [r \in Requests |-> IF r \in some THEN "lost" ELSE status[r]]
        /\ UNCHANGED <<key, target, answer, store>>

Next ==
    \/ \E r \in Creates : SendCreate(r) \/ TakeEffect(r)
    \/ \E r \in Creates : AnswerCreated(r) \/ AnswerReplayed(r)
    \/ \E g \in Reads : SendRead(g) \/ AnswerFound(g) \/ AnswerNotFound(g)
    \/ \E r \in Requests : AnswerFailed(r)
    \/ Lose

Spec == Init /\ [][Next]_vars
=============================================================================
