------------------------ MODULE OrderRepoRefinement ------------------------
(***************************************************************************)
(* OrderRepo implements IdempotentCreate.  A create takes effect when the  *)
(* server commits the transaction that inserted its row; the table of the  *)
(* abstract service is the committed part of table orders.                 *)
(***************************************************************************)
EXTENDS OrderRepo

\* How far the client of r knows it to be.
statusBar ==
    [r \in Requests |-> IF pc[r] \in Busy THEN "pending" ELSE pc[r]]

\* The order in the response body, if the response has one.
answerBar ==
    [r \in Requests |-> IF pc[r] \in {"created", "replayed", "found"}
                        THEN seen[r] ELSE NoOrder]

storeBar ==
    [k \in Keys |-> IF \E o \in Orders : key[o] = k
                    THEN CHOOSE o \in Orders : key[o] = k ELSE NoOrder]

Abstract == INSTANCE IdempotentCreate
                WITH status <- statusBar, answer <- answerBar, store <- storeBar

\* Every step of the handlers, the database and the failures is a step of the
\* atomic service or changes nothing a client can observe
\* (order-postgres.go:71-128 against order-handler.go:36-40).
ImplementsIdempotentCreate == Abstract!Spec
=============================================================================
