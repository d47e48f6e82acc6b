----------------------------- MODULE OrderApi ------------------------------
(***************************************************************************)
(* The HTTP side of the order service (internal/order/controller/http and  *)
(* pkg/jwt): POST /login, POST /orders and GET /orders/{id} from the       *)
(* request to the answer.  The use case and what is below it are           *)
(* IdempotentCreate, which OrderRepo implements.                           *)
(*                                                                         *)
(* A call is one HTTP request; its retry is another call.  Time is an      *)
(* integer: Second of its units are what a token's dates can tell apart.   *)
(***************************************************************************)
EXTENDS Integers

CONSTANTS
    Creates,    \* POST /orders calls
    Reads,      \* GET /orders/{id} calls
    Logins,     \* POST /login calls; a token is named by its login
    Users,      \* user ids
    Keys,       \* Idempotency-Key header values
    NoOrder,    \* the id of no order
    NoUser,     \* UserIDFromContext's "", and the subject of no token
    NoLogin,    \* no bearer token in the Authorization header
    Forged,     \* a bearer token that no login has issued
    Lifetime,   \* JWT_TOKEN_EXPIRY
    Second,     \* jwt.TimePrecision
    Horizon     \* where the clock stops, a bound of the instance

ASSUME TimeAssumption ==
    Lifetime \in Nat \ {0} /\ Second \in Nat \ {0} /\ Horizon \in Nat

ASSUME CallAssumption ==
    /\ Creates \cap Reads = {} /\ Creates \cap Logins = {} /\ Reads \cap Logins = {}
    /\ NoOrder \notin Creates /\ NoUser \notin Users
    /\ NoLogin \notin Logins /\ Forged \notin Logins /\ Forged # NoLogin

VARIABLES
    key, target, status, answer, store,     \* of IdempotentCreate
    now,        \* the clock
    ask,        \* what each call carries
    stage,      \* where each call's handler is
    clock,      \* what time.Now gave the handler of each call
    token,      \* the claims of each login's token
    user,       \* the user id in each call's context
    reply,      \* the code of each call's answer
    traced,     \* the calls whose context and answer carry a trace id
    untraced    \* the calls that have written a log line without one

useCase == <<key, target, status, answer, store>>
context == <<clock, token, user>>
vars == <<useCase, context, now, ask, stage, reply, traced, untraced>>

UseCase == INSTANCE IdempotentCreate

Requests == Creates \cup Reads
Calls == Requests \cup Logins

Unauthorized == {"missing_token", "invalid_token"}
Successes == {"created", "replayed", "found"}
Replies == Unauthorized \cup Successes
              \cup {"none", "token", "bad_request", "order_not_found", "internal_error"}

Working == {"auth", "handling", "calling"}
Ended == {"heard", "lost"}

\* "sound": path, headers and body pass every check of the handler.
Blank == [sound |-> TRUE, cred |-> NoLogin, who |-> NoUser, id |-> NoOrder]
NoClaims == [subject |-> NoUser, exp |-> 0]

\* The logins whose token a client holds, and the order ids clients were told.
Held == {l \in Logins : stage[l] = "heard" /\ reply[l] = "token"}
Told == {answer[c] : c \in {d \in Creates : stage[d] = "heard" /\ reply[d] \in Successes}}

Init ==
    /\ UseCase!Init
    /\ now = 0
    /\ ask = [c \in Calls |-> Blank]
    /\ stage = [c \in Calls |-> "idle"]
    /\ clock = [c \in Calls |-> 0]
    /\ token = [l \in Logins |-> NoClaims]
    /\ user = [c \in Requests |-> NoUser]
    /\ reply = [c \in Calls |-> "none"]
    /\ traced = {}
    /\ untraced = {}

Goto(c, next) == stage' = [stage EXCEPT ![c] = next]

ReadClock(c) == clock' = [clock EXCEPT ![c] = now]

\* writeJSON and writeError: the handler is done but for the write.
Answer(c, code) ==
    /\ reply' = [reply EXCEPT ![c] = code]
    /\ Goto(c, "answered")

\* A log line with TraceIDFromContext.
Log(c) == untraced' = IF c \in traced THEN untraced ELSE untraced \cup {c}

Tick ==
    /\ now < Horizon
    /\ now' = now + 1
    /\ UNCHANGED <<useCase, context, ask, stage, reply, traced, untraced>>

(***************************************************************************)
(* The router, withTraceID and authMiddleware.                             *)
(***************************************************************************)
\* Every route is traced, /login is public.
Receive(c, sent, first) ==
    /\ stage[c] = "idle"
    /\ ask' = [ask EXCEPT ![c] = sent]
    /\ Goto(c, first)
    /\ traced' = traced \cup {c}
    /\ UNCHANGED <<useCase, context, now, reply, untraced>>

ReceiveLogin(l) ==
    \E sound \in BOOLEAN, who \in Users :
        Receive(l, [Blank EXCEPT !.sound = sound, !.who = who], "handling")

ReceiveCreate(c) ==
    \E sound \in BOOLEAN, cred \in Held \cup {NoLogin, Forged} :
        Receive(c, [Blank EXCEPT !.sound = sound, !.cred = cred], "auth")

ReceiveRead(g) ==
    \E sound \in BOOLEAN, cred \in Held \cup {NoLogin, Forged},
       id \in Told \cup {NoOrder} :
        Receive(g, [Blank EXCEPT !.sound = sound, !.cred = cred, !.id = id], "auth")

\* Mutant: the expiry is not looked at.
ParseForEver(cred) == IF cred \in Logins THEN token[cred].subject ELSE NoUser

\* Mutant: the expiry itself still counts.
ParseInclusive(cred) ==
    IF cred \in Logins /\ now <= token[cred].exp THEN token[cred].subject ELSE NoUser

\* The subject, or ErrInvalidToken: a token this service has not signed, or
\* whose exp has come.
Parse(cred) ==
    IF cred \in Logins /\ now < token[cred].exp THEN token[cred].subject ELSE NoUser

MissingToken(c) ==
    /\ stage[c] = "auth" /\ ask[c].cred = NoLogin
    /\ Answer(c, "missing_token")
    /\ UNCHANGED <<useCase, context, now, ask, traced, untraced>>

\* Mutant: no return after writeError, the handler runs as well.
InvalidTokenFallsThrough(c) ==
    /\ stage[c] = "auth" /\ ask[c].cred # NoLogin
    /\ Parse(ask[c].cred) = NoUser
    /\ ReadClock(c)
    /\ reply' = [reply EXCEPT ![c] = "invalid_token"]
    /\ Goto(c, "handling")
    /\ UNCHANGED <<useCase, now, ask, token, user, traced, untraced>>

InvalidToken(c) ==
    /\ stage[c] = "auth" /\ ask[c].cred # NoLogin
    /\ Parse(ask[c].cred) = NoUser
    /\ ReadClock(c)
    /\ Answer(c, "invalid_token")
    /\ UNCHANGED <<useCase, now, ask, token, user, traced, untraced>>

\* Mutant: WithUserID gets the token in place of the user id.
AuthenticatedAsToken(c) ==
    /\ stage[c] = "auth" /\ ask[c].cred # NoLogin
    /\ Parse(ask[c].cred) # NoUser
    /\ ReadClock(c)
    /\ user' = [user EXCEPT ![c] = ask[c].cred]
    /\ Goto(c, "handling")
    /\ Log(c)
    /\ UNCHANGED <<useCase, now, ask, token, reply, traced>>

Authenticated(c) ==
    /\ stage[c] = "auth" /\ ask[c].cred # NoLogin
    /\ Parse(ask[c].cred) # NoUser
    /\ ReadClock(c)
    /\ user' = [user EXCEPT ![c] = Parse(ask[c].cred)]
    /\ Goto(c, "handling")
    /\ Log(c)
    /\ UNCHANGED <<useCase, now, ask, token, reply, traced>>

(***************************************************************************)
(* loginHandler.issue.                                                     *)
(***************************************************************************)
\* NewNumericDate truncates.
NumericDate(t) == t - (t % Second)

\* Mutant: exp is the second after.
GenerateRoundedUp(who) ==
    [subject |-> who, exp |-> NumericDate(now + Lifetime) + Second]

\* Signing with a []byte secret cannot fail.
Generate(who) == [subject |-> who, exp |-> NumericDate(now + Lifetime)]

RefuseLogin(l) ==
    /\ stage[l] = "handling" /\ ~ask[l].sound
    /\ Answer(l, "bad_request")
    /\ UNCHANGED <<useCase, context, now, ask, traced, untraced>>

Issue(l) ==
    /\ stage[l] = "handling" /\ ask[l].sound
    /\ ReadClock(l)
    /\ token' = [token EXCEPT ![l] = Generate(ask[l].who)]
    /\ Answer(l, "token")
    /\ UNCHANGED <<useCase, now, ask, user, traced, untraced>>

(***************************************************************************)
(* orderHandler.create and getByID.                                        *)
(***************************************************************************)
\* Mutant: a body of any length is read to its end, which need not come.
RefuseRequestUnbounded(c) == FALSE

\* 400 from the first check that fails: the id of a read; of a create the key,
\* decodeJSON, the validator, and NewOrder's ErrInvalidOrder.
RefuseRequest(c) ==
    /\ stage[c] = "handling" /\ ~ask[c].sound
    /\ Answer(c, "bad_request")
    /\ UNCHANGED <<useCase, context, now, ask, traced, untraced>>

\* Mutant: the answer to a failed validation is written, and the call made.
CallCreateRegardless(c) ==
    /\ stage[c] = "handling"
    /\ UseCase!SendCreate(c)
    /\ Goto(c, "calling")
    /\ UNCHANGED <<context, now, ask, reply, traced, untraced>>

CallCreate(c) ==
    /\ stage[c] = "handling" /\ ask[c].sound
    /\ UseCase!SendCreate(c)
    /\ Goto(c, "calling")
    /\ UNCHANGED <<context, now, ask, reply, traced, untraced>>

\* Mutant: the id is not taken from the request's own path.
CallGetByIDOfAnother(g) ==
    /\ stage[g] = "handling" /\ ask[g].sound
    /\ UseCase!SendRead(g)
    /\ Goto(g, "calling")
    /\ UNCHANGED <<context, now, ask, reply, traced, untraced>>

CallGetByID(g) ==
    /\ stage[g] = "handling" /\ ask[g].sound
    /\ UseCase!SendRead(g) /\ target'[g] = ask[g].id
    /\ Goto(g, "calling")
    /\ UNCHANGED <<context, now, ask, reply, traced, untraced>>

\* The statement of a create reaches the table, perhaps after its handler has
\* given up.
TakeEffect(c) ==
    /\ UseCase!TakeEffect(c)
    /\ UNCHANGED <<context, now, ask, stage, reply, traced, untraced>>

\* 201 and 200 to a create.
RespondCreated(c) ==
    /\ UseCase!AnswerCreated(c)
    /\ Answer(c, "created") /\ Log(c)
    /\ UNCHANGED <<context, now, ask, traced>>

RespondReplayed(c) ==
    /\ UseCase!AnswerReplayed(c)
    /\ Answer(c, "replayed") /\ Log(c)
    /\ UNCHANGED <<context, now, ask, traced>>

RespondFound(g) ==
    /\ UseCase!AnswerFound(g)
    /\ Answer(g, "found")
    /\ UNCHANGED <<context, now, ask, traced, untraced>>

\* writeUseCaseError, with ErrOrderNotFound and with any other error.
RespondNotFound(g) ==
    /\ UseCase!AnswerNotFound(g)
    /\ Answer(g, "order_not_found")
    /\ UNCHANGED <<context, now, ask, traced, untraced>>

RespondFailed(c) ==
    /\ UseCase!AnswerFailed(c)
    /\ Answer(c, "internal_error") /\ Log(c)
    /\ UNCHANGED <<context, now, ask, traced>>

\* Mutant: the owner shown is UserIDFromContext.
NewOrderResponseFromContext(r) ==
    [id |-> answer[r], user_id |-> user[r], idempotency_key |-> key[answer[r]]]

\* The order a successful answer shows.  An order's owner is the user of the
\* create that stored it.
NewOrderResponse(r) ==
    [id |-> answer[r], user_id |-> user[answer[r]], idempotency_key |-> key[answer[r]]]

(***************************************************************************)
(* The connection to the client.                                           *)
(***************************************************************************)
Deliver(c) ==
    /\ stage[c] = "answered"
    /\ Goto(c, "heard")
    /\ UNCHANGED <<useCase, context, now, ask, reply, traced, untraced>>

\* The answer cannot be sent, and write logs that without a trace id.  (An
\* answer lost on the way is one that is never delivered.)
WriteFails(c) ==
    /\ stage[c] = "answered"
    /\ Goto(c, "lost")
    /\ untraced' = untraced \cup {c}
    /\ UNCHANGED <<useCase, context, now, ask, reply, traced>>

\* The process dies, or the client goes away and the request's context is
\* cancelled under the use case.
Lose(c) ==
    /\ stage[c] \in Working
    /\ Goto(c, "lost")
    /\ IF stage[c] = "calling"
       THEN UseCase!Lose /\ status' = [status EXCEPT ![c] = "lost"]
       ELSE UNCHANGED useCase
    /\ UNCHANGED <<context, now, ask, reply, traced, untraced>>

-----------------------------------------------------------------------------
AuthStep(c) == MissingToken(c) \/ InvalidToken(c) \/ Authenticated(c)
LoginStep(l) == RefuseLogin(l) \/ Issue(l)

CreateStep(c) ==
    \/ AuthStep(c) \/ RefuseRequest(c) \/ CallCreate(c)
    \/ RespondCreated(c) \/ RespondReplayed(c) \/ RespondFailed(c)

ReadStep(g) ==
    \/ AuthStep(g) \/ RefuseRequest(g) \/ CallGetByID(g)
    \/ RespondFound(g) \/ RespondNotFound(g) \/ RespondFailed(g)

Write(c) == Deliver(c) \/ WriteFails(c)

\* Nothing is left to do but to let the time pass.
Finished ==
    /\ \A c \in Calls : stage[c] \in Ended
    /\ UNCHANGED vars

Next ==
    \/ Tick
    \/ \E l \in Logins : ReceiveLogin(l) \/ LoginStep(l)
    \/ \E c \in Creates : ReceiveCreate(c) \/ CreateStep(c) \/ TakeEffect(c)
    \/ \E g \in Reads : ReceiveRead(g) \/ ReadStep(g)
    \/ \E c \in Calls : Write(c) \/ Lose(c)
    \/ Finished

Spec == Init /\ [][Next]_vars

\* The scheduler runs each handler, the use case answers (OrderService
\* checks EveryRequestEnds) and a write ends, by the WriteTimeout at the latest.
Fairness ==
    /\ \A l \in Logins : WF_vars(LoginStep(l))
    /\ \A c \in Creates : WF_vars(CreateStep(c))
    /\ \A g \in Reads : WF_vars(ReadStep(g))
    /\ \A c \in Calls : WF_vars(Write(c))

FairSpec == Spec /\ Fairness

-----------------------------------------------------------------------------
TypeOK ==
    /\ key \in [Creates -> Keys]
    /\ target \in [Reads -> Creates \cup {NoOrder}]
    /\ status \in [Requests -> UseCase!Statuses]
    /\ answer \in [Requests -> Creates \cup {NoOrder}]
    /\ store \in [Keys -> Creates \cup {NoOrder}]
    /\ now \in 0..Horizon
    /\ ask \in [Calls -> [sound : BOOLEAN,
                          cred : Logins \cup {NoLogin, Forged},
                          who : Users \cup {NoUser},
                          id : Creates \cup {NoOrder}]]
    /\ stage \in [Calls -> Working \cup Ended \cup {"idle", "answered"}]
    /\ clock \in [Calls -> 0..Horizon]
    /\ token \in [Logins -> [subject : Users \cup {NoUser}, exp : Int]]
    /\ user \in [Requests -> Users \cup {NoUser}]
    /\ reply \in [Calls -> Replies]
    /\ traced \subseteq Calls
    /\ untraced \subseteq Calls

\* The user the token of a request was issued to.
Identity(c) == ask[ask[c].cred].who

\* A token is accepted for less than JWT_TOKEN_EXPIRY and refused no more than
\* a second early, however long its request was under way (jwt.go:46, :74).
TokensLiveOneLifetime ==
    \A c \in Requests : ask[c].cred \in Logins =>
        /\ user[c] # NoUser => clock[c] < clock[ask[c].cred] + Lifetime
        /\ reply[c] = "invalid_token" => clock[c] > clock[ask[c].cred] + Lifetime - Second

\* A create told 400 or 401 takes no effect, then or later, though the same key
\* may have had one before the token expired (order-handler.go:41,
\* middleware.go:33, :43).
RefusedHasNoEffect ==
    \A c \in Creates : reply[c] \in Unauthorized \cup {"bad_request"} =>
        \A k \in Keys : store[k] # c

\* Every stored order passed all checks and belongs to the user who logged in
\* for the token it came with, not yet expired when it was looked at; this
\* holds too for a create whose client was told 500 or nothing
\* (order-handler.go:67).
OrdersAreEntitled ==
    \A k \in Keys : LET o == store[k] IN o # NoOrder =>
        /\ key[o] = k
        /\ ask[o].sound
        /\ ask[o].cred \in Logins
        /\ user[o] = Identity(o)
        /\ clock[o] < clock[ask[o].cred] + Lifetime

\* A success shows the order its key, or its path, names, and its owner is the
\* user who created it, whoever asks: a retry after a new login sees its first
\* attempt's order, and another user of the key sees that it is taken
\* (order-handler.go:67, dto.go:65).
AnswersShowTheStoredOrder ==
    \A r \in Requests : reply[r] \in Successes =>
        LET shown == NewOrderResponse(r) IN
        /\ store[shown.idempotency_key] = shown.id
        /\ shown.user_id = Identity(shown.id)
        /\ r \in Creates => shown.idempotency_key = key[r]
        /\ r \in Reads => shown.id = ask[r].id

\* Every call is answered, or its client or process is gone.
EveryCallEnds == \A c \in Calls : stage[c] # "idle" ~> stage[c] \in Ended

\* What a comment of the code says (logger.go:7): "Every log line in a request
\* scope MUST carry a trace_id field."
EveryLogLineIsTraced == untraced = {}
=============================================================================
