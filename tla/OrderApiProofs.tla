--------------------------- MODULE OrderApiProofs ---------------------------
(***************************************************************************)
(* Theorems about OrderApi for every set of calls, users and keys, every   *)
(* lifetime of a token and every clock.                                    *)
(***************************************************************************)
EXTENDS OrderApi, TLAPS

Refused == Unauthorized \cup {"bad_request"}

\* The handler's position, the use case and the answer agree; what reaches the
\* use case has been authenticated and checked.
StageInv ==
    \A c \in Requests :
        /\ stage[c] \in {"idle", "auth", "handling"} => status[c] = "idle"
        /\ stage[c] = "calling" <=> status[c] = "pending"
        /\ stage[c] \in {"idle"} \cup Working => reply[c] = "none"
        /\ stage[c] = "handling" \/ status[c] # "idle" => user[c] # NoUser
        /\ status[c] # "idle" => ask[c].sound
        /\ reply[c] \in Refused => status[c] = "idle"
        /\ stage[c] \in {"idle", "auth"} => user[c] = NoUser

\* A login's token names its user and expires as Generate computes.
TokenInv ==
    \A l \in Logins :
        /\ stage[l] \in {"idle", "handling"} => reply[l] = "none"
        /\ stage[l] # "idle" => ask[l].who \in Users
        /\ reply[l] = "token" =>
               token[l] = [subject |-> ask[l].who, exp |-> NumericDate(clock[l] + Lifetime)]

\* What authMiddleware concluded was so when it looked.
IdentityInv ==
    \A c \in Requests :
        /\ ask[c].cred \in Logins =>
               reply[ask[c].cred] = "token" /\ stage[ask[c].cred] # "idle"
        /\ user[c] # NoUser =>
               /\ ask[c].cred \in Logins
               /\ user[c] = token[ask[c].cred].subject
               /\ clock[c] < token[ask[c].cred].exp
        /\ reply[c] = "invalid_token" /\ ask[c].cred \in Logins =>
               clock[c] >= token[ask[c].cred].exp

\* A stored order came through the use case.
StoreInv ==
    \A k \in Keys : store[k] # NoOrder => key[store[k]] = k /\ status[store[k]] # "idle"

\* A successful answer is the use case's and is of the order that was asked for.
AnswerInv ==
    /\ \A r \in Requests : reply[r] \in Successes => status[r] = reply[r]
    /\ \A r \in Requests : status[r] \in Successes =>
           answer[r] # NoOrder /\ store[key[answer[r]]] = answer[r]
    /\ \A c \in Creates : status[c] \in Successes => store[key[c]] = answer[c]
    /\ \A g \in Reads : status[g] # "idle" => target[g] = ask[g].id
    /\ \A g \in Reads : status[g] \in Successes => target[g] = answer[g]

IInv == TypeOK /\ StageInv /\ TokenInv /\ IdentityInv /\ StoreInv /\ AnswerInv

\* A numeric date is an instant of the same second, not after t.
LEMMA NumericDateBounds ==
    \A t \in Int : /\ NumericDate(t) \in Int
                   /\ t - Second < NumericDate(t) /\ NumericDate(t) <= t
BY TimeAssumption DEF NumericDate

\* TypeOK is inductive.
LEMMA TypeStep == ASSUME IInv, [Next]_vars PROVE TypeOK'
<1> USE TimeAssumption, CallAssumption DEF IInv, TypeOK, Blank, NoClaims, UseCase!Statuses, UseCase!Successes, Replies, Unauthorized, Successes, Requests, Calls, Working, Ended, Goto, useCase, context
<1>1. CASE Tick
  BY <1>1 DEF Tick
<1>2. ASSUME NEW l \in Logins, ReceiveLogin(l) PROVE TypeOK'
  <2>1. PICK sent \in [sound : BOOLEAN, cred : Logins \cup {NoLogin, Forged},
                       who : Users \cup {NoUser}, id : Creates \cup {NoOrder}] :
              Receive(l, sent, "handling")
    BY <1>2 DEF ReceiveLogin, Blank, Held, Told
  <2> QED
    BY <2>1 DEF Receive
<1>3. ASSUME NEW c \in Creates, ReceiveCreate(c) PROVE TypeOK'
  <2>1. PICK sent \in [sound : BOOLEAN, cred : Logins \cup {NoLogin, Forged},
                       who : Users \cup {NoUser}, id : Creates \cup {NoOrder}] :
              Receive(c, sent, "auth")
    BY <1>3 DEF ReceiveCreate, Blank, Held, Told
  <2> QED
    BY <2>1 DEF Receive
<1>4. ASSUME NEW g \in Reads, ReceiveRead(g) PROVE TypeOK'
  <2>1. PICK sent \in [sound : BOOLEAN, cred : Logins \cup {NoLogin, Forged},
                       who : Users \cup {NoUser}, id : Creates \cup {NoOrder}] :
              Receive(g, sent, "auth")
    BY <1>4 DEF ReceiveRead, Blank, Held, Told
  <2> QED
    BY <2>1 DEF Receive
<1>5. ASSUME NEW r \in Requests, MissingToken(r) PROVE TypeOK'
  BY <1>5 DEF MissingToken, Answer
<1>6. ASSUME NEW r \in Requests, InvalidToken(r) PROVE TypeOK'
  BY <1>6 DEF InvalidToken, Answer, ReadClock
<1>7. ASSUME NEW r \in Requests, Authenticated(r) PROVE TypeOK'
  <2>1. Parse(ask[r].cred) \in Users \cup {NoUser}
    BY DEF Parse
  <2> QED
    BY <1>7, <2>1 DEF Authenticated, ReadClock, Log
<1>8. ASSUME NEW l \in Logins, RefuseLogin(l) PROVE TypeOK'
  BY <1>8 DEF RefuseLogin, Answer
<1>9. ASSUME NEW l \in Logins, Issue(l) PROVE TypeOK'
  <2>1. Generate(ask[l].who) \in [subject : Users \cup {NoUser}, exp : Int]
    BY NumericDateBounds DEF Generate
  <2> QED
    BY <1>9, <2>1 DEF Issue, Answer, ReadClock
<1>10. ASSUME NEW r \in Requests, RefuseRequest(r) PROVE TypeOK'
  BY <1>10 DEF RefuseRequest, Answer
<1>11. ASSUME NEW c \in Creates, CallCreate(c) PROVE TypeOK'
  BY <1>11 DEF CallCreate, UseCase!SendCreate
<1>12. ASSUME NEW g \in Reads, CallGetByID(g) PROVE TypeOK'
  BY <1>12 DEF CallGetByID, UseCase!SendRead
<1>13. ASSUME NEW c \in Creates, TakeEffect(c) PROVE TypeOK'
  BY <1>13 DEF TakeEffect, UseCase!TakeEffect
<1>14. ASSUME NEW c \in Creates, RespondCreated(c) PROVE TypeOK'
  BY <1>14 DEF RespondCreated, UseCase!AnswerCreated, UseCase!Answer, Answer, Log
<1>15. ASSUME NEW c \in Creates, RespondReplayed(c) PROVE TypeOK'
  BY <1>15 DEF RespondReplayed, UseCase!AnswerReplayed, UseCase!Answer, Answer, Log
<1>16. ASSUME NEW g \in Reads, RespondFound(g) PROVE TypeOK'
  BY <1>16 DEF RespondFound, UseCase!AnswerFound, UseCase!Answer, Answer
<1>17. ASSUME NEW g \in Reads, RespondNotFound(g) PROVE TypeOK'
  BY <1>17 DEF RespondNotFound, UseCase!AnswerNotFound, UseCase!Answer, Answer
<1>18. ASSUME NEW r \in Requests, RespondFailed(r) PROVE TypeOK'
  BY <1>18 DEF RespondFailed, UseCase!AnswerFailed, UseCase!Answer, Answer, Log
<1>19. ASSUME NEW x \in Calls, Deliver(x) PROVE TypeOK'
  BY <1>19 DEF Deliver
<1>20. ASSUME NEW x \in Calls, WriteFails(x) PROVE TypeOK'
  BY <1>20 DEF WriteFails
<1>21. ASSUME NEW x \in Calls, Lose(x) PROVE TypeOK'
  BY <1>21 DEF Lose, UseCase!Lose, UseCase!vars, useCase
<1>22. CASE UNCHANGED vars
  BY <1>22 DEF vars
<1> HIDE DEF IInv, TypeOK, Blank, NoClaims, UseCase!Statuses, UseCase!Successes, Replies, Unauthorized, Successes
<1> QED
  BY <1>1, <1>2, <1>3, <1>4, <1>5, <1>6, <1>7, <1>8, <1>9, <1>10, <1>11, <1>12,
     <1>13, <1>14, <1>15, <1>16, <1>17, <1>18, <1>19, <1>20, <1>21, <1>22
     DEF Next, CreateStep, ReadStep, LoginStep, AuthStep, Write, Finished

\* StageInv is inductive.
LEMMA StageStep == ASSUME IInv, [Next]_vars PROVE StageInv'
<1> USE TimeAssumption, CallAssumption DEF IInv, TypeOK, StageInv, Unauthorized, Refused, Requests, Calls, Working, Ended, Goto, useCase, context
<1>1. CASE Tick
  BY <1>1 DEF Tick
<1>2. ASSUME NEW l \in Logins, ReceiveLogin(l) PROVE StageInv'
  BY <1>2 DEF ReceiveLogin, Receive
<1>3. ASSUME NEW c \in Creates, ReceiveCreate(c) PROVE StageInv'
  BY <1>3 DEF ReceiveCreate, Receive
<1>4. ASSUME NEW g \in Reads, ReceiveRead(g) PROVE StageInv'
  BY <1>4 DEF ReceiveRead, Receive
<1>5. ASSUME NEW r \in Requests, MissingToken(r) PROVE StageInv'
  BY <1>5 DEF MissingToken, Answer
<1>6. ASSUME NEW r \in Requests, InvalidToken(r) PROVE StageInv'
  BY <1>6 DEF InvalidToken, Answer, ReadClock
<1>7. ASSUME NEW r \in Requests, Authenticated(r) PROVE StageInv'
  BY <1>7 DEF Authenticated, ReadClock, Log
<1>8. ASSUME NEW l \in Logins, RefuseLogin(l) PROVE StageInv'
  BY <1>8 DEF RefuseLogin, Answer
<1>9. ASSUME NEW l \in Logins, Issue(l) PROVE StageInv'
  BY <1>9 DEF Issue, Answer, ReadClock
<1>10. ASSUME NEW r \in Requests, RefuseRequest(r) PROVE StageInv'
  BY <1>10 DEF RefuseRequest, Answer
<1>11. ASSUME NEW c \in Creates, CallCreate(c) PROVE StageInv'
  BY <1>11 DEF CallCreate, UseCase!SendCreate
<1>12. ASSUME NEW g \in Reads, CallGetByID(g) PROVE StageInv'
  BY <1>12 DEF CallGetByID, UseCase!SendRead
<1>13. ASSUME NEW c \in Creates, TakeEffect(c) PROVE StageInv'
  BY <1>13 DEF TakeEffect, UseCase!TakeEffect
<1>14. ASSUME NEW c \in Creates, RespondCreated(c) PROVE StageInv'
  BY <1>14 DEF RespondCreated, UseCase!AnswerCreated, UseCase!Answer, Answer, Log
<1>15. ASSUME NEW c \in Creates, RespondReplayed(c) PROVE StageInv'
  BY <1>15 DEF RespondReplayed, UseCase!AnswerReplayed, UseCase!Answer, Answer, Log
<1>16. ASSUME NEW g \in Reads, RespondFound(g) PROVE StageInv'
  BY <1>16 DEF RespondFound, UseCase!AnswerFound, UseCase!Answer, Answer
<1>17. ASSUME NEW g \in Reads, RespondNotFound(g) PROVE StageInv'
  BY <1>17 DEF RespondNotFound, UseCase!AnswerNotFound, UseCase!Answer, Answer
<1>18. ASSUME NEW r \in Requests, RespondFailed(r) PROVE StageInv'
  BY <1>18 DEF RespondFailed, UseCase!AnswerFailed, UseCase!Answer, Answer, Log
<1>19. ASSUME NEW x \in Calls, Deliver(x) PROVE StageInv'
  BY <1>19 DEF Deliver
<1>20. ASSUME NEW x \in Calls, WriteFails(x) PROVE StageInv'
  BY <1>20 DEF WriteFails
<1>21. ASSUME NEW x \in Calls, Lose(x) PROVE StageInv'
  BY <1>21 DEF Lose, UseCase!Lose, UseCase!vars, useCase
<1>22. CASE UNCHANGED vars
  BY <1>22 DEF vars
<1> HIDE DEF IInv, TypeOK, StageInv, Unauthorized, Refused
<1> QED
  BY <1>1, <1>2, <1>3, <1>4, <1>5, <1>6, <1>7, <1>8, <1>9, <1>10, <1>11, <1>12,
     <1>13, <1>14, <1>15, <1>16, <1>17, <1>18, <1>19, <1>20, <1>21, <1>22
     DEF Next, CreateStep, ReadStep, LoginStep, AuthStep, Write, Finished

\* TokenInv is inductive.
LEMMA TokenStep == ASSUME IInv, [Next]_vars PROVE TokenInv'
<1> USE TimeAssumption, CallAssumption DEF IInv, TypeOK, TokenInv, Requests, Calls, Working, Ended, Goto, useCase, context
<1>1. CASE Tick
  BY <1>1 DEF Tick
<1>2. ASSUME NEW l \in Logins, ReceiveLogin(l) PROVE TokenInv'
  BY <1>2 DEF ReceiveLogin, Receive
<1>3. ASSUME NEW c \in Creates, ReceiveCreate(c) PROVE TokenInv'
  BY <1>3 DEF ReceiveCreate, Receive
<1>4. ASSUME NEW g \in Reads, ReceiveRead(g) PROVE TokenInv'
  BY <1>4 DEF ReceiveRead, Receive
<1>5. ASSUME NEW r \in Requests, MissingToken(r) PROVE TokenInv'
  BY <1>5 DEF MissingToken, Answer
<1>6. ASSUME NEW r \in Requests, InvalidToken(r) PROVE TokenInv'
  BY <1>6 DEF InvalidToken, Answer, ReadClock
<1>7. ASSUME NEW r \in Requests, Authenticated(r) PROVE TokenInv'
  BY <1>7 DEF Authenticated, ReadClock, Log
<1>8. ASSUME NEW l \in Logins, RefuseLogin(l) PROVE TokenInv'
  BY <1>8 DEF RefuseLogin, Answer
<1>9. ASSUME NEW l \in Logins, Issue(l) PROVE TokenInv'
  <2>1. Generate(ask[l].who) = [subject |-> ask[l].who, exp |-> NumericDate(now + Lifetime)]
    BY DEF Generate
  <2> QED
    BY <1>9, <2>1 DEF Issue, Answer, ReadClock
<1>10. ASSUME NEW r \in Requests, RefuseRequest(r) PROVE TokenInv'
  BY <1>10 DEF RefuseRequest, Answer
<1>11. ASSUME NEW c \in Creates, CallCreate(c) PROVE TokenInv'
  BY <1>11 DEF CallCreate, UseCase!SendCreate
<1>12. ASSUME NEW g \in Reads, CallGetByID(g) PROVE TokenInv'
  BY <1>12 DEF CallGetByID, UseCase!SendRead
<1>13. ASSUME NEW c \in Creates, TakeEffect(c) PROVE TokenInv'
  BY <1>13 DEF TakeEffect, UseCase!TakeEffect
<1>14. ASSUME NEW c \in Creates, RespondCreated(c) PROVE TokenInv'
  BY <1>14 DEF RespondCreated, UseCase!AnswerCreated, UseCase!Answer, Answer, Log
<1>15. ASSUME NEW c \in Creates, RespondReplayed(c) PROVE TokenInv'
  BY <1>15 DEF RespondReplayed, UseCase!AnswerReplayed, UseCase!Answer, Answer, Log
<1>16. ASSUME NEW g \in Reads, RespondFound(g) PROVE TokenInv'
  BY <1>16 DEF RespondFound, UseCase!AnswerFound, UseCase!Answer, Answer
<1>17. ASSUME NEW g \in Reads, RespondNotFound(g) PROVE TokenInv'
  BY <1>17 DEF RespondNotFound, UseCase!AnswerNotFound, UseCase!Answer, Answer
<1>18. ASSUME NEW r \in Requests, RespondFailed(r) PROVE TokenInv'
  BY <1>18 DEF RespondFailed, UseCase!AnswerFailed, UseCase!Answer, Answer, Log
<1>19. ASSUME NEW x \in Calls, Deliver(x) PROVE TokenInv'
  BY <1>19 DEF Deliver
<1>20. ASSUME NEW x \in Calls, WriteFails(x) PROVE TokenInv'
  BY <1>20 DEF WriteFails
<1>21. ASSUME NEW x \in Calls, Lose(x) PROVE TokenInv'
  BY <1>21 DEF Lose, UseCase!Lose, UseCase!vars, useCase
<1>22. CASE UNCHANGED vars
  BY <1>22 DEF vars
<1> HIDE DEF IInv, TypeOK, TokenInv
<1> QED
  BY <1>1, <1>2, <1>3, <1>4, <1>5, <1>6, <1>7, <1>8, <1>9, <1>10, <1>11, <1>12,
     <1>13, <1>14, <1>15, <1>16, <1>17, <1>18, <1>19, <1>20, <1>21, <1>22
     DEF Next, CreateStep, ReadStep, LoginStep, AuthStep, Write, Finished

\* IdentityInv is inductive.
LEMMA IdentityStep == ASSUME IInv, [Next]_vars PROVE IdentityInv'
<1> USE TimeAssumption, CallAssumption DEF IInv, TypeOK, StageInv, TokenInv, IdentityInv, Requests, Calls, Working, Ended, Goto, useCase, context
<1>1. CASE Tick
  BY <1>1 DEF Tick
<1>2. ASSUME NEW l \in Logins, ReceiveLogin(l) PROVE IdentityInv'
  BY <1>2 DEF ReceiveLogin, Receive
<1>3. ASSUME NEW c \in Creates, ReceiveCreate(c) PROVE IdentityInv'
  <2>1. PICK cred \in Held \cup {NoLogin, Forged} :
              \E sent : sent.cred = cred /\ Receive(c, sent, "auth")
    BY <1>3 DEF ReceiveCreate, Blank
  <2> QED
    BY <2>1 DEF Receive, Held
<1>4. ASSUME NEW g \in Reads, ReceiveRead(g) PROVE IdentityInv'
  <2>1. PICK cred \in Held \cup {NoLogin, Forged} :
              \E sent : sent.cred = cred /\ Receive(g, sent, "auth")
    BY <1>4 DEF ReceiveRead, Blank
  <2> QED
    BY <2>1 DEF Receive, Held
<1>5. ASSUME NEW r \in Requests, MissingToken(r) PROVE IdentityInv'
  BY <1>5 DEF MissingToken, Answer
<1>6. ASSUME NEW r \in Requests, InvalidToken(r) PROVE IdentityInv'
  BY <1>6 DEF InvalidToken, Answer, ReadClock, Parse
<1>7. ASSUME NEW r \in Requests, Authenticated(r) PROVE IdentityInv'
  BY <1>7 DEF Authenticated, ReadClock, Log, Parse
<1>8. ASSUME NEW l \in Logins, RefuseLogin(l) PROVE IdentityInv'
  BY <1>8 DEF RefuseLogin, Answer
<1>9. ASSUME NEW l \in Logins, Issue(l) PROVE IdentityInv'
  BY <1>9 DEF Issue, Answer, ReadClock
<1>10. ASSUME NEW r \in Requests, RefuseRequest(r) PROVE IdentityInv'
  BY <1>10 DEF RefuseRequest, Answer
<1>11. ASSUME NEW c \in Creates, CallCreate(c) PROVE IdentityInv'
  BY <1>11 DEF CallCreate, UseCase!SendCreate
<1>12. ASSUME NEW g \in Reads, CallGetByID(g) PROVE IdentityInv'
  BY <1>12 DEF CallGetByID, UseCase!SendRead
<1>13. ASSUME NEW c \in Creates, TakeEffect(c) PROVE IdentityInv'
  BY <1>13 DEF TakeEffect, UseCase!TakeEffect
<1>14. ASSUME NEW c \in Creates, RespondCreated(c) PROVE IdentityInv'
  BY <1>14 DEF RespondCreated, UseCase!AnswerCreated, UseCase!Answer, Answer, Log
<1>15. ASSUME NEW c \in Creates, RespondReplayed(c) PROVE IdentityInv'
  BY <1>15 DEF RespondReplayed, UseCase!AnswerReplayed, UseCase!Answer, Answer, Log
<1>16. ASSUME NEW g \in Reads, RespondFound(g) PROVE IdentityInv'
  BY <1>16 DEF RespondFound, UseCase!AnswerFound, UseCase!Answer, Answer
<1>17. ASSUME NEW g \in Reads, RespondNotFound(g) PROVE IdentityInv'
  BY <1>17 DEF RespondNotFound, UseCase!AnswerNotFound, UseCase!Answer, Answer
<1>18. ASSUME NEW r \in Requests, RespondFailed(r) PROVE IdentityInv'
  BY <1>18 DEF RespondFailed, UseCase!AnswerFailed, UseCase!Answer, Answer, Log
<1>19. ASSUME NEW x \in Calls, Deliver(x) PROVE IdentityInv'
  BY <1>19 DEF Deliver
<1>20. ASSUME NEW x \in Calls, WriteFails(x) PROVE IdentityInv'
  BY <1>20 DEF WriteFails
<1>21. ASSUME NEW x \in Calls, Lose(x) PROVE IdentityInv'
  BY <1>21 DEF Lose, UseCase!Lose, UseCase!vars, useCase
<1>22. CASE UNCHANGED vars
  BY <1>22 DEF vars
<1> HIDE DEF IInv, TypeOK, StageInv, TokenInv, IdentityInv
<1> QED
  BY <1>1, <1>2, <1>3, <1>4, <1>5, <1>6, <1>7, <1>8, <1>9, <1>10, <1>11, <1>12,
     <1>13, <1>14, <1>15, <1>16, <1>17, <1>18, <1>19, <1>20, <1>21, <1>22
     DEF Next, CreateStep, ReadStep, LoginStep, AuthStep, Write, Finished

\* StoreInv is inductive.
LEMMA StoreStep == ASSUME IInv, [Next]_vars PROVE StoreInv'
<1> USE TimeAssumption, CallAssumption DEF IInv, TypeOK, StageInv, StoreInv, Requests, Calls, Working, Ended, Goto, useCase, context
<1>1. CASE Tick
  BY <1>1 DEF Tick
<1>2. ASSUME NEW l \in Logins, ReceiveLogin(l) PROVE StoreInv'
  BY <1>2 DEF ReceiveLogin, Receive
<1>3. ASSUME NEW c \in Creates, ReceiveCreate(c) PROVE StoreInv'
  BY <1>3 DEF ReceiveCreate, Receive
<1>4. ASSUME NEW g \in Reads, ReceiveRead(g) PROVE StoreInv'
  BY <1>4 DEF ReceiveRead, Receive
<1>5. ASSUME NEW r \in Requests, MissingToken(r) PROVE StoreInv'
  BY <1>5 DEF MissingToken, Answer
<1>6. ASSUME NEW r \in Requests, InvalidToken(r) PROVE StoreInv'
  BY <1>6 DEF InvalidToken, Answer, ReadClock
<1>7. ASSUME NEW r \in Requests, Authenticated(r) PROVE StoreInv'
  BY <1>7 DEF Authenticated, ReadClock, Log
<1>8. ASSUME NEW l \in Logins, RefuseLogin(l) PROVE StoreInv'
  BY <1>8 DEF RefuseLogin, Answer
<1>9. ASSUME NEW l \in Logins, Issue(l) PROVE StoreInv'
  BY <1>9 DEF Issue, Answer, ReadClock
<1>10. ASSUME NEW r \in Requests, RefuseRequest(r) PROVE StoreInv'
  BY <1>10 DEF RefuseRequest, Answer
<1>11. ASSUME NEW c \in Creates, CallCreate(c) PROVE StoreInv'
  BY <1>11 DEF CallCreate, UseCase!SendCreate
<1>12. ASSUME NEW g \in Reads, CallGetByID(g) PROVE StoreInv'
  BY <1>12 DEF CallGetByID, UseCase!SendRead
<1>13. ASSUME NEW c \in Creates, TakeEffect(c) PROVE StoreInv'
  BY <1>13 DEF TakeEffect, UseCase!TakeEffect
<1>14. ASSUME NEW c \in Creates, RespondCreated(c) PROVE StoreInv'
  BY <1>14 DEF RespondCreated, UseCase!AnswerCreated, UseCase!Answer, Answer, Log
<1>15. ASSUME NEW c \in Creates, RespondReplayed(c) PROVE StoreInv'
  BY <1>15 DEF RespondReplayed, UseCase!AnswerReplayed, UseCase!Answer, Answer, Log
<1>16. ASSUME NEW g \in Reads, RespondFound(g) PROVE StoreInv'
  BY <1>16 DEF RespondFound, UseCase!AnswerFound, UseCase!Answer, Answer
<1>17. ASSUME NEW g \in Reads, RespondNotFound(g) PROVE StoreInv'
  BY <1>17 DEF RespondNotFound, UseCase!AnswerNotFound, UseCase!Answer, Answer
<1>18. ASSUME NEW r \in Requests, RespondFailed(r) PROVE StoreInv'
  BY <1>18 DEF RespondFailed, UseCase!AnswerFailed, UseCase!Answer, Answer, Log
<1>19. ASSUME NEW x \in Calls, Deliver(x) PROVE StoreInv'
  BY <1>19 DEF Deliver
<1>20. ASSUME NEW x \in Calls, WriteFails(x) PROVE StoreInv'
  BY <1>20 DEF WriteFails
<1>21. ASSUME NEW x \in Calls, Lose(x) PROVE StoreInv'
  BY <1>21 DEF Lose, UseCase!Lose, UseCase!vars, useCase
<1>22. CASE UNCHANGED vars
  BY <1>22 DEF vars
<1> HIDE DEF IInv, TypeOK, StageInv, StoreInv
<1> QED
  BY <1>1, <1>2, <1>3, <1>4, <1>5, <1>6, <1>7, <1>8, <1>9, <1>10, <1>11, <1>12,
     <1>13, <1>14, <1>15, <1>16, <1>17, <1>18, <1>19, <1>20, <1>21, <1>22
     DEF Next, CreateStep, ReadStep, LoginStep, AuthStep, Write, Finished

\* AnswerInv is inductive.
LEMMA AnswerStep == ASSUME IInv, [Next]_vars PROVE AnswerInv'
<1> USE TimeAssumption, CallAssumption DEF IInv, TypeOK, StageInv, StoreInv, AnswerInv, Successes, Requests, Calls, Working, Ended, Goto, useCase, context
<1>1. CASE Tick
  BY <1>1 DEF Tick
<1>2. ASSUME NEW l \in Logins, ReceiveLogin(l) PROVE AnswerInv'
  BY <1>2 DEF ReceiveLogin, Receive
<1>3. ASSUME NEW c \in Creates, ReceiveCreate(c) PROVE AnswerInv'
  BY <1>3 DEF ReceiveCreate, Receive
<1>4. ASSUME NEW g \in Reads, ReceiveRead(g) PROVE AnswerInv'
  BY <1>4 DEF ReceiveRead, Receive
<1>5. ASSUME NEW r \in Requests, MissingToken(r) PROVE AnswerInv'
  BY <1>5 DEF MissingToken, Answer
<1>6. ASSUME NEW r \in Requests, InvalidToken(r) PROVE AnswerInv'
  BY <1>6 DEF InvalidToken, Answer, ReadClock
<1>7. ASSUME NEW r \in Requests, Authenticated(r) PROVE AnswerInv'
  BY <1>7 DEF Authenticated, ReadClock, Log
<1>8. ASSUME NEW l \in Logins, RefuseLogin(l) PROVE AnswerInv'
  BY <1>8 DEF RefuseLogin, Answer
<1>9. ASSUME NEW l \in Logins, Issue(l) PROVE AnswerInv'
  BY <1>9 DEF Issue, Answer, ReadClock
<1>10. ASSUME NEW r \in Requests, RefuseRequest(r) PROVE AnswerInv'
  BY <1>10 DEF RefuseRequest, Answer
<1>11. ASSUME NEW c \in Creates, CallCreate(c) PROVE AnswerInv'
  BY <1>11 DEF CallCreate, UseCase!SendCreate
<1>12. ASSUME NEW g \in Reads, CallGetByID(g) PROVE AnswerInv'
  BY <1>12 DEF CallGetByID, UseCase!SendRead
<1>13. ASSUME NEW c \in Creates, TakeEffect(c) PROVE AnswerInv'
  BY <1>13 DEF TakeEffect, UseCase!TakeEffect
<1>14. ASSUME NEW c \in Creates, RespondCreated(c) PROVE AnswerInv'
  BY <1>14 DEF RespondCreated, UseCase!AnswerCreated, UseCase!Answer, Answer, Log
<1>15. ASSUME NEW c \in Creates, RespondReplayed(c) PROVE AnswerInv'
  BY <1>15 DEF RespondReplayed, UseCase!AnswerReplayed, UseCase!Answer, Answer, Log
<1>16. ASSUME NEW g \in Reads, RespondFound(g) PROVE AnswerInv'
  BY <1>16 DEF RespondFound, UseCase!AnswerFound, UseCase!Answer, Answer
<1>17. ASSUME NEW g \in Reads, RespondNotFound(g) PROVE AnswerInv'
  BY <1>17 DEF RespondNotFound, UseCase!AnswerNotFound, UseCase!Answer, Answer
<1>18. ASSUME NEW r \in Requests, RespondFailed(r) PROVE AnswerInv'
  BY <1>18 DEF RespondFailed, UseCase!AnswerFailed, UseCase!Answer, Answer, Log
<1>19. ASSUME NEW x \in Calls, Deliver(x) PROVE AnswerInv'
  BY <1>19 DEF Deliver
<1>20. ASSUME NEW x \in Calls, WriteFails(x) PROVE AnswerInv'
  BY <1>20 DEF WriteFails
<1>21. ASSUME NEW x \in Calls, Lose(x) PROVE AnswerInv'
  BY <1>21 DEF Lose, UseCase!Lose, UseCase!vars, useCase
<1>22. CASE UNCHANGED vars
  BY <1>22 DEF vars
<1> HIDE DEF IInv, TypeOK, StageInv, StoreInv, AnswerInv, Successes
<1> QED
  BY <1>1, <1>2, <1>3, <1>4, <1>5, <1>6, <1>7, <1>8, <1>9, <1>10, <1>11, <1>12,
     <1>13, <1>14, <1>15, <1>16, <1>17, <1>18, <1>19, <1>20, <1>21, <1>22
     DEF Next, CreateStep, ReadStep, LoginStep, AuthStep, Write, Finished

\* The inductive invariant, from its layers.
LEMMA Invariance == Spec => []IInv
<1>1. Init => IInv
  BY TimeAssumption, CallAssumption
     DEF Init, UseCase!Init, UseCase!Requests, UseCase!Statuses, IInv, TypeOK, StageInv, TokenInv,
         IdentityInv, StoreInv, AnswerInv, Requests, Calls, Blank, NoClaims, Working,
         Replies, Refused, Unauthorized, Successes
<1>2. IInv /\ [Next]_vars => IInv'
  BY TypeStep, StageStep, TokenStep, IdentityStep, StoreStep, AnswerStep DEF IInv
<1> QED
  BY <1>1, <1>2, PTL DEF Spec

\* The variables keep their types.
THEOREM TypeCorrect == Spec => []TypeOK
<1>1. IInv => TypeOK
  BY DEF IInv
<1> QED
  BY <1>1, Invariance, PTL

\* A request's token was issued to its user.
LEMMA TokenOfLogin ==
    ASSUME IInv, NEW c \in Requests, ask[c].cred \in Logins
    PROVE  token[ask[c].cred] =
               [subject |-> ask[ask[c].cred].who,
                exp |-> NumericDate(clock[ask[c].cred] + Lifetime)]
<1>1. reply[ask[c].cred] = "token"
  BY DEF IInv, IdentityInv
<1> QED
  BY <1>1 DEF IInv, TokenInv

\* The user in a request's context logged in for the token it carries.
LEMMA AuthenticatedAsIdentity ==
    ASSUME IInv, NEW c \in Requests, user[c] # NoUser
    PROVE  ask[c].cred \in Logins /\ user[c] = Identity(c)
<1>1. ask[c].cred \in Logins /\ user[c] = token[ask[c].cred].subject
  BY DEF IInv, IdentityInv
<1>2. token[ask[c].cred].subject = ask[ask[c].cred].who
  <2>1. token[ask[c].cred] =
            [subject |-> ask[ask[c].cred].who,
             exp |-> NumericDate(clock[ask[c].cred] + Lifetime)]
    BY <1>1, TokenOfLogin
  <2> QED
    BY <2>1
<1> QED
  BY <1>1, <1>2 DEF Identity

\* What the instant of a check says, by the arithmetic of Generate.
LEMMA LifetimesHold == ASSUME IInv PROVE TokensLiveOneLifetime
<1> SUFFICES ASSUME NEW c \in Requests, ask[c].cred \in Logins
             PROVE /\ user[c] # NoUser => clock[c] < clock[ask[c].cred] + Lifetime
                   /\ reply[c] = "invalid_token" =>
                          clock[c] > clock[ask[c].cred] + Lifetime - Second
  BY DEF TokensLiveOneLifetime
<1> DEFINE minted == clock[ask[c].cred]
<1>1. minted \in Nat /\ clock[c] \in Nat
  BY TimeAssumption DEF IInv, TypeOK, Calls
<1>2. token[ask[c].cred].exp = NumericDate(minted + Lifetime)
  <2>1. token[ask[c].cred] =
            [subject |-> ask[ask[c].cred].who, exp |-> NumericDate(minted + Lifetime)]
    BY TokenOfLogin
  <2> QED
    BY <2>1
<1>3. /\ minted + Lifetime - Second < NumericDate(minted + Lifetime)
      /\ NumericDate(minted + Lifetime) <= minted + Lifetime
      /\ NumericDate(minted + Lifetime) \in Int
  BY <1>1, NumericDateBounds, TimeAssumption
<1>4. /\ user[c] # NoUser => clock[c] < NumericDate(minted + Lifetime)
      /\ reply[c] = "invalid_token" => clock[c] >= NumericDate(minted + Lifetime)
  BY <1>2 DEF IInv, IdentityInv
<1> QED
  BY <1>1, <1>3, <1>4, TimeAssumption

\* For every lifetime and every precision of a token's dates, a token is
\* accepted for less than the lifetime and refused at most a second early
\* (jwt.go:46, :74).
THEOREM TokenLifetimes == Spec => []TokensLiveOneLifetime
<1>1. IInv => TokensLiveOneLifetime
  BY LifetimesHold
<1> QED
  BY <1>1, Invariance, PTL

\* A create that is told 400 or 401 is never executed (order-handler.go:41,
\* middleware.go:33, :43).
THEOREM RefusalsAreFinal == Spec => []RefusedHasNoEffect
<1>1. IInv => RefusedHasNoEffect
  BY CallAssumption DEF IInv, TypeOK, StageInv, StoreInv, RefusedHasNoEffect, Refused, Requests
<1> QED
  BY <1>1, Invariance, PTL

\* Every stored order was authenticated, valid, and is its user's
\* (order-handler.go:67).
THEOREM Entitlement == Spec => []OrdersAreEntitled
<1>1. IInv => OrdersAreEntitled
  <2> SUFFICES ASSUME IInv, NEW k \in Keys, store[k] # NoOrder
               PROVE /\ key[store[k]] = k
                     /\ ask[store[k]].sound
                     /\ ask[store[k]].cred \in Logins
                     /\ user[store[k]] = Identity(store[k])
                     /\ clock[store[k]] < clock[ask[store[k]].cred] + Lifetime
    BY DEF OrdersAreEntitled
  <2>1. store[k] \in Creates /\ store[k] \in Requests
    BY DEF IInv, TypeOK, Requests
  <2>2. key[store[k]] = k /\ ask[store[k]].sound /\ user[store[k]] # NoUser
    BY <2>1 DEF IInv, StoreInv, StageInv
  <2>3. ask[store[k]].cred \in Logins /\ user[store[k]] = Identity(store[k])
    BY <2>1, <2>2, AuthenticatedAsIdentity
  <2>4. TokensLiveOneLifetime
    BY LifetimesHold
  <2> QED
    BY <2>1, <2>2, <2>3, <2>4 DEF TokensLiveOneLifetime
<1> QED
  BY <1>1, Invariance, PTL

\* Successful answers show stored orders with their creators as owners
\* (order-handler.go:67, dto.go:65).
THEOREM AnswersAreTrue == Spec => []AnswersShowTheStoredOrder
<1>1. IInv => AnswersShowTheStoredOrder
  <2> SUFFICES ASSUME IInv, NEW r \in Requests, reply[r] \in Successes
               PROVE /\ store[key[answer[r]]] = answer[r]
                     /\ user[answer[r]] = Identity(answer[r])
                     /\ r \in Creates => key[answer[r]] = key[r]
                     /\ r \in Reads => answer[r] = ask[r].id
    BY DEF AnswersShowTheStoredOrder, NewOrderResponse
  <2>1. status[r] \in Successes /\ status[r] # "idle"
    BY DEF IInv, AnswerInv, Successes
  <2>2. answer[r] # NoOrder /\ store[key[answer[r]]] = answer[r]
    BY <2>1 DEF IInv, AnswerInv
  <2>3. answer[r] \in Creates /\ key[answer[r]] \in Keys
    BY <2>2 DEF IInv, TypeOK
  <2>4. user[answer[r]] = Identity(answer[r])
    <3>1. answer[r] \in Requests /\ status[answer[r]] # "idle"
      BY <2>2, <2>3 DEF IInv, StoreInv, Requests
    <3>2. user[answer[r]] # NoUser
      BY <3>1 DEF IInv, StageInv
    <3> QED
      BY <3>1, <3>2, AuthenticatedAsIdentity
  <2>5. r \in Creates => key[answer[r]] = key[r]
    BY <2>1, <2>2 DEF IInv, AnswerInv, StoreInv, TypeOK
  <2>6. r \in Reads => answer[r] = ask[r].id
    BY <2>1 DEF IInv, AnswerInv
  <2> QED
    BY <2>2, <2>4, <2>5, <2>6
<1> QED
  BY <1>1, Invariance, PTL

\* The handlers use the use case as IdempotentCreate expects: what OrderRepo is
\* shown to implement is all they rely on.
LEMMA UsesTheUseCase == Spec => UseCase!Spec
<1>1. Init => UseCase!Init
  BY DEF Init
<1>2. [Next]_vars => [UseCase!Next]_(UseCase!vars)
  <2> DEFINE Step == [UseCase!Next]_(UseCase!vars)
  <2> SUFFICES ASSUME [Next]_vars PROVE Step
    OBVIOUS
  <2> USE DEF UseCase!Next, Requests, UseCase!Requests
  <2>1. ASSUME NEW c \in Creates, CallCreate(c) PROVE Step
    BY <2>1 DEF CallCreate
  <2>2. ASSUME NEW g \in Reads, CallGetByID(g) PROVE Step
    BY <2>2 DEF CallGetByID
  <2>3. ASSUME NEW c \in Creates, TakeEffect(c) PROVE Step
    BY <2>3 DEF TakeEffect
  <2>4. ASSUME NEW c \in Creates, RespondCreated(c) PROVE Step
    BY <2>4 DEF RespondCreated
  <2>5. ASSUME NEW c \in Creates, RespondReplayed(c) PROVE Step
    BY <2>5 DEF RespondReplayed
  <2>6. ASSUME NEW g \in Reads, RespondFound(g) PROVE Step
    BY <2>6 DEF RespondFound
  <2>7. ASSUME NEW g \in Reads, RespondNotFound(g) PROVE Step
    BY <2>7 DEF RespondNotFound
  <2>8. ASSUME NEW r \in Requests, RespondFailed(r) PROVE Step
    BY <2>8 DEF RespondFailed
  <2>9. ASSUME NEW c \in Calls, Lose(c) PROVE Step
    BY <2>9 DEF Lose, useCase, UseCase!vars
  <2>10. UNCHANGED useCase => Step
    BY DEF useCase, UseCase!vars
  <2> HIDE DEF Step
  <2> QED
    BY <2>1, <2>2, <2>3, <2>4, <2>5, <2>6, <2>7, <2>8, <2>9, <2>10
       DEF Next, CreateStep, ReadStep, LoginStep, AuthStep, Write, Finished, vars,
           Tick, ReceiveLogin, ReceiveCreate, ReceiveRead, MissingToken, InvalidToken,
           Authenticated, RefuseLogin, Issue, RefuseRequest, Deliver, WriteFails, Receive
<1> QED
  BY <1>1, <1>2, PTL DEF Spec, UseCase!Spec
=============================================================================
