--------------------------- MODULE AccountsProofs ---------------------------
(***************************************************************************)
(* Proofs about Accounts, for any number of requests and of names.         *)
(***************************************************************************)
EXTENDS Accounts, FiniteSetTheorems, TLAPS

-----------------------------------------------------------------------------
(* Types. *)

\* The conjuncts of TypeOK, by what a step changes, and what it leaves out:
\* a request that is served names a user.
UsersOK    == DOMAIN users \subseteq Name /\ \A u \in DOMAIN users : users[u] \in User
SessionsOK == DOMAIN sessions \subseteq Session /\ \A s \in DOMAIN sessions : sessions[s] \in SessionRow
TokensOK   == /\ handed \in 0..MaxTokens /\ DOMAIN tokens \subseteq 1..handed
              /\ \A t \in DOMAIN tokens : tokens[t] \in TokenRow
StoreOK    == hits \in [Name -> 0..MaxLoginAttempts] /\ guesses \in [Name -> Nat]
HistoryOK  == uses \in [Token -> Nat] /\ flying \in [Name -> SUBSET Request]
RequestsOK == /\ req \in [Request -> Locals]
              /\ \A r \in Request : req[r].at # "idle" => req[r].user \in Name

Typed == UsersOK /\ SessionsOK /\ TokensOK /\ StoreOK /\ HistoryOK /\ RequestsOK

\* An idle place has the locals of its type.
LEMMA IdleType == Idle \in Locals
BY AccountsAssumption DEF Idle, Locals, Place, Session

\* What sets the locals of one request keeps those of all of their type.
LEMMA SetType ==
  ASSUME RequestsOK, NEW r \in Request, NEW l \in Locals, Set(r, l),
         l.at # "idle" => l.user \in Name
  PROVE  RequestsOK'
BY DEF Set, RequestsOK

\* So does what ends a request.
LEMMA RestType == ASSUME RequestsOK, NEW r \in Request, Rest(r) PROVE RequestsOK'
BY IdleType, SetType DEF Rest, Idle

\* Taking sessions away keeps the others as they are.
LEMMA WithoutType ==
  ASSUME NEW S, SessionsOK, sessions' = Without(S) PROVE SessionsOK'
BY DEF SessionsOK, Without, Keep

\* Every step keeps the tables, the store and the locals of their types.
LEMMA TypeStep == Typed /\ [ANext]_avars => Typed'
<1> SUFFICES ASSUME Typed, [ANext]_avars PROVE Typed'
  OBVIOUS
<1>0. UsersOK /\ SessionsOK /\ TokensOK /\ StoreOK /\ HistoryOK /\ RequestsOK
  BY DEF Typed
<1> USE DEF Typed
<1>1. ASSUME NEW r \in Request, NEW u \in Name, Count(r, u) PROVE Typed'
  <2>1. UsersOK' /\ SessionsOK' /\ TokensOK' /\ StoreOK' /\ HistoryOK'
    BY <1>0, <1>1 DEF Count, tables, history, UsersOK, SessionsOK, TokensOK, StoreOK, HistoryOK
  <2>2. RequestsOK'
    <3> DEFINE l == [Idle EXCEPT !.at = "counted", !.user = u]
    <3>1. l \in Locals /\ l.user \in Name
      BY <1>0, <1>1, AccountsAssumption
         DEF Count, At, Idle, Locals, Place, Session, Token, TokensOK, TokenRow,
             RequestsOK
    <3> QED
      BY <1>0, <3>1, SetType, <1>1 DEF Count
  <2> QED
    BY <2>1, <2>2
<1>2. ASSUME NEW r \in Request, NEW u \in Name, Login(r, u) PROVE Typed'
  <2>1. UsersOK' /\ SessionsOK' /\ TokensOK' /\ HistoryOK'
    BY <1>0, <1>2 DEF Login, tables, history, UsersOK, SessionsOK, TokensOK, HistoryOK
  <2>2. RequestsOK'
    <3> DEFINE l == [Idle EXCEPT !.at = "admitted", !.user = u]
    <3>1. l \in Locals /\ l.user \in Name
      BY <1>0, <1>2, AccountsAssumption
         DEF Login, At, Idle, Locals, Place, Session, Token, TokensOK, TokenRow,
             RequestsOK
    <3> QED
      BY <1>0, <3>1, SetType, <1>2 DEF Login
  <2>3. StoreOK'
    BY <1>0, <1>2, AccountsAssumption DEF Login, CheckLimit, StoreOK, history
  <2> QED
    BY <2>1, <2>2, <2>3
<1>3. ASSUME NEW r \in Request, NEW u \in Name, Purge(r, u) PROVE Typed'
  <2>1. UsersOK' /\ SessionsOK' /\ StoreOK' /\ HistoryOK'
    BY <1>0, <1>3 DEF Purge, history, UsersOK, SessionsOK, StoreOK, HistoryOK
  <2>2. RequestsOK'
    <3> DEFINE l == [Idle EXCEPT !.at = "purged", !.user = u]
    <3>1. l \in Locals /\ l.user \in Name
      BY <1>0, <1>3, AccountsAssumption
         DEF Purge, At, Idle, Locals, Place, Session, Token, TokensOK, TokenRow,
             RequestsOK
    <3> QED
      BY <1>0, <3>1, SetType, <1>3 DEF Purge
  <2>3. TokensOK'
    BY <1>0, <1>3 DEF Purge, Keep, TokensOK
  <2> QED
    BY <2>1, <2>2, <2>3
<1>4. ASSUME NEW r \in Request, Insert(r) PROVE Typed'
  <2>1. SessionsOK' /\ TokensOK' /\ StoreOK' /\ HistoryOK'
    BY <1>0, <1>4 DEF Insert, history, SessionsOK, TokensOK, StoreOK, HistoryOK
  <2>2. RequestsOK'
    <3> DEFINE l == [req[r] EXCEPT !.at = "cleared"]
    <3>1. l \in Locals /\ l.user \in Name
      BY <1>0, <1>4, AccountsAssumption
         DEF Insert, At, Idle, Locals, Place, Session, Token, TokensOK, TokenRow,
             RequestsOK
    <3> QED
      BY <1>0, <3>1, SetType, <1>4 DEF Insert
  <2>3. UsersOK'
    BY <1>0, <1>4 DEF Insert, At, UsersOK, RequestsOK, User
  <2> QED
    BY <2>1, <2>2, <2>3
<1>5. ASSUME NEW r \in Request, WrongPassword(r) PROVE Typed'
  <2>1. UsersOK' /\ SessionsOK' /\ TokensOK' /\ HistoryOK'
    BY <1>0, <1>5 DEF WrongPassword, tables, UsersOK, SessionsOK, TokensOK, HistoryOK
  <2>2. RequestsOK'
    BY <1>0, <1>5, RestType DEF WrongPassword
  <2>3. StoreOK'
    BY <1>0, <1>5 DEF WrongPassword, At, StoreOK, RequestsOK
  <2> QED
    BY <2>1, <2>2, <2>3
<1>6. ASSUME NEW r \in Request, RightPassword(r) PROVE Typed'
  <2>1. UsersOK' /\ SessionsOK' /\ TokensOK' /\ HistoryOK'
    BY <1>0, <1>6 DEF RightPassword, tables, UsersOK, SessionsOK, TokensOK, HistoryOK
  <2>2. RequestsOK'
    <3> DEFINE l == [req[r] EXCEPT !.at = "verified", !.resets = users[req[r].user].resets]
    <3>1. l \in Locals /\ l.user \in Name
      BY ZenonT(30), <1>0, <1>6, AccountsAssumption
         DEF RightPassword, At, Idle, Locals, Place, Session, Token, TokensOK, TokenRow,
             UsersOK, User, RequestsOK
    <3> QED
      BY <1>0, <3>1, SetType, <1>6 DEF RightPassword
  <2>3. StoreOK'
    BY <1>0, <1>6, AccountsAssumption DEF RightPassword, ResetLimit, At, StoreOK, RequestsOK
  <2> QED
    BY <2>1, <2>2, <2>3
<1>7. ASSUME NEW r \in Request, ChooseOld(r) PROVE Typed'
  <2>1. UsersOK' /\ SessionsOK' /\ TokensOK' /\ StoreOK' /\ HistoryOK'
    BY <1>0, <1>7
       DEF ChooseOld, tables, history, UsersOK, SessionsOK, TokensOK, StoreOK, HistoryOK
  <2>2. RequestsOK'
    <3> DEFINE l == [req[r] EXCEPT !.at = "chosen", !.old = SessionsOf(req[r].user)]
    <3>1. l \in Locals /\ l.user \in Name
      BY <1>0, <1>7, AccountsAssumption
         DEF ChooseOld, At, Idle, Locals, Place, Session, Token, TokensOK, TokenRow,
             SessionsOK, SessionsOf, RequestsOK
    <3> QED
      BY <1>0, <3>1, SetType, <1>7 DEF ChooseOld
  <2> QED
    BY <2>1, <2>2
<1>8. ASSUME NEW r \in Request, DeleteOld(r) PROVE Typed'
  <2>1. UsersOK' /\ TokensOK' /\ StoreOK' /\ HistoryOK'
    BY <1>0, <1>8 DEF DeleteOld, history, UsersOK, TokensOK, StoreOK, HistoryOK
  <2>2. RequestsOK'
    <3> DEFINE l == [req[r] EXCEPT !.at = "cleared", !.old = {}]
    <3>1. l \in Locals /\ l.user \in Name
      BY <1>0, <1>8, AccountsAssumption
         DEF DeleteOld, At, Idle, Locals, Place, Session, Token, TokensOK, TokenRow,
             RequestsOK
    <3> QED
      BY <1>0, <3>1, SetType, <1>8 DEF DeleteOld
  <2>3. SessionsOK'
    BY <1>0, <1>8, WithoutType DEF DeleteOld
  <2> QED
    BY <2>1, <2>2, <2>3
<1>9. ASSUME NEW r \in Request, AddSession(r) PROVE Typed'
  <2>1. UsersOK' /\ TokensOK' /\ StoreOK' /\ HistoryOK'
    BY <1>0, <1>9 DEF AddSession, history, UsersOK, TokensOK, StoreOK, HistoryOK
  <2>2. RequestsOK'
    BY <1>0, <1>9, RestType DEF AddSession
  <2>3. SessionsOK'
    <3> DEFINE new == CHOOSE s \in FreshSessions : TRUE
    <3>1. new \in Session
      BY <1>9 DEF AddSession, FreshSessions
    <3>2. [user |-> req[r].user, resets |-> req[r].resets, by |-> r] \in SessionRow
      BY <1>0, <1>9 DEF AddSession, At, RequestsOK, Locals, SessionRow
    <3> QED
      BY <1>0, <3>1, <3>2, <1>9 DEF AddSession, SessionsOK
  <2> QED
    BY <2>1, <2>2, <2>3
<1>10. ASSUME NEW r \in Request, NEW t \in DOMAIN tokens, FindToken(r, t) PROVE Typed'
  <2>1. UsersOK' /\ SessionsOK' /\ TokensOK' /\ StoreOK' /\ HistoryOK'
    BY <1>0, <1>10
       DEF FindToken, tables, history, UsersOK, SessionsOK, TokensOK, StoreOK, HistoryOK
  <2>2. RequestsOK'
    <3> DEFINE l == [Idle EXCEPT !.at = "found", !.user = tokens[t].user, !.item = t]
    <3>1. t \in Nat /\ tokens[t].user \in Name
      BY <1>0, AccountsAssumption DEF TokensOK, TokenRow
    <3>2. l \in Locals /\ l.user \in Name
      BY <3>1, IdleType, AccountsAssumption DEF Idle, Locals, Place, Session
    <3> QED
      BY <1>0, <3>2, SetType, <1>10 DEF FindToken
  <2> QED
    BY <2>1, <2>2
<1>11. ASSUME NEW r \in Request, AddToken(r) PROVE Typed'
  <2>1. UsersOK' /\ SessionsOK' /\ StoreOK' /\ HistoryOK'
    BY <1>0, <1>11 DEF AddToken, history, UsersOK, SessionsOK, StoreOK, HistoryOK
  <2>2. RequestsOK'
    BY <1>0, <1>11, RestType DEF AddToken
  <2>3. TokensOK'
    <3>1. [user |-> req[r].user, live |-> TRUE, used |-> FALSE] \in TokenRow
      BY <1>0, <1>11 DEF AddToken, At, RequestsOK, TokenRow
    <3> QED
      BY <1>0, <3>1, <1>11, AccountsAssumption DEF AddToken, TokensOK
  <2> QED
    BY <2>1, <2>2, <2>3
<1>12. ASSUME NEW r \in Request, Reset(r) PROVE Typed'
  <2>1. StoreOK'
    BY <1>0, <1>12 DEF Reset, ResetHistory, StoreOK
  <2>2. RequestsOK'
    BY <1>0, <1>12, RestType DEF Reset
  <2>3. SessionsOK'
    BY <1>0, <1>12, WithoutType DEF Reset
  <2>4. UsersOK'
    BY <1>0, <1>12 DEF Reset, UsersOK, User
  <2>5. TokensOK'
    BY <1>0, <1>12 DEF Reset, TokensOK, TokenRow
  <2>6. HistoryOK'
    <3>1. uses' \in [Token -> Nat]
      <4> DEFINE t == req[r].item
      <4>1. uses' = [uses EXCEPT ![t] = uses[t] + 1]
        BY <1>12 DEF Reset, ResetHistory
      <4>2. t \in Token => uses[t] + 1 \in Nat
        BY <1>0 DEF HistoryOK
      <4> QED
        BY <1>0, <4>1, <4>2 DEF HistoryOK
    <3>2. flying' \in [Name -> SUBSET Request]
      <4> DEFINE U == {x \in Request : req[x].at \in LoggingIn /\ req[x].user = req[r].user}
      <4>1. flying' = [flying EXCEPT ![req[r].user] = U] /\ U \in SUBSET Request
        BY <1>12 DEF Reset, ResetHistory
      <4> HIDE DEF U
      <4> QED
        BY <1>0, <4>1 DEF HistoryOK
    <3> QED
      BY <3>1, <3>2 DEF HistoryOK
  <2> QED
    BY <2>1, <2>2, <2>3, <2>4, <2>5, <2>6
<1>13. ASSUME NEW r \in Request, Fail(r) PROVE Typed'
  <2>1. UsersOK' /\ SessionsOK' /\ TokensOK' /\ StoreOK' /\ HistoryOK'
    BY <1>0, <1>13 DEF Fail, tables, history, UsersOK, SessionsOK, TokensOK, StoreOK, HistoryOK
  <2>2. RequestsOK'
    BY <1>0, <1>13, RestType DEF Fail
  <2> QED
    BY <2>1, <2>2
<1>14. ASSUME NEW u \in Name, HitExpires(u) PROVE Typed'
  <2>1. UsersOK' /\ SessionsOK' /\ TokensOK' /\ HistoryOK' /\ RequestsOK'
    BY <1>0, <1>14 DEF HitExpires, tables, UsersOK, SessionsOK, TokensOK, HistoryOK, RequestsOK
  <2>2. StoreOK'
    BY <1>0, <1>14, AccountsAssumption DEF HitExpires, StoreOK
  <2> QED
    BY <2>1, <2>2
<1>15. ASSUME NEW s \in DOMAIN sessions, EndSession(s) PROVE Typed'
  <2>1. UsersOK' /\ TokensOK' /\ StoreOK' /\ HistoryOK' /\ RequestsOK'
    BY <1>0, <1>15 DEF EndSession, history, UsersOK, TokensOK, StoreOK, HistoryOK, RequestsOK
  <2>2. SessionsOK'
    BY <1>0, <1>15, WithoutType DEF EndSession
  <2> QED
    BY <2>1, <2>2
<1>16. ASSUME NEW t \in DOMAIN tokens, TokenExpires(t) PROVE Typed'
  <2>1. UsersOK' /\ SessionsOK' /\ StoreOK' /\ HistoryOK' /\ RequestsOK'
    BY <1>0, <1>16
       DEF TokenExpires, history, UsersOK, SessionsOK, StoreOK, HistoryOK, RequestsOK
  <2>2. TokensOK'
    BY <1>0, <1>16 DEF TokenExpires, TokensOK, TokenRow
  <2> QED
    BY <2>1, <2>2
<1>17. ASSUME Restart PROVE Typed'
  <2>1. UsersOK' /\ SessionsOK' /\ TokensOK' /\ HistoryOK'
    BY <1>0, <1>17 DEF Restart, tables, UsersOK, SessionsOK, TokensOK, HistoryOK
  <2>2. RequestsOK'
    BY <1>17, IdleType DEF Restart, RequestsOK, Idle
  <2>3. StoreOK'
    BY <1>17, AccountsAssumption DEF Restart, StoreOK
  <2> QED
    BY <2>1, <2>2, <2>3
<1>18. CASE UNCHANGED avars
  BY <1>0, <1>18 DEF avars, tables, history, UsersOK, SessionsOK, TokensOK, StoreOK, HistoryOK,
     RequestsOK
<1> QED
  BY <1>1, <1>2, <1>3, <1>4, <1>5, <1>6, <1>7, <1>8, <1>9, <1>10, <1>11, <1>12, <1>13,
     <1>14, <1>15, <1>16, <1>17, <1>18 DEF ANext

\* The tables, the store and the locals of every request are of their types.
THEOREM TypeInvariant == ASpec => []TypeOK
<1>1. AInit => Typed
  BY AccountsAssumption, IdleType
     DEF AInit, Typed, UsersOK, SessionsOK, TokensOK, StoreOK, HistoryOK, RequestsOK, Idle
<1>2. Typed => TypeOK
  BY DEF Typed, UsersOK, SessionsOK, TokensOK, StoreOK, HistoryOK, RequestsOK, TypeOK
<1> QED
  BY <1>1, <1>2, TypeStep, PTL DEF ASpec

-----------------------------------------------------------------------------
(* Accounts and sessions. *)

\* A request that has found no account has registered none.
RegisterInv ==
  /\ AccountsOverlap
  /\ \A r \in Request :
       req[r].at = "counted" => /\ req[r].resets = 0
                                /\ \A u \in DOMAIN users : users[u].by # r

\* No step lets a place register twice.
LEMMA RegisterStep == Typed /\ RegisterInv /\ [ANext]_avars => RegisterInv'
<1> SUFFICES ASSUME Typed, RegisterInv, [ANext]_avars PROVE RegisterInv'
  OBVIOUS
<1>0. RequestsOK /\ UsersOK /\ SessionsOK /\ TokensOK /\ StoreOK /\ HistoryOK
  BY DEF Typed

<1>1. ASSUME NEW r \in Request, NEW u \in Name, Count(r, u) PROVE RegisterInv'
  BY <1>0, <1>1
     DEF Count, Set, At, Idle, tables, history, RegisterInv, AccountsOverlap, RequestsOK
<1>2. ASSUME NEW r \in Request, NEW u \in Name, Login(r, u) PROVE RegisterInv'
  BY <1>0, <1>2
     DEF Login, CheckLimit, Set, At, Idle, tables, history, RegisterInv, AccountsOverlap,
         RequestsOK
<1>3. ASSUME NEW r \in Request, NEW u \in Name, Purge(r, u) PROVE RegisterInv'
  BY <1>0, <1>3
     DEF Purge, Keep, Set, At, Idle, tables, history, RegisterInv, AccountsOverlap,
         RequestsOK
<1>4. ASSUME NEW r \in Request, Insert(r) PROVE RegisterInv'
  BY <1>0, <1>4 DEF Insert, Set, At, tables, history, RegisterInv, AccountsOverlap, RequestsOK
<1>5. ASSUME NEW r \in Request, WrongPassword(r) PROVE RegisterInv'
  BY <1>0, <1>5
     DEF WrongPassword, Rest, Set, At, Idle, tables, history, RegisterInv,
         AccountsOverlap, RequestsOK
<1>6. ASSUME NEW r \in Request, RightPassword(r) PROVE RegisterInv'
  BY <1>0, <1>6
     DEF RightPassword, ResetLimit, Set, At, tables, history, RegisterInv,
         AccountsOverlap, RequestsOK
<1>7. ASSUME NEW r \in Request, ChooseOld(r) PROVE RegisterInv'
  BY <1>0, <1>7
     DEF ChooseOld, SessionsOf, Set, At, tables, history, RegisterInv, AccountsOverlap,
         RequestsOK
<1>8. ASSUME NEW r \in Request, DeleteOld(r) PROVE RegisterInv'
  BY <1>0, <1>8
     DEF DeleteOld, Without, Keep, Set, At, tables, history, RegisterInv, AccountsOverlap,
         RequestsOK
<1>9. ASSUME NEW r \in Request, AddSession(r) PROVE RegisterInv'
  BY <1>0, <1>9
     DEF AddSession, FreshSessions, Rest, Set, At, Idle, tables, history, RegisterInv,
         AccountsOverlap, RequestsOK
<1>10. ASSUME NEW r \in Request, NEW t \in DOMAIN tokens, FindToken(r, t) PROVE RegisterInv'
  BY <1>0, <1>10
     DEF FindToken, Set, At, Idle, tables, history, RegisterInv, AccountsOverlap,
         RequestsOK
<1>11. ASSUME NEW r \in Request, AddToken(r) PROVE RegisterInv'
  BY <1>0, <1>11
     DEF AddToken, Rest, Set, At, Idle, tables, history, RegisterInv, AccountsOverlap,
         RequestsOK
<1>12. ASSUME NEW r \in Request, Reset(r) PROVE RegisterInv'
  BY <1>0, <1>12
     DEF Reset, ResetHistory, Without, SessionsOf, Keep, Rest, Set, At, Idle, tables,
         history, RegisterInv, AccountsOverlap, RequestsOK
<1>13. ASSUME NEW r \in Request, Fail(r) PROVE RegisterInv'
  BY <1>0, <1>13
     DEF Fail, Rest, Set, At, Idle, tables, history, RegisterInv, AccountsOverlap,
         RequestsOK
<1>14. ASSUME NEW u \in Name, HitExpires(u) PROVE RegisterInv'
  BY <1>0, <1>14 DEF HitExpires, tables, history, RegisterInv, AccountsOverlap, RequestsOK
<1>15. ASSUME NEW s \in DOMAIN sessions, EndSession(s) PROVE RegisterInv'
  BY <1>0, <1>15
     DEF EndSession, Without, Keep, tables, history, RegisterInv, AccountsOverlap,
         RequestsOK
<1>16. ASSUME NEW t \in DOMAIN tokens, TokenExpires(t) PROVE RegisterInv'
  BY <1>0, <1>16 DEF TokenExpires, tables, history, RegisterInv, AccountsOverlap, RequestsOK
<1>17. ASSUME Restart PROVE RegisterInv'
  BY <1>0, <1>17 DEF Restart, Idle, tables, history, RegisterInv, AccountsOverlap, RequestsOK
<1>18. CASE UNCHANGED avars
  BY <1>0, <1>18 DEF avars, tables, history, RegisterInv, AccountsOverlap, RequestsOK
<1> QED
  BY <1>1, <1>2, <1>3, <1>4, <1>5, <1>6, <1>7, <1>8, <1>9, <1>10, <1>11, <1>12, <1>13,
     <1>14, <1>15, <1>16, <1>17, <1>18 DEF ANext

\* Who logs in, and who has a session, has an account; and a request that is
\* about to add a session has selected those it added before, or deleted them.
SessionInv ==
  /\ SessionsOverlap
  /\ \A s \in DOMAIN sessions : sessions[s].user \in DOMAIN users
  /\ \A r \in Request :
       /\ req[r].at \in LoggingIn => req[r].user \in DOMAIN users
       /\ \A s \in DOMAIN sessions :
            sessions[s].user = req[r].user /\ sessions[s].by = r =>
              /\ req[r].at # "cleared"
              /\ req[r].at = "chosen" => s \in req[r].old

\* No step gives a place two sessions of a user.
LEMMA SessionStep == Typed /\ SessionInv /\ [ANext]_avars => SessionInv'
<1> SUFFICES ASSUME Typed, SessionInv, [ANext]_avars PROVE SessionInv'
  OBVIOUS
<1>0. RequestsOK /\ UsersOK /\ SessionsOK /\ TokensOK /\ StoreOK /\ HistoryOK
  BY DEF Typed

<1>1. ASSUME NEW r \in Request, NEW u \in Name, Count(r, u) PROVE SessionInv'
  BY <1>0, <1>1
     DEF Count, Set, At, Idle, tables, history, SessionInv, SessionsOverlap, LoggingIn,
         RequestsOK
<1>2. ASSUME NEW r \in Request, NEW u \in Name, Login(r, u) PROVE SessionInv'
  BY <1>0, <1>2
     DEF Login, CheckLimit, Set, At, Idle, tables, history, SessionInv, SessionsOverlap,
         LoggingIn, RequestsOK
<1>3. ASSUME NEW r \in Request, NEW u \in Name, Purge(r, u) PROVE SessionInv'
  BY <1>0, <1>3
     DEF Purge, Keep, Set, At, Idle, tables, history, SessionInv, SessionsOverlap,
         LoggingIn, RequestsOK
<1>4. ASSUME NEW r \in Request, Insert(r) PROVE SessionInv'
  BY <1>0, <1>4
     DEF Insert, Set, At, tables, history, SessionInv, SessionsOverlap, LoggingIn,
         RequestsOK
<1>5. ASSUME NEW r \in Request, WrongPassword(r) PROVE SessionInv'
  BY <1>0, <1>5
     DEF WrongPassword, Rest, Set, At, Idle, tables, history, SessionInv, SessionsOverlap,
         LoggingIn, RequestsOK
<1>6. ASSUME NEW r \in Request, RightPassword(r) PROVE SessionInv'
  BY <1>0, <1>6
     DEF RightPassword, ResetLimit, Set, At, tables, history, SessionInv, SessionsOverlap,
         LoggingIn, RequestsOK
<1>7. ASSUME NEW r \in Request, ChooseOld(r) PROVE SessionInv'
  BY <1>0, <1>7
     DEF ChooseOld, SessionsOf, Set, At, tables, history, SessionInv, SessionsOverlap,
         LoggingIn, RequestsOK
<1>8. ASSUME NEW r \in Request, DeleteOld(r) PROVE SessionInv'
  BY <1>0, <1>8
     DEF DeleteOld, Without, Keep, Set, At, tables, history, SessionInv, SessionsOverlap,
         LoggingIn, RequestsOK
<1>9. ASSUME NEW r \in Request, AddSession(r) PROVE SessionInv'
  <2> DEFINE new == CHOOSE s \in FreshSessions : TRUE
             row == [user |-> req[r].user, resets |-> req[r].resets, by |-> r]
  <2>1. new \notin DOMAIN sessions
    BY <1>9 DEF AddSession, FreshSessions
  <2>2. sessions' = [s \in DOMAIN sessions \cup {new} |-> IF s = new THEN row ELSE sessions[s]]
    BY <1>9 DEF AddSession
  <2>3. /\ req[r].at = "cleared" /\ req' = [req EXCEPT ![r] = Idle]
        /\ users' = users
    BY <1>9 DEF AddSession, At, Rest, Set
  <2>4. /\ req[r].user \in DOMAIN users
        /\ \A s \in DOMAIN sessions : ~(sessions[s].user = row.user /\ sessions[s].by = r)
    BY <2>3 DEF SessionInv, LoggingIn
  <2> HIDE DEF new
  <2>5. SessionsOverlap'
    BY <2>1, <2>2, <2>4 DEF SessionInv, SessionsOverlap
  <2>6. \A s \in DOMAIN sessions' : sessions'[s].user \in DOMAIN users'
    BY <2>2, <2>3, <2>4 DEF SessionInv
  <2>7. ASSUME NEW x \in Request
        PROVE  /\ req'[x].at \in LoggingIn => req'[x].user \in DOMAIN users'
               /\ \A s \in DOMAIN sessions' :
                    sessions'[s].user = req'[x].user /\ sessions'[s].by = x =>
                      /\ req'[x].at # "cleared"
                      /\ req'[x].at = "chosen" => s \in req'[x].old
    <3>1. CASE x = r
      BY <1>0, <2>3, <3>1 DEF RequestsOK, Idle, LoggingIn
    <3>2. CASE x # r
      BY <1>0, <2>2, <2>3, <3>2 DEF RequestsOK, SessionInv
    <3> QED
      BY <3>1, <3>2
  <2> QED
    BY <2>5, <2>6, <2>7 DEF SessionInv
<1>10. ASSUME NEW r \in Request, NEW t \in DOMAIN tokens, FindToken(r, t) PROVE SessionInv'
  BY <1>0, <1>10
     DEF FindToken, Set, At, Idle, tables, history, SessionInv, SessionsOverlap,
         LoggingIn, RequestsOK
<1>11. ASSUME NEW r \in Request, AddToken(r) PROVE SessionInv'
  BY <1>0, <1>11
     DEF AddToken, Rest, Set, At, Idle, tables, history, SessionInv, SessionsOverlap,
         LoggingIn, RequestsOK
<1>12. ASSUME NEW r \in Request, Reset(r) PROVE SessionInv'
  BY <1>0, <1>12
     DEF Reset, ResetHistory, Without, SessionsOf, Keep, Rest, Set, At, Idle, tables,
         history, SessionInv, SessionsOverlap, LoggingIn, RequestsOK
<1>13. ASSUME NEW r \in Request, Fail(r) PROVE SessionInv'
  BY <1>0, <1>13
     DEF Fail, Rest, Set, At, Idle, tables, history, SessionInv, SessionsOverlap,
         LoggingIn, RequestsOK
<1>14. ASSUME NEW u \in Name, HitExpires(u) PROVE SessionInv'
  BY <1>0, <1>14
     DEF HitExpires, tables, history, SessionInv, SessionsOverlap, LoggingIn, RequestsOK
<1>15. ASSUME NEW s \in DOMAIN sessions, EndSession(s) PROVE SessionInv'
  BY <1>0, <1>15
     DEF EndSession, Without, Keep, tables, history, SessionInv, SessionsOverlap,
         LoggingIn, RequestsOK
<1>16. ASSUME NEW t \in DOMAIN tokens, TokenExpires(t) PROVE SessionInv'
  BY <1>0, <1>16
     DEF TokenExpires, tables, history, SessionInv, SessionsOverlap, LoggingIn, RequestsOK
<1>17. ASSUME Restart PROVE SessionInv'
  BY <1>0, <1>17
     DEF Restart, Idle, tables, history, SessionInv, SessionsOverlap, LoggingIn,
         RequestsOK
<1>18. CASE UNCHANGED avars
  BY <1>0, <1>18 DEF avars, tables, history, SessionInv, SessionsOverlap, LoggingIn, RequestsOK
<1> QED
  BY <1>1, <1>2, <1>3, <1>4, <1>5, <1>6, <1>7, <1>8, <1>9, <1>10, <1>11, <1>12, <1>13,
     <1>14, <1>15, <1>16, <1>17, <1>18 DEF ANext

\* A request whose password has been reset since is one that the reset has met.
StaleInv ==
  /\ StaleSessionsOverlap
  /\ \A r \in Request :
       req[r].at \in LoggingIn /\ req[r].resets # users[req[r].user].resets =>
         r \in flying[req[r].user]

\* No step leaves a session for an old password that the reset has not met.
LEMMA StaleStep == Typed /\ RegisterInv /\ SessionInv /\ StaleInv /\ [ANext]_avars => StaleInv'
<1> SUFFICES ASSUME Typed, RegisterInv, SessionInv, StaleInv, [ANext]_avars PROVE StaleInv'
  OBVIOUS
<1>0. RequestsOK /\ UsersOK /\ SessionsOK /\ TokensOK /\ StoreOK /\ HistoryOK
  BY DEF Typed

<1>1. ASSUME NEW r \in Request, NEW u \in Name, Count(r, u) PROVE StaleInv'
  BY <1>0, <1>1
     DEF Count, Set, At, Idle, tables, history, StaleInv, StaleSessionsOverlap,
         SessionInv, RegisterInv, LoggingIn, RequestsOK
<1>2. ASSUME NEW r \in Request, NEW u \in Name, Login(r, u) PROVE StaleInv'
  BY <1>0, <1>2
     DEF Login, CheckLimit, Set, At, Idle, tables, history, StaleInv,
         StaleSessionsOverlap, SessionInv, RegisterInv, LoggingIn, RequestsOK
<1>3. ASSUME NEW r \in Request, NEW u \in Name, Purge(r, u) PROVE StaleInv'
  BY <1>0, <1>3
     DEF Purge, Keep, Set, At, Idle, tables, history, StaleInv, StaleSessionsOverlap,
         SessionInv, RegisterInv, LoggingIn, RequestsOK
<1>4. ASSUME NEW r \in Request, Insert(r) PROVE StaleInv'
  BY <1>0, <1>4
     DEF Insert, Set, At, tables, history, StaleInv, StaleSessionsOverlap, SessionInv,
         RegisterInv, LoggingIn, RequestsOK
<1>5. ASSUME NEW r \in Request, WrongPassword(r) PROVE StaleInv'
  BY <1>0, <1>5
     DEF WrongPassword, Rest, Set, At, Idle, tables, history, StaleInv,
         StaleSessionsOverlap, SessionInv, RegisterInv, LoggingIn, RequestsOK
<1>6. ASSUME NEW r \in Request, RightPassword(r) PROVE StaleInv'
  BY <1>0, <1>6
     DEF RightPassword, ResetLimit, Set, At, tables, history, StaleInv,
         StaleSessionsOverlap, SessionInv, RegisterInv, LoggingIn, RequestsOK
<1>7. ASSUME NEW r \in Request, ChooseOld(r) PROVE StaleInv'
  BY <1>0, <1>7
     DEF ChooseOld, SessionsOf, Set, At, tables, history, StaleInv, StaleSessionsOverlap,
         SessionInv, RegisterInv, LoggingIn, RequestsOK
<1>8. ASSUME NEW r \in Request, DeleteOld(r) PROVE StaleInv'
  <2>1. /\ \A s \in DOMAIN sessions' : s \in DOMAIN sessions /\ sessions'[s] = sessions[s]
        /\ \A q \in Request \ {r} : req'[q] = req[q]
        /\ req[r].at = "chosen" /\ req'[r].at = "cleared"
        /\ req'[r].user = req[r].user /\ req'[r].resets = req[r].resets
        /\ UNCHANGED <<users, history>>
    BY <1>0, <1>8 DEF DeleteOld, Without, Keep, Set, At, RequestsOK
  <2>2. StaleSessionsOverlap'
    BY <2>1 DEF StaleInv, StaleSessionsOverlap, history
  <2>3. \A q \in Request : req'[q].at \in LoggingIn => req[q].at \in LoggingIn
    BY SMTT(30), <2>1 DEF LoggingIn
  <2> QED
    BY <2>1, <2>2, <2>3 DEF StaleInv, history
<1>9. ASSUME NEW r \in Request, AddSession(r) PROVE StaleInv'
  BY <1>0, <1>9
     DEF AddSession, FreshSessions, Rest, Set, At, Idle, tables, history, StaleInv,
         StaleSessionsOverlap, SessionInv, RegisterInv, LoggingIn, RequestsOK
<1>10. ASSUME NEW r \in Request, NEW t \in DOMAIN tokens, FindToken(r, t) PROVE StaleInv'
  BY <1>0, <1>10
     DEF FindToken, Set, At, Idle, tables, history, StaleInv, StaleSessionsOverlap,
         SessionInv, RegisterInv, LoggingIn, RequestsOK
<1>11. ASSUME NEW r \in Request, AddToken(r) PROVE StaleInv'
  BY <1>0, <1>11
     DEF AddToken, Rest, Set, At, Idle, tables, history, StaleInv, StaleSessionsOverlap,
         SessionInv, RegisterInv, LoggingIn, RequestsOK
<1>12. ASSUME NEW r \in Request, Reset(r) PROVE StaleInv'
  <2> DEFINE u == req[r].user
  <2>1. /\ req' = [req EXCEPT ![r] = Idle]
        /\ flying' = [flying EXCEPT ![u] =
                        {x \in Request : req[x].at \in LoggingIn /\ req[x].user = u}]
    BY <1>12 DEF Reset, ResetHistory, Rest, Set
  <2>2. \A s \in DOMAIN sessions' : /\ s \in DOMAIN sessions /\ sessions'[s] = sessions[s]
                                    /\ sessions'[s].user # u
    BY <1>12 DEF Reset, Without, Keep, SessionsOf
  <2>3. u \in Name
    BY <1>0, <1>12 DEF Reset, At, RequestsOK
  <2>4. \A v \in DOMAIN users : v # u => users'[v] = users[v] /\ flying'[v] = flying[v]
    <3>1. \A v \in DOMAIN users : v # u => users'[v] = users[v]
      BY <1>12 DEF Reset
    <3> QED
      BY <1>0, <2>1, <3>1 DEF UsersOK, HistoryOK
  <2>5. StaleSessionsOverlap'
    BY <2>2, <2>4 DEF StaleInv, StaleSessionsOverlap, SessionInv
  <2>6. ASSUME NEW x \in Request, req'[x].at \in LoggingIn,
               req'[x].resets # users'[req'[x].user].resets
        PROVE  x \in flying'[req'[x].user]
    <3>1. x # r /\ req'[x] = req[x]
      BY <1>0, <2>1, <2>6 DEF RequestsOK, Idle, LoggingIn
    <3>2. CASE req[x].user = u
      BY <1>0, <2>1, <2>3, <2>6, <3>1, <3>2 DEF HistoryOK
    <3>3. CASE req[x].user # u
      BY <2>4, <2>6, <3>1, <3>3 DEF StaleInv, SessionInv
    <3> QED
      BY <3>2, <3>3
  <2> QED
    BY <2>5, <2>6 DEF StaleInv
<1>13. ASSUME NEW r \in Request, Fail(r) PROVE StaleInv'
  BY <1>0, <1>13
     DEF Fail, Rest, Set, At, Idle, tables, history, StaleInv, StaleSessionsOverlap,
         SessionInv, RegisterInv, LoggingIn, RequestsOK
<1>14. ASSUME NEW u \in Name, HitExpires(u) PROVE StaleInv'
  BY <1>0, <1>14
     DEF HitExpires, tables, history, StaleInv, StaleSessionsOverlap, SessionInv,
         RegisterInv, LoggingIn, RequestsOK
<1>15. ASSUME NEW s \in DOMAIN sessions, EndSession(s) PROVE StaleInv'
  BY <1>0, <1>15
     DEF EndSession, Without, Keep, tables, history, StaleInv, StaleSessionsOverlap,
         SessionInv, RegisterInv, LoggingIn, RequestsOK
<1>16. ASSUME NEW t \in DOMAIN tokens, TokenExpires(t) PROVE StaleInv'
  BY <1>0, <1>16
     DEF TokenExpires, tables, history, StaleInv, StaleSessionsOverlap, SessionInv,
         RegisterInv, LoggingIn, RequestsOK
<1>17. ASSUME Restart PROVE StaleInv'
  BY <1>0, <1>17
     DEF Restart, Idle, tables, history, StaleInv, StaleSessionsOverlap, SessionInv,
         RegisterInv, LoggingIn, RequestsOK
<1>18. CASE UNCHANGED avars
  BY <1>0, <1>18
     DEF avars, tables, history, StaleInv, StaleSessionsOverlap, SessionInv, RegisterInv,
         LoggingIn, RequestsOK
<1> QED
  BY <1>1, <1>2, <1>3, <1>4, <1>5, <1>6, <1>7, <1>8, <1>9, <1>10, <1>11, <1>12, <1>13,
     <1>14, <1>15, <1>16, <1>17, <1>18 DEF ANext

-----------------------------------------------------------------------------
(* Tokens and passwords: what requests under way can still do is counted. *)

Found(t)    == {r \in Request : req[r].at = "found" /\ req[r].item = t}
Admitted(u) == {r \in Request : req[r].at = "admitted" /\ req[r].user = u}

\* A set of requests has at most as many as there are; one with a request more,
\* or less, has one more, or less.
LEMMA Counting ==
  ASSUME NEW S \in SUBSET Request, NEW T \in SUBSET Request
  PROVE  /\ Cardinality(S) \in Nat /\ Capacity \in Nat /\ Cardinality(S) <= Capacity
         /\ T \subseteq S => Cardinality(T) <= Cardinality(S)
         /\ \A r \in S : T \subseteq S \ {r} => Cardinality(T) <= Cardinality(S) - 1
         /\ \A r \in Request : T \subseteq S \cup {r} => Cardinality(T) <= Cardinality(S) + 1
<1>1. IsFiniteSet(Request)
  BY AccountsAssumption
<1>2. \A U \in SUBSET Request : IsFiniteSet(U) /\ Cardinality(U) \in Nat
  BY <1>1, FS_Subset, FS_CardinalityType
<1>3. \A U, V \in SUBSET Request : U \subseteq V => Cardinality(U) <= Cardinality(V)
  BY <1>2, FS_Subset
<1>4. Capacity \in Nat /\ Cardinality(S) <= Capacity
  BY <1>2, <1>3 DEF Capacity
<1>5. ASSUME NEW r \in S, T \subseteq S \ {r} PROVE Cardinality(T) <= Cardinality(S) - 1
  <2>1. Cardinality(S \ {r}) = Cardinality(S) - 1
    BY <1>2, FS_RemoveElement
  <2> QED
    BY <1>3, <1>5, <2>1
<1>6. ASSUME NEW r \in Request, T \subseteq S \cup {r}
      PROVE  Cardinality(T) <= Cardinality(S) + 1
  <2>1. Cardinality(S \cup {r}) <= Cardinality(S) + 1
    BY <1>2, FS_AddElement
  <2>2. Cardinality(T) <= Cardinality(S \cup {r})
    BY <1>3, <1>6
  <2>3. Cardinality(T) \in Nat /\ Cardinality(S \cup {r}) \in Nat /\ Cardinality(S) \in Nat
    BY <1>2
  <2> QED
    BY <2>1, <2>2, <2>3
<1> QED
  BY <1>2, <1>3, <1>4, <1>5, <1>6

\* A token that can be found has not been used; one that has been is used again
\* only by those that have found it.
TokenMarks ==
  /\ \A t \in Token : t > handed => uses[t] = 0
  /\ \A t \in DOMAIN tokens : ~tokens[t].used => uses[t] = 0
TokenInv == TokenMarks /\ \A t \in Token : uses[t] + Cardinality(Found(t)) <= Capacity

\* Who is admitted has been counted, unless a hit of the name has expired or been
\* cleared since; and then no more are under way than there are places.
GuessInv ==
  \A u \in Name : guesses[u] + Cardinality(Admitted(u)) <= hits[u] + Capacity

FoundStays    == \A t \in Token : Found(t)' \subseteq Found(t)
AdmittedStay  == \A u \in Name : Admitted(u)' \subseteq Admitted(u)
SomeFindToken == \E r \in Request, t \in DOMAIN tokens : FindToken(r, t)
SomeLogin     == \E r \in Request, u \in Name : Login(r, u)
SomeReset     == \E r \in Request : Reset(r)

\* No step but FindToken adds to those that have found a token.
LEMMA FoundStep == Typed /\ [ANext]_avars => FoundStays \/ SomeFindToken
<1> SUFFICES ASSUME Typed, [ANext]_avars PROVE FoundStays \/ SomeFindToken
  OBVIOUS
<1>0. RequestsOK /\ UsersOK /\ SessionsOK /\ TokensOK /\ StoreOK /\ HistoryOK
  BY DEF Typed

<1>1. ASSUME NEW r \in Request, NEW u \in Name, Count(r, u) PROVE FoundStays \/ SomeFindToken
  BY <1>0, <1>1 DEF Count, Set, At, Idle, tables, history, Found, FoundStays, RequestsOK
<1>2. ASSUME NEW r \in Request, NEW u \in Name, Login(r, u) PROVE FoundStays \/ SomeFindToken
  BY <1>0, <1>2
     DEF Login, CheckLimit, Set, At, Idle, tables, history, Found, FoundStays, RequestsOK
<1>3. ASSUME NEW r \in Request, NEW u \in Name, Purge(r, u) PROVE FoundStays \/ SomeFindToken
  BY <1>0, <1>3 DEF Purge, Keep, Set, At, Idle, tables, history, Found, FoundStays, RequestsOK
<1>4. ASSUME NEW r \in Request, Insert(r) PROVE FoundStays \/ SomeFindToken
  BY <1>0, <1>4 DEF Insert, Set, At, tables, history, Found, FoundStays, RequestsOK
<1>5. ASSUME NEW r \in Request, WrongPassword(r) PROVE FoundStays \/ SomeFindToken
  BY <1>0, <1>5
     DEF WrongPassword, Rest, Set, At, Idle, tables, history, Found, FoundStays,
         RequestsOK
<1>6. ASSUME NEW r \in Request, RightPassword(r) PROVE FoundStays \/ SomeFindToken
  BY <1>0, <1>6
     DEF RightPassword, ResetLimit, Set, At, tables, history, Found, FoundStays,
         RequestsOK
<1>7. ASSUME NEW r \in Request, ChooseOld(r) PROVE FoundStays \/ SomeFindToken
  BY <1>0, <1>7
     DEF ChooseOld, SessionsOf, Set, At, tables, history, Found, FoundStays, RequestsOK
<1>8. ASSUME NEW r \in Request, DeleteOld(r) PROVE FoundStays \/ SomeFindToken
  BY <1>0, <1>8
     DEF DeleteOld, Without, Keep, Set, At, tables, history, Found, FoundStays, RequestsOK
<1>9. ASSUME NEW r \in Request, AddSession(r) PROVE FoundStays \/ SomeFindToken
  BY <1>0, <1>9
     DEF AddSession, FreshSessions, Rest, Set, At, Idle, tables, history, Found,
         FoundStays, RequestsOK
<1>10. ASSUME NEW r \in Request, NEW t \in DOMAIN tokens, FindToken(r, t)
      PROVE FoundStays \/ SomeFindToken
  BY <1>10 DEF SomeFindToken
<1>11. ASSUME NEW r \in Request, AddToken(r) PROVE FoundStays \/ SomeFindToken
  BY <1>0, <1>11
     DEF AddToken, Rest, Set, At, Idle, tables, history, Found, FoundStays, RequestsOK
<1>12. ASSUME NEW r \in Request, Reset(r) PROVE FoundStays \/ SomeFindToken
  BY <1>0, <1>12
     DEF Reset, ResetHistory, Without, SessionsOf, Keep, Rest, Set, At, Idle, tables,
         history, Found, FoundStays, RequestsOK
<1>13. ASSUME NEW r \in Request, Fail(r) PROVE FoundStays \/ SomeFindToken
  BY <1>0, <1>13 DEF Fail, Rest, Set, At, Idle, tables, history, Found, FoundStays, RequestsOK
<1>14. ASSUME NEW u \in Name, HitExpires(u) PROVE FoundStays \/ SomeFindToken
  BY <1>0, <1>14 DEF HitExpires, tables, history, Found, FoundStays, RequestsOK
<1>15. ASSUME NEW s \in DOMAIN sessions, EndSession(s) PROVE FoundStays \/ SomeFindToken
  BY <1>0, <1>15 DEF EndSession, Without, Keep, tables, history, Found, FoundStays, RequestsOK
<1>16. ASSUME NEW t \in DOMAIN tokens, TokenExpires(t) PROVE FoundStays \/ SomeFindToken
  BY <1>0, <1>16 DEF TokenExpires, tables, history, Found, FoundStays, RequestsOK
<1>17. ASSUME Restart PROVE FoundStays \/ SomeFindToken
  BY <1>0, <1>17 DEF Restart, Idle, tables, history, Found, FoundStays, RequestsOK
<1>18. CASE UNCHANGED avars
  BY <1>0, <1>18 DEF avars, tables, history, Found, FoundStays, RequestsOK
<1> QED
  BY <1>1, <1>2, <1>3, <1>4, <1>5, <1>6, <1>7, <1>8, <1>9, <1>10, <1>11, <1>12, <1>13,
     <1>14, <1>15, <1>16, <1>17, <1>18 DEF ANext

\* No step but Login adds to those that are admitted.
LEMMA AdmittedStep == Typed /\ [ANext]_avars => AdmittedStay \/ SomeLogin
<1> SUFFICES ASSUME Typed, [ANext]_avars PROVE AdmittedStay \/ SomeLogin
  OBVIOUS
<1>0. RequestsOK /\ UsersOK /\ SessionsOK /\ TokensOK /\ StoreOK /\ HistoryOK
  BY DEF Typed

<1>1. ASSUME NEW r \in Request, NEW u \in Name, Count(r, u) PROVE AdmittedStay \/ SomeLogin
  BY <1>0, <1>1 DEF Count, Set, At, Idle, tables, history, Admitted, AdmittedStay, RequestsOK
<1>2. ASSUME NEW r \in Request, NEW u \in Name, Login(r, u) PROVE AdmittedStay \/ SomeLogin
  BY <1>2 DEF SomeLogin
<1>3. ASSUME NEW r \in Request, NEW u \in Name, Purge(r, u) PROVE AdmittedStay \/ SomeLogin
  BY <1>0, <1>3
     DEF Purge, Keep, Set, At, Idle, tables, history, Admitted, AdmittedStay, RequestsOK
<1>4. ASSUME NEW r \in Request, Insert(r) PROVE AdmittedStay \/ SomeLogin
  BY <1>0, <1>4 DEF Insert, Set, At, tables, history, Admitted, AdmittedStay, RequestsOK
<1>5. ASSUME NEW r \in Request, WrongPassword(r) PROVE AdmittedStay \/ SomeLogin
  BY <1>0, <1>5
     DEF WrongPassword, Rest, Set, At, Idle, tables, history, Admitted, AdmittedStay,
         RequestsOK
<1>6. ASSUME NEW r \in Request, RightPassword(r) PROVE AdmittedStay \/ SomeLogin
  BY <1>0, <1>6
     DEF RightPassword, ResetLimit, Set, At, tables, history, Admitted, AdmittedStay,
         RequestsOK
<1>7. ASSUME NEW r \in Request, ChooseOld(r) PROVE AdmittedStay \/ SomeLogin
  BY <1>0, <1>7
     DEF ChooseOld, SessionsOf, Set, At, tables, history, Admitted, AdmittedStay,
         RequestsOK
<1>8. ASSUME NEW r \in Request, DeleteOld(r) PROVE AdmittedStay \/ SomeLogin
  BY <1>0, <1>8
     DEF DeleteOld, Without, Keep, Set, At, tables, history, Admitted, AdmittedStay,
         RequestsOK
<1>9. ASSUME NEW r \in Request, AddSession(r) PROVE AdmittedStay \/ SomeLogin
  BY <1>0, <1>9
     DEF AddSession, FreshSessions, Rest, Set, At, Idle, tables, history, Admitted,
         AdmittedStay, RequestsOK
<1>10. ASSUME NEW r \in Request, NEW t \in DOMAIN tokens, FindToken(r, t)
      PROVE AdmittedStay \/ SomeLogin
  BY <1>0, <1>10
     DEF FindToken, Set, At, Idle, tables, history, Admitted, AdmittedStay, RequestsOK
<1>11. ASSUME NEW r \in Request, AddToken(r) PROVE AdmittedStay \/ SomeLogin
  BY <1>0, <1>11
     DEF AddToken, Rest, Set, At, Idle, tables, history, Admitted, AdmittedStay,
         RequestsOK
<1>12. ASSUME NEW r \in Request, Reset(r) PROVE AdmittedStay \/ SomeLogin
  BY <1>0, <1>12
     DEF Reset, ResetHistory, Without, SessionsOf, Keep, Rest, Set, At, Idle, tables,
         history, Admitted, AdmittedStay, RequestsOK
<1>13. ASSUME NEW r \in Request, Fail(r) PROVE AdmittedStay \/ SomeLogin
  BY <1>0, <1>13
     DEF Fail, Rest, Set, At, Idle, tables, history, Admitted, AdmittedStay, RequestsOK
<1>14. ASSUME NEW u \in Name, HitExpires(u) PROVE AdmittedStay \/ SomeLogin
  BY <1>0, <1>14 DEF HitExpires, tables, history, Admitted, AdmittedStay, RequestsOK
<1>15. ASSUME NEW s \in DOMAIN sessions, EndSession(s) PROVE AdmittedStay \/ SomeLogin
  BY <1>0, <1>15
     DEF EndSession, Without, Keep, tables, history, Admitted, AdmittedStay, RequestsOK
<1>16. ASSUME NEW t \in DOMAIN tokens, TokenExpires(t) PROVE AdmittedStay \/ SomeLogin
  BY <1>0, <1>16 DEF TokenExpires, tables, history, Admitted, AdmittedStay, RequestsOK
<1>17. ASSUME Restart PROVE AdmittedStay \/ SomeLogin
  BY <1>0, <1>17 DEF Restart, Idle, tables, history, Admitted, AdmittedStay, RequestsOK
<1>18. CASE UNCHANGED avars
  BY <1>0, <1>18 DEF avars, tables, history, Admitted, AdmittedStay, RequestsOK
<1> QED
  BY <1>1, <1>2, <1>3, <1>4, <1>5, <1>6, <1>7, <1>8, <1>9, <1>10, <1>11, <1>12, <1>13,
     <1>14, <1>15, <1>16, <1>17, <1>18 DEF ANext

\* No step makes a used token one that can be found.
LEMMA MarksStep == Typed /\ TokenMarks /\ [ANext]_avars => TokenMarks'
<1> SUFFICES ASSUME Typed, TokenMarks, [ANext]_avars PROVE TokenMarks'
  OBVIOUS
<1>0. RequestsOK /\ UsersOK /\ SessionsOK /\ TokensOK /\ StoreOK /\ HistoryOK
  BY DEF Typed

<1>1. ASSUME NEW r \in Request, NEW u \in Name, Count(r, u) PROVE TokenMarks'
  BY <1>0, <1>1
     DEF Count, Set, At, Idle, tables, history, TokenMarks, TokensOK, HistoryOK,
         RequestsOK, Token
<1>2. ASSUME NEW r \in Request, NEW u \in Name, Login(r, u) PROVE TokenMarks'
  BY <1>0, <1>2
     DEF Login, CheckLimit, Set, At, Idle, tables, history, TokenMarks, TokensOK,
         HistoryOK, RequestsOK, Token
<1>3. ASSUME NEW r \in Request, NEW u \in Name, Purge(r, u) PROVE TokenMarks'
  BY <1>0, <1>3
     DEF Purge, Keep, Set, At, Idle, tables, history, TokenMarks, TokensOK, HistoryOK,
         RequestsOK, Token
<1>4. ASSUME NEW r \in Request, Insert(r) PROVE TokenMarks'
  BY <1>0, <1>4
     DEF Insert, Set, At, tables, history, TokenMarks, TokensOK, HistoryOK, RequestsOK,
         Token
<1>5. ASSUME NEW r \in Request, WrongPassword(r) PROVE TokenMarks'
  BY <1>0, <1>5
     DEF WrongPassword, Rest, Set, At, Idle, tables, history, TokenMarks, TokensOK,
         HistoryOK, RequestsOK, Token
<1>6. ASSUME NEW r \in Request, RightPassword(r) PROVE TokenMarks'
  BY <1>0, <1>6
     DEF RightPassword, ResetLimit, Set, At, tables, history, TokenMarks, TokensOK,
         HistoryOK, RequestsOK, Token
<1>7. ASSUME NEW r \in Request, ChooseOld(r) PROVE TokenMarks'
  BY <1>0, <1>7
     DEF ChooseOld, SessionsOf, Set, At, tables, history, TokenMarks, TokensOK, HistoryOK,
         RequestsOK, Token
<1>8. ASSUME NEW r \in Request, DeleteOld(r) PROVE TokenMarks'
  BY <1>0, <1>8
     DEF DeleteOld, Without, Keep, Set, At, tables, history, TokenMarks, TokensOK,
         HistoryOK, RequestsOK, Token
<1>9. ASSUME NEW r \in Request, AddSession(r) PROVE TokenMarks'
  BY <1>0, <1>9
     DEF AddSession, FreshSessions, Rest, Set, At, Idle, tables, history, TokenMarks,
         TokensOK, HistoryOK, RequestsOK, Token
<1>10. ASSUME NEW r \in Request, NEW t \in DOMAIN tokens, FindToken(r, t) PROVE TokenMarks'
  BY <1>0, <1>10
     DEF FindToken, Set, At, Idle, tables, history, TokenMarks, TokensOK, HistoryOK,
         RequestsOK, Token
<1>11. ASSUME NEW r \in Request, AddToken(r) PROVE TokenMarks'
  <2> DEFINE new == handed + 1
  <2>1. /\ new \in Token /\ handed' = new /\ uses' = uses /\ handed \in Nat
        /\ DOMAIN tokens \subseteq 1..handed
    BY <1>0, <1>11, AccountsAssumption DEF AddToken, history, TokensOK, Token
  <2>2. tokens' = [t \in DOMAIN tokens \cup {new} |->
                     IF t = new THEN [user |-> req[r].user, live |-> TRUE, used |-> FALSE]
                     ELSE tokens[t]]
    BY <1>11 DEF AddToken
  <2>3. uses[new] = 0
    BY <2>1 DEF TokenMarks
  <2>4. \A t \in Token : t > new => uses[t] = 0
    BY <2>1 DEF TokenMarks, Token
  <2>5. \A t \in DOMAIN tokens' : ~tokens'[t].used => uses[t] = 0
    BY <2>2, <2>3 DEF TokenMarks
  <2> QED
    BY <2>1, <2>4, <2>5 DEF TokenMarks
<1>12. ASSUME NEW r \in Request, Reset(r) PROVE TokenMarks'
  BY <1>0, <1>12
     DEF Reset, ResetHistory, Without, SessionsOf, Keep, Rest, Set, At, Idle, tables,
         history, TokenMarks, TokensOK, HistoryOK, RequestsOK, Token
<1>13. ASSUME NEW r \in Request, Fail(r) PROVE TokenMarks'
  BY <1>0, <1>13
     DEF Fail, Rest, Set, At, Idle, tables, history, TokenMarks, TokensOK, HistoryOK,
         RequestsOK, Token
<1>14. ASSUME NEW u \in Name, HitExpires(u) PROVE TokenMarks'
  BY <1>0, <1>14
     DEF HitExpires, tables, history, TokenMarks, TokensOK, HistoryOK, RequestsOK, Token
<1>15. ASSUME NEW s \in DOMAIN sessions, EndSession(s) PROVE TokenMarks'
  BY <1>0, <1>15
     DEF EndSession, Without, Keep, tables, history, TokenMarks, TokensOK, HistoryOK,
         RequestsOK, Token
<1>16. ASSUME NEW t \in DOMAIN tokens, TokenExpires(t) PROVE TokenMarks'
  BY <1>0, <1>16
     DEF TokenExpires, tables, history, TokenMarks, TokensOK, HistoryOK, RequestsOK, Token
<1>17. ASSUME Restart PROVE TokenMarks'
  BY <1>0, <1>17
     DEF Restart, Idle, tables, history, TokenMarks, TokensOK, HistoryOK, RequestsOK,
         Token
<1>18. CASE UNCHANGED avars
  BY <1>0, <1>18 DEF avars, tables, history, TokenMarks, TokensOK, HistoryOK, RequestsOK, Token
<1> QED
  BY <1>1, <1>2, <1>3, <1>4, <1>5, <1>6, <1>7, <1>8, <1>9, <1>10, <1>11, <1>12, <1>13,
     <1>14, <1>15, <1>16, <1>17, <1>18 DEF ANext

\* Only Reset uses a token.
LEMMA UsesStep == Typed /\ [ANext]_avars => uses' = uses \/ SomeReset
<1> SUFFICES ASSUME Typed, [ANext]_avars PROVE uses' = uses \/ SomeReset
  OBVIOUS
<1>0. RequestsOK /\ UsersOK /\ SessionsOK /\ TokensOK /\ StoreOK /\ HistoryOK
  BY DEF Typed

<1>1. ASSUME NEW r \in Request, NEW u \in Name, Count(r, u) PROVE uses' = uses \/ SomeReset
  BY <1>0, <1>1 DEF Count, Set, At, Idle, tables, history, RequestsOK
<1>2. ASSUME NEW r \in Request, NEW u \in Name, Login(r, u) PROVE uses' = uses \/ SomeReset
  BY <1>0, <1>2 DEF Login, CheckLimit, Set, At, Idle, tables, history, RequestsOK
<1>3. ASSUME NEW r \in Request, NEW u \in Name, Purge(r, u) PROVE uses' = uses \/ SomeReset
  BY <1>0, <1>3 DEF Purge, Keep, Set, At, Idle, tables, history, RequestsOK
<1>4. ASSUME NEW r \in Request, Insert(r) PROVE uses' = uses \/ SomeReset
  BY <1>0, <1>4 DEF Insert, Set, At, tables, history, RequestsOK
<1>5. ASSUME NEW r \in Request, WrongPassword(r) PROVE uses' = uses \/ SomeReset
  BY <1>0, <1>5 DEF WrongPassword, Rest, Set, At, Idle, tables, history, RequestsOK
<1>6. ASSUME NEW r \in Request, RightPassword(r) PROVE uses' = uses \/ SomeReset
  BY <1>0, <1>6 DEF RightPassword, ResetLimit, Set, At, tables, history, RequestsOK
<1>7. ASSUME NEW r \in Request, ChooseOld(r) PROVE uses' = uses \/ SomeReset
  BY <1>0, <1>7 DEF ChooseOld, SessionsOf, Set, At, tables, history, RequestsOK
<1>8. ASSUME NEW r \in Request, DeleteOld(r) PROVE uses' = uses \/ SomeReset
  BY <1>0, <1>8 DEF DeleteOld, Without, Keep, Set, At, tables, history, RequestsOK
<1>9. ASSUME NEW r \in Request, AddSession(r) PROVE uses' = uses \/ SomeReset
  BY <1>0, <1>9 DEF AddSession, FreshSessions, Rest, Set, At, Idle, tables, history, RequestsOK
<1>10. ASSUME NEW r \in Request, NEW t \in DOMAIN tokens, FindToken(r, t)
      PROVE uses' = uses \/ SomeReset
  BY <1>0, <1>10 DEF FindToken, Set, At, Idle, tables, history, RequestsOK
<1>11. ASSUME NEW r \in Request, AddToken(r) PROVE uses' = uses \/ SomeReset
  BY <1>0, <1>11 DEF AddToken, Rest, Set, At, Idle, tables, history, RequestsOK
<1>12. ASSUME NEW r \in Request, Reset(r) PROVE uses' = uses \/ SomeReset
  BY <1>12 DEF SomeReset
<1>13. ASSUME NEW r \in Request, Fail(r) PROVE uses' = uses \/ SomeReset
  BY <1>0, <1>13 DEF Fail, Rest, Set, At, Idle, tables, history, RequestsOK
<1>14. ASSUME NEW u \in Name, HitExpires(u) PROVE uses' = uses \/ SomeReset
  BY <1>0, <1>14 DEF HitExpires, tables, history, RequestsOK
<1>15. ASSUME NEW s \in DOMAIN sessions, EndSession(s) PROVE uses' = uses \/ SomeReset
  BY <1>0, <1>15 DEF EndSession, Without, Keep, tables, history, RequestsOK
<1>16. ASSUME NEW t \in DOMAIN tokens, TokenExpires(t) PROVE uses' = uses \/ SomeReset
  BY <1>0, <1>16 DEF TokenExpires, tables, history, RequestsOK
<1>17. ASSUME Restart PROVE uses' = uses \/ SomeReset
  BY <1>0, <1>17 DEF Restart, Idle, tables, history, RequestsOK
<1>18. CASE UNCHANGED avars
  BY <1>0, <1>18 DEF avars, tables, history, RequestsOK
<1> QED
  BY <1>1, <1>2, <1>3, <1>4, <1>5, <1>6, <1>7, <1>8, <1>9, <1>10, <1>11, <1>12, <1>13,
     <1>14, <1>15, <1>16, <1>17, <1>18 DEF ANext

\* Finding a token reserves one use of it, and Reset takes it.
LEMMA TokenStep == Typed /\ TokenInv /\ [ANext]_avars => TokenInv'
<1> SUFFICES ASSUME Typed, TokenInv, [ANext]_avars,
                    NEW t \in Token
             PROVE  uses'[t] + Cardinality(Found(t)') <= Capacity
  BY MarksStep DEF TokenInv
<1>1. /\ RequestsOK /\ TokensOK /\ uses \in [Token -> Nat] /\ Typed'
      /\ uses' \in [Token -> Nat]
  BY TypeStep DEF Typed, HistoryOK
<1>2. Found(t) \in SUBSET Request /\ Found(t)' \in SUBSET Request
  BY DEF Found
<1>3. uses[t] + Cardinality(Found(t)) <= Capacity /\ uses[t] \in Nat /\ uses'[t] \in Nat
  BY <1>1 DEF TokenInv
<1>4. ASSUME NEW r \in Request, NEW x \in DOMAIN tokens, FindToken(r, x)
      PROVE  uses'[t] + Cardinality(Found(t)') <= Capacity
  <2>1. uses' = uses /\ req' = [req EXCEPT ![r] = [Idle EXCEPT !.at = "found",
                                                     !.user = tokens[x].user, !.item = x]]
    BY <1>4 DEF FindToken, Set, history
  <2>2. CASE t = x
    <3>1. uses'[t] = 0
      BY <1>4, <2>1, <2>2 DEF FindToken, TokenInv, TokenMarks
    <3> QED
      BY <1>2, <3>1, Counting
  <2>3. CASE t # x
    <3>1. Found(t)' \subseteq Found(t)
      BY <1>1, <2>1, <2>3 DEF Found, Idle, RequestsOK
    <3> QED
      BY <1>2, <1>3, <2>1, <3>1, Counting
  <2> QED
    BY <2>2, <2>3
<1>5. ASSUME NEW r \in Request, Reset(r)
      PROVE  uses'[t] + Cardinality(Found(t)') <= Capacity
  <2>1. /\ uses' = [uses EXCEPT ![req[r].item] = uses[req[r].item] + 1]
        /\ req' = [req EXCEPT ![r] = Idle] /\ req[r].at = "found"
    BY <1>5 DEF Reset, ResetHistory, Rest, Set, At
  <2>2. Found(t)' \subseteq Found(t) \ {r}
    BY <1>1, <2>1 DEF Found, Idle, RequestsOK
  <2>3. CASE t = req[r].item
    <3>1. uses'[t] = uses[t] + 1 /\ r \in Found(t)
      BY <1>1, <2>1, <2>3 DEF Found
    <3> QED
      BY <1>2, <1>3, <2>2, <3>1, Counting
  <2>4. CASE t # req[r].item
    <3>1. uses'[t] = uses[t]
      BY <1>1, <2>1, <2>4
    <3> QED
      BY <1>2, <1>3, <2>2, <3>1, Counting
  <2> QED
    BY <2>3, <2>4
<1>6. CASE Found(t)' \subseteq Found(t) /\ uses' = uses
  BY <1>2, <1>3, <1>6, Counting
<1> QED
  BY <1>4, <1>5, <1>6, FoundStep, UsesStep DEF FoundStays, SomeFindToken, SomeReset

\* Being admitted reserves one guess, and a wrong password takes it.
LEMMA GuessStep == Typed /\ GuessInv /\ [ANext]_avars => GuessInv'
<1> SUFFICES ASSUME Typed, GuessInv, [ANext]_avars, NEW v \in Name
             PROVE  guesses'[v] + Cardinality(Admitted(v)') <= hits'[v] + Capacity
  BY DEF GuessInv
<1> DEFINE Goal == guesses'[v] + Cardinality(Admitted(v)') <= hits'[v] + Capacity
<1>0. /\ RequestsOK /\ guesses \in [Name -> Nat] /\ guesses' \in [Name -> Nat]
      /\ hits \in [Name -> 0..MaxLoginAttempts] /\ hits' \in [Name -> 0..MaxLoginAttempts]
  BY TypeStep DEF Typed, StoreOK
<1>1. /\ guesses[v] + Cardinality(Admitted(v)) <= hits[v] + Capacity
      /\ guesses[v] \in Nat /\ guesses'[v] \in Nat /\ hits[v] \in Nat /\ hits'[v] \in Nat
  BY <1>0, AccountsAssumption DEF GuessInv
<1>2. Admitted(v) \in SUBSET Request /\ Admitted(v)' \in SUBSET Request
  BY DEF Admitted
<1>3. CASE Admitted(v)' \subseteq Admitted(v) /\ guesses'[v] = guesses[v] /\ hits'[v] = hits[v]
  BY <1>1, <1>2, <1>3, Counting
<1>4. CASE guesses'[v] = 0
  BY <1>1, <1>2, <1>4, Counting
<1>5. CASE SomeLogin
  <2>1. PICK r \in Request, u \in Name : Login(r, u)
    BY <1>5 DEF SomeLogin
  <2>2. /\ guesses' = guesses /\ hits' = [hits EXCEPT ![u] = hits[u] + 1]
        /\ req' = [req EXCEPT ![r] = [Idle EXCEPT !.at = "admitted", !.user = u]]
    BY <2>1 DEF Login, CheckLimit, Set, history
  <2>3. CASE u = v
    <3>1. Admitted(v)' \subseteq Admitted(v) \cup {r}
      BY <1>0, <2>2 DEF Admitted, RequestsOK
    <3>2. hits'[v] = hits[v] + 1 /\ guesses'[v] = guesses[v]
      BY <1>0, <2>2, <2>3
    <3> QED
      BY <1>1, <1>2, <3>1, <3>2, Counting
  <2>4. CASE u # v
    <3>1. Admitted(v)' \subseteq Admitted(v)
      BY <1>0, <2>2, <2>4 DEF Admitted, RequestsOK, Idle
    <3>2. hits'[v] = hits[v] /\ guesses'[v] = guesses[v]
      BY <1>0, <2>2, <2>4
    <3> QED
      BY <1>3, <3>1, <3>2
  <2> QED
    BY <2>3, <2>4
<1>6. CASE AdmittedStay
  <2>0. Admitted(v)' \subseteq Admitted(v)
    BY <1>6 DEF AdmittedStay
  <2>1. ASSUME NEW r \in Request, WrongPassword(r) PROVE Goal
    <3>1. /\ guesses' = [guesses EXCEPT ![req[r].user] = guesses[req[r].user] + 1]
          /\ hits' = hits /\ req[r].at = "admitted" /\ req' = [req EXCEPT ![r] = Idle]
      BY <2>1 DEF WrongPassword, At, Rest, Set
    <3>2. CASE req[r].user = v
      <4>1. r \in Admitted(v) /\ Admitted(v)' \subseteq Admitted(v) \ {r}
        BY <1>0, <3>1, <3>2 DEF Admitted, RequestsOK, Idle
      <4>2. guesses'[v] = guesses[v] + 1
        BY <1>0, <3>1, <3>2
      <4> QED
        BY <1>1, <1>2, <3>1, <4>1, <4>2, Counting
    <3>3. CASE req[r].user # v
      BY <1>0, <1>3, <2>0, <3>1, <3>3
    <3> QED
      BY <3>2, <3>3
  <2>2. ASSUME NEW r \in Request, RightPassword(r) PROVE Goal
    <3>1. /\ hits' = [hits EXCEPT ![req[r].user] = 0]
          /\ guesses' = [guesses EXCEPT ![req[r].user] = 0]
      BY <2>2 DEF RightPassword, ResetLimit
    <3> QED
      BY <1>0, <1>3, <1>4, <2>0, <3>1
  <2>3. ASSUME NEW u \in Name, HitExpires(u) PROVE Goal
    <3>1. hits' = [hits EXCEPT ![u] = hits[u] - 1] /\ guesses' = [guesses EXCEPT ![u] = 0]
      BY <2>3 DEF HitExpires
    <3> QED
      BY <1>0, <1>3, <1>4, <2>0, <3>1
  <2>4. CASE Restart
    <3>1. guesses'[v] = 0
      BY <2>4 DEF Restart
    <3> QED
      BY <1>4, <3>1
  <2>5. CASE guesses' = guesses /\ hits' = hits
    BY <1>3, <2>0, <2>5
  <2>6. ASSUME NEW r \in Request, NEW u \in Name, Count(r, u) \/ Purge(r, u) PROVE Goal
    BY <2>5, <2>6 DEF Count, Purge, history
  <2>7. ASSUME NEW r \in Request, Insert(r) PROVE Goal
    BY <2>5, <2>7 DEF Insert, history
  <2>8. ASSUME NEW r \in Request, ChooseOld(r) PROVE Goal
    BY <2>5, <2>8 DEF ChooseOld, history
  <2>9. ASSUME NEW r \in Request, DeleteOld(r) PROVE Goal
    BY <2>5, <2>9 DEF DeleteOld, history
  <2>10. ASSUME NEW r \in Request, AddSession(r) PROVE Goal
    BY <2>5, <2>10 DEF AddSession, history
  <2>11. ASSUME NEW r \in Request, AddToken(r) PROVE Goal
    BY <2>5, <2>11 DEF AddToken, history
  <2>12. ASSUME NEW r \in Request, Reset(r) PROVE Goal
    BY <2>5, <2>12 DEF Reset, ResetHistory
  <2>13. ASSUME NEW r \in Request, Fail(r) PROVE Goal
    BY <2>5, <2>13 DEF Fail, history
  <2>14. ASSUME NEW r \in Request, NEW t \in DOMAIN tokens, FindToken(r, t) PROVE Goal
    BY <2>5, <2>14 DEF FindToken, history
  <2>15. ASSUME NEW s \in DOMAIN sessions, EndSession(s) PROVE Goal
    BY <2>5, <2>15 DEF EndSession, history
  <2>16. ASSUME NEW t \in DOMAIN tokens, TokenExpires(t) PROVE Goal
    BY <2>5, <2>16 DEF TokenExpires, history
  <2>17. CASE UNCHANGED avars
    BY <2>5, <2>17 DEF avars, history
  <2>18. ASSUME NEW r \in Request, NEW u \in Name, Login(r, u) PROVE Goal
    BY <1>5, <2>18 DEF SomeLogin
  <2> QED
    BY <2>1, <2>2, <2>3, <2>4,
       <2>6, <2>7, <2>8, <2>9, <2>10, <2>11, <2>12, <2>13, <2>14, <2>15, <2>16, <2>17, <2>18
          DEF ANext
<1> QED
  BY <1>5, <1>6, AdmittedStep

-----------------------------------------------------------------------------
(* The theorems. *)

\* The inductive invariant.
IInv == Typed /\ RegisterInv /\ SessionInv /\ StaleInv /\ TokenInv /\ GuessInv

\* The invariant holds at the start.
LEMMA Initially == AInit => IInv
<1> SUFFICES ASSUME AInit PROVE IInv
  OBVIOUS
<1>1. Typed
  BY AccountsAssumption, IdleType
     DEF AInit, Typed, UsersOK, SessionsOK, TokensOK, StoreOK, HistoryOK, RequestsOK, Idle
<1>2. RegisterInv /\ SessionInv /\ StaleInv
  BY DEF AInit, RegisterInv, AccountsOverlap, SessionInv, SessionsOverlap, StaleInv,
         StaleSessionsOverlap, LoggingIn, Idle
<1>3. TokenMarks
  BY DEF AInit, TokenMarks
<1>4. ASSUME NEW t \in Token PROVE uses[t] + Cardinality(Found(t)) <= Capacity
  <2>1. uses[t] = 0 /\ Found(t) \in SUBSET Request
    BY DEF AInit, Found
  <2> QED
    BY <2>1, Counting
<1>5. ASSUME NEW u \in Name
      PROVE  guesses[u] + Cardinality(Admitted(u)) <= hits[u] + Capacity
  <2>1. guesses[u] = 0 /\ hits[u] = 0 /\ Admitted(u) \in SUBSET Request
    BY DEF AInit, Admitted
  <2> QED
    BY <2>1, Counting
<1> QED
  BY <1>1, <1>2, <1>3, <1>4, <1>5 DEF IInv, TokenInv, GuessInv

\* Every step keeps the invariant.
LEMMA Inductive == ASpec => []IInv
<1>1. IInv /\ [ANext]_avars => IInv'
  BY TypeStep, RegisterStep, SessionStep, StaleStep, TokenStep, GuessStep DEF IInv
<1> QED
  BY <1>1, Initially, PTL DEF ASpec

\* Registrations succeed together only while none has been answered.
THEOREM RegistrationsOverlap == ASpec => []AccountsOverlap
<1>1. IInv => AccountsOverlap
  BY DEF IInv, RegisterInv
<1> QED
  BY <1>1, Inductive, PTL

\* A user's sessions are of logins that overlapped, one of each.
THEOREM OneSessionEach == ASpec => []SessionsOverlap
<1>1. IInv => SessionsOverlap
  BY DEF IInv, SessionInv
<1> QED
  BY <1>1, Inductive, PTL

\* What a reset leaves of an old password are the logins it has met.
THEOREM ResetsReachSessions == ASpec => []StaleSessionsOverlap
<1>1. IInv => StaleSessionsOverlap
  BY DEF IInv, StaleInv
<1> QED
  BY <1>1, Inductive, PTL

\* A token is used by those only that found it before it was used.
THEOREM TokensAreBounded == ASpec => []TokensOverlap
<1>1. ASSUME IInv, NEW t \in Token PROVE uses[t] <= Capacity
  <2>1. Found(t) \in SUBSET Request
    BY DEF Found
  <2>2. uses[t] \in Nat /\ uses[t] + Cardinality(Found(t)) <= Capacity
    BY <1>1 DEF IInv, Typed, HistoryOK, TokenInv
  <2> QED
    BY <2>1, <2>2, Counting
<1>2. IInv => TokensOverlap
  BY <1>1 DEF TokensOverlap
<1> QED
  BY <1>2, Inductive, PTL

\* The lockout bounds the wrong passwords, for any number of attempts at a time.
THEOREM LockoutBounds == ASpec => []GuessesBounded
<1>1. ASSUME IInv, NEW u \in Name PROVE guesses[u] <= MaxLoginAttempts + Capacity
  <2>1. Admitted(u) \in SUBSET Request
    BY DEF Admitted
  <2>2. /\ guesses[u] \in Nat /\ hits[u] \in 0..MaxLoginAttempts
        /\ guesses[u] + Cardinality(Admitted(u)) <= hits[u] + Capacity
    BY <1>1 DEF IInv, Typed, StoreOK, GuessInv
  <2> QED
    BY <2>1, <2>2, Counting, AccountsAssumption
<1>2. IInv => GuessesBounded
  BY <1>1 DEF GuessesBounded
<1> QED
  BY <1>2, Inductive, PTL
=============================================================================
