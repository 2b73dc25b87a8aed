------------------------------ MODULE Accounts ------------------------------
(***************************************************************************)
(* Accounts, sessions and reset tokens: the handlers of auth.py for        *)
(* several requests at once, over the tables of models.py, with the        *)
(* lockout that login() keeps in the rate-limit store (the one in memory). *)
(*                                                                         *)
(* A handler runs from one await of the database to the next.  A commit,   *)
(* with the writes and the reads since the first of them, is one step:     *)
(* SQLite admits one writer.  What a password is does not matter, only     *)
(* whether it is the one of the account: passwords are told apart by how   *)
(* often the account's has been reset.                                     *)
(***************************************************************************)
EXTENDS Integers, FiniteSets

CONSTANTS Request,           \* places for requests served at the same time
          Name,              \* user names
          NoName,            \* no name
          MaxLoginAttempts,  \* MAX_LOGIN_ATTEMPTS
          MaxSessions,       \* bound: numbers for sessions
          MaxTokens          \* bound: reset tokens issued

ASSUME AccountsAssumption ==
  /\ NoName \notin Name /\ IsFiniteSet(Request)
  /\ MaxLoginAttempts \in Nat \ {0} /\ MaxSessions \in Nat /\ MaxTokens \in Nat

VARIABLES
  users,     \* the table of users, by name
  sessions,  \* the sessions that have not expired, by number
  tokens,    \* the table of reset tokens, by number
  handed,    \* reset tokens ever issued
  hits,      \* login_fail hits that are counted now, by name
  req,       \* the locals of the request served at each place
  guesses,   \* history: wrong passwords since the count of a name was relieved
  uses,      \* history: resets by each token
  flying     \* history: requests about to log in when an account was last reset

tables  == <<users, sessions, tokens, handed>>
history == <<guesses, uses, flying>>
avars    == <<tables, hits, req, history>>

Session == 1..MaxSessions
Token   == 1..MaxTokens

\* resets: which password it is.  by: history, where it was registered.
User == [resets : Nat, by : Request]

\* resets: history, the password that was shown.  by: history, where.
SessionRow == [user : Name, resets : Nat, by : Request]

TokenRow == [user : Name, live : BOOLEAN, used : BOOLEAN]

\* counted: register() has found no account.  admitted: login() may try the
\* password; verified: it was right; chosen: the older sessions are selected;
\* cleared: they are deleted.  purged: forgot_password() has deleted
\* the expired tokens; found: reset_password() has found its token.
Place == {"idle", "counted", "admitted", "verified", "chosen", "cleared", "purged", "found"}
Locals == [at : Place, user : Name \cup {NoName}, resets : Nat,
           old : SUBSET Session, item : Nat]

Idle == [at |-> "idle", user |-> NoName, resets |-> 0, old |-> {}, item |-> 0]

LoggingIn == {"verified", "chosen", "cleared"}

At(r, place) == req[r].at = place
Set(r, locals) == req' = [req EXCEPT ![r] = locals]
Rest(r) == Set(r, Idle)

SessionsOf(u) == {s \in DOMAIN sessions : sessions[s].user = u}
Keep(f, S) == [x \in DOMAIN f \cap S |-> f[x]]
Without(S) == Keep(sessions, DOMAIN sessions \ S)

\* A number is used again only when nothing refers to it.
FreshSessions == Session \ (DOMAIN sessions \cup UNION {req[r].old : r \in Request})

AInit == /\ users = [u \in {} |-> NoName] /\ sessions = [s \in {} |-> NoName]
         /\ tokens = [t \in {} |-> NoName] /\ handed = 0
         /\ hits = [u \in Name |-> 0]
         /\ req = [r \in Request |-> Idle]
         /\ guesses = [u \in Name |-> 0] /\ uses = [t \in Token |-> 0]
         /\ flying = [u \in Name |-> {}]

-----------------------------------------------------------------------------
(* register(). *)

\* Mutant of Count: nobody is counted.
CountNobody(r, u) ==
  /\ At(r, "idle")
  /\ Set(r, [Idle EXCEPT !.at = "counted", !.user = u])
  /\ UNCHANGED <<tables, hits, history>>

\* There is no account yet.
Count(r, u) ==
  /\ At(r, "idle")
  /\ DOMAIN users = {}
  /\ Set(r, [Idle EXCEPT !.at = "counted", !.user = u])
  /\ UNCHANGED <<tables, hits, history>>

\* The user is added, and the name is unique: there are no older sessions.
Insert(r) ==
  /\ At(r, "counted") /\ req[r].user \notin DOMAIN users
  /\ users' = [u \in DOMAIN users \cup {req[r].user} |->
                 IF u = req[r].user THEN [resets |-> 0, by |-> r] ELSE users[u]]
  /\ Set(r, [req[r] EXCEPT !.at = "cleared"])
  /\ UNCHANGED <<sessions, tokens, handed, hits, history>>

-----------------------------------------------------------------------------
(* login(). *)

\* Mutant of CheckLimit: attempts are not counted.
CheckLimitOnly(u) == hits[u] < MaxLoginAttempts /\ hits' = hits

\* check_limit() and reset_limit() of the store in memory.  What is refused is
\* not counted.
CheckLimit(u) == hits[u] < MaxLoginAttempts /\ hits' = [hits EXCEPT ![u] = @ + 1]
ResetLimit(u) == hits' = [hits EXCEPT ![u] = 0]

\* The attempt is counted before the password is looked at.
Login(r, u) ==
  /\ At(r, "idle")
  /\ CheckLimit(u)
  /\ Set(r, [Idle EXCEPT !.at = "admitted", !.user = u])
  /\ UNCHANGED <<tables, history>>

\* The password is wrong, if there is such a user at all,
WrongPassword(r) ==
  /\ At(r, "admitted")
  /\ Rest(r)
  /\ guesses' = [guesses EXCEPT ![req[r].user] = @ + 1]
  /\ UNCHANGED <<tables, hits, uses, flying>>

\* or right, and the count of the name starts anew.
RightPassword(r) ==
  /\ At(r, "admitted") /\ req[r].user \in DOMAIN users
  /\ ResetLimit(req[r].user)
  /\ guesses' = [guesses EXCEPT ![req[r].user] = 0]
  /\ Set(r, [req[r] EXCEPT !.at = "verified", !.resets = users[req[r].user].resets])
  /\ UNCHANGED <<tables, uses, flying>>

\* A hit is 15 minutes old, and no longer counted.
HitExpires(u) ==
  /\ hits[u] > 0
  /\ hits' = [hits EXCEPT ![u] = @ - 1]
  /\ guesses' = [guesses EXCEPT ![u] = 0]
  /\ UNCHANGED <<tables, req, uses, flying>>

-----------------------------------------------------------------------------
(* _create_session(). *)

ChooseOld(r) ==
  /\ At(r, "verified")
  /\ Set(r, [req[r] EXCEPT !.at = "chosen", !.old = SessionsOf(req[r].user)])
  /\ UNCHANGED <<tables, hits, history>>

\* Mutant of DeleteOld: the old sessions stay.
DeleteNone(r) ==
  /\ At(r, "chosen")
  /\ Set(r, [req[r] EXCEPT !.at = "cleared", !.old = {}])
  /\ UNCHANGED <<tables, hits, history>>

\* What was selected is deleted, by id; what others added since is not.
DeleteOld(r) ==
  /\ At(r, "chosen")
  /\ sessions' = Without(req[r].old)
  /\ Set(r, [req[r] EXCEPT !.at = "cleared", !.old = {}])
  /\ UNCHANGED <<users, tokens, handed, hits, history>>

AddSession(r) ==
  /\ At(r, "cleared")
  /\ FreshSessions # {}
  /\ LET new == CHOOSE s \in FreshSessions : TRUE
     IN  sessions' = [s \in DOMAIN sessions \cup {new} |->
                        IF s = new
                        THEN [user |-> req[r].user, resets |-> req[r].resets, by |-> r]
                        ELSE sessions[s]]
  /\ Rest(r)
  /\ UNCHANGED <<users, tokens, handed, hits, history>>

-----------------------------------------------------------------------------
\* logout() deletes the session it is asked with, or expires_at passes.
EndSession(s) ==
  /\ sessions' = Without({s})
  /\ UNCHANGED <<users, tokens, handed, hits, req, history>>

-----------------------------------------------------------------------------
(* forgot_password() and reset_password(). *)

\* The user's expired tokens are deleted,
Purge(r, u) ==
  /\ At(r, "idle") /\ u \in DOMAIN users
  /\ tokens' = Keep(tokens, {t \in DOMAIN tokens : tokens[t].live \/ tokens[t].user # u})
  /\ Set(r, [Idle EXCEPT !.at = "purged", !.user = u])
  /\ UNCHANGED <<users, sessions, handed, hits, history>>

\* and then a token is added, next to those that are live.
AddToken(r) ==
  /\ At(r, "purged")
  /\ handed < MaxTokens
  /\ handed' = handed + 1
  /\ tokens' = [t \in DOMAIN tokens \cup {handed'} |->
                   IF t = handed' THEN [user |-> req[r].user, live |-> TRUE, used |-> FALSE]
                   ELSE tokens[t]]
  /\ Rest(r)
  /\ UNCHANGED <<users, sessions, hits, history>>

TokenExpires(t) ==
  /\ tokens[t].live
  /\ tokens' = [tokens EXCEPT ![t].live = FALSE]
  /\ UNCHANGED <<users, sessions, handed, hits, req, history>>

FindToken(r, t) ==
  /\ At(r, "idle")
  /\ tokens[t].live /\ ~tokens[t].used
  /\ Set(r, [Idle EXCEPT !.at = "found", !.user = tokens[t].user, !.item = t])
  /\ UNCHANGED <<tables, hits, history>>

ResetHistory(r) ==
  /\ uses' = [uses EXCEPT ![req[r].item] = @ + 1]
  /\ flying' = [flying EXCEPT ![req[r].user] =
                  {x \in Request : req[x].at \in LoggingIn /\ req[x].user = req[r].user}]
  /\ guesses' = guesses

\* Mutants of Reset: the token is not marked; the sessions stay.
ResetAgain(r) ==
  /\ At(r, "found") /\ req[r].item \in DOMAIN tokens
  /\ users' = [users EXCEPT ![req[r].user].resets = @ + 1]
  /\ sessions' = Without(SessionsOf(req[r].user))
  /\ Rest(r) /\ ResetHistory(r)
  /\ UNCHANGED <<tokens, handed, hits>>

ResetPasswordOnly(r) ==
  /\ At(r, "found") /\ req[r].item \in DOMAIN tokens
  /\ users' = [users EXCEPT ![req[r].user].resets = @ + 1]
  /\ tokens' = [tokens EXCEPT ![req[r].item].used = TRUE]
  /\ Rest(r) /\ ResetHistory(r)
  /\ UNCHANGED <<sessions, handed, hits>>

\* The password is set, the token marked, and with these writes pending all the
\* user's sessions are selected and deleted.
Reset(r) ==
  /\ At(r, "found") /\ req[r].item \in DOMAIN tokens
  /\ users' = [users EXCEPT ![req[r].user].resets = @ + 1]
  /\ tokens' = [tokens EXCEPT ![req[r].item].used = TRUE]
  /\ sessions' = Without(SessionsOf(req[r].user))
  /\ Rest(r) /\ ResetHistory(r)
  /\ UNCHANGED <<handed, hits>>

-----------------------------------------------------------------------------
\* The client goes away, the database fails, a row is gone or a name is taken:
\* what was not committed is rolled back.
Fail(r) ==
  /\ ~At(r, "idle")
  /\ Rest(r)
  /\ UNCHANGED <<tables, hits, history>>

\* The server starts again, and the store in memory is empty.
Restart ==
  /\ req' = [r \in Request |-> Idle]
  /\ hits' = [u \in Name |-> 0] /\ guesses' = [u \in Name |-> 0]
  /\ UNCHANGED <<tables, uses, flying>>

ANext ==
  \/ \E r \in Request :
       \/ \E u \in Name : Count(r, u) \/ Login(r, u) \/ Purge(r, u)
       \/ Insert(r)
       \/ WrongPassword(r) \/ RightPassword(r)
       \/ ChooseOld(r) \/ DeleteOld(r) \/ AddSession(r)
       \/ \E t \in DOMAIN tokens : FindToken(r, t)
       \/ AddToken(r) \/ Reset(r)
       \/ Fail(r)
  \/ \E u \in Name : HitExpires(u)
  \/ \E s \in DOMAIN sessions : EndSession(s)
  \/ \E t \in DOMAIN tokens : TokenExpires(t)
  \/ Restart

ASpec == AInit /\ [][ANext]_avars

-----------------------------------------------------------------------------
(* Properties.  Checks and the writes that follow from them are apart, so that *)
(* "one" may be several here: but never more than are served at the same time. *)

TypeOK ==
  /\ DOMAIN users \subseteq Name /\ \A u \in DOMAIN users : users[u] \in User
  /\ DOMAIN sessions \subseteq Session
  /\ \A s \in DOMAIN sessions : sessions[s] \in SessionRow
  /\ handed \in 0..MaxTokens /\ DOMAIN tokens \subseteq 1..handed
  /\ \A t \in DOMAIN tokens : tokens[t] \in TokenRow
  /\ hits \in [Name -> 0..MaxLoginAttempts]
  /\ req \in [Request -> Locals]
  /\ guesses \in [Name -> Nat] /\ uses \in [Token -> Nat]
  /\ flying \in [Name -> SUBSET Request]

Capacity == Cardinality(Request)

\* "Local, single-user authentication": however registrations overlap, none
\* succeeds once another has been answered, so no place registers two.
AccountsOverlap ==
  \A u, v \in DOMAIN users : users[u].by = users[v].by => u = v

\* "keep only the latest": a user has more than one session only by logins that
\* overlapped, one for each.
SessionsOverlap ==
  \A s, t \in DOMAIN sessions :
    sessions[s].user = sessions[t].user /\ sessions[s].by = sessions[t].by => s = t

\* "Invalidate ALL existing sessions": a session for a password that has been
\* reset belongs to a login that was under way at the last reset.
StaleSessionsOverlap ==
  \A s \in DOMAIN sessions :
    LET u == sessions[s].user
    IN  sessions[s].resets # users[u].resets => sessions[s].by \in flying[u]

\* "Tokens are single-use": a token resets a password as often as requests have
\* found it before the first of them was done.
TokensOverlap == \A t \in Token : uses[t] <= Capacity

\* The lockout: until a password is right, a hit expires or the server starts
\* again, wrong passwords are answered MAX_LOGIN_ATTEMPTS times, and for what was
\* already under way.
GuessesBounded == \A u \in Name : guesses[u] <= MaxLoginAttempts + Capacity
=============================================================================
