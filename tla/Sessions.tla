------------------------------ MODULE Sessions ------------------------------
(***************************************************************************)
(* User sessions of the control plane: the handlers of api/auth.go over    *)
(* the table user_auth (store/users.go), which keeps at most one session   *)
(* per account.  Every statement is atomic, the handlers are not: requests *)
(* interleave between their statements, and answers may arrive in another  *)
(* order than they were given or not at all.                               *)
(*                                                                         *)
(* A username is unique and never changes; here it stands for the user_id  *)
(* as well.  Tokens are numbered in the order they are made, and a number  *)
(* stands for the hash the table stores as well.  src/ does not define the *)
(* table; what its statements need of it beyond that are constants.        *)
(***************************************************************************)
EXTENDS PasswordHash, FiniteSets

CONSTANTS
  OneColumn,  \* session_expires and session_expiration are one column
  OneIsTrue,  \* the table takes the integer 1 for a true is_active
  Requests,   \* requests in flight at a time
  Browsers,   \* the clients, each with a cookie jar
  Names,      \* the usernames that are asked for
  Seeds,      \* those whose account the operator put into the table,
  Admins,     \* the administrators among them,
  PasswordOf, \* and their passwords
  Passwords,  \* the passwords people try
  NewUsers,   \* the accounts that are asked for: [user, password, role]
  Switched,   \* the accounts the operator deactivates and activates
  SessionTTL, \* how long a session lasts
  MaxClock,   \* bound: last value of the clock
  MaxTokens,  \* bound: tokens made
  MaxAsked    \* bound: requests other than logins

ASSUME SchemaAssumption == {OneColumn, OneIsTrue} \subseteq BOOLEAN
ASSUME NamesAssumption == Admins \subseteq Seeds /\ Seeds \subseteq Names
ASSUME PasswordAssumption == PasswordOf \in [Seeds -> Passwords]
ASSUME NewUsersAssumption ==
  NewUsers \subseteq [user : Names, password : Passwords, role : {"admin", "viewer"}]
ASSUME BoundsAssumption ==
  SessionTTL \in Nat \ {0} /\ {MaxClock, MaxTokens, MaxAsked} \subseteq Nat

VARIABLES
  clock,
  user_auth, \* per username, its row
  cookie,    \* per browser, the token in its session cookie
  request,   \* per slot, the request it stands for
  asked,     \* number of requests other than logins
  logins,    \* history: per token, the login it was made for
  ended      \* history: the tokens that were the session of an account and are no longer

vars == <<clock, user_auth, cookie, request, asked, logins, ended>>

NoToken == 0
Tokens == 1 .. MaxTokens
Roles == {"admin", "viewer"}

Row(pass, role) ==
  [pass |-> pass, role |-> role, is_active |-> role # "none",
   session_token |-> NoToken, session_expires |-> 0]
Accounts == {u \in Names : user_auth[u].role # "none"}
Held == {user_auth[u].session_token : u \in Names} \ {NoToken}

(* A slot: where its request is and its browser; the account, password and *)
(* role of its body; the token it made or came with; the context WithAuth  *)
(* gives it.                                                               *)
Free == [at |-> "free", browser |-> "none", user |-> "none", password |-> "none", role |-> "none",
         token |-> NoToken, expires |-> 0, next |-> "none", caller |-> "none", callerRole |-> "none"]

Init ==
  /\ clock = 0
  /\ \E salt \in [Seeds -> Salts] :
       user_auth = [u \in Names |->
         IF u \in Seeds
           THEN Row(WellFormed(DefaultArgon2idParameters, salt[u],
                               IDKey(PasswordOf[u], salt[u], DefaultArgon2idParameters)),
                    IF u \in Admins THEN "admin" ELSE "viewer")
           ELSE Row(<< >>, "none")]
  /\ cookie = [b \in Browsers |-> NoToken]
  /\ request = [r \in Requests |-> Free]
  /\ asked = 0
  /\ logins = << >>
  /\ ended = {}

At(r, where) == request[r].at = where
Become(r, new) == request' = [request EXCEPT ![r] = new]

(* The request is refused: the answer changes nothing at the browser. *)
Refuse(r) == Become(r, Free)

-----------------------------------------------------------------------------
(* Login.  Helpers named after a mistake (expired, all, ...) are variants *)
(* of the one that follows them; no behaviour uses them.                   *)

(* The lookup of the account, the check of the password and the making of  *)
(* the token, of which only the lookup reads anything shared.  Unknown     *)
(* accounts and wrong passwords are answered 401, inactive accounts 403,   *)
(* hashes that do not parse and failing queries 500.                       *)
Login(r, b, u, password) ==
  /\ request[r] = Free
  /\ u \in Accounts
  /\ user_auth[u].is_active
  /\ VerifyPass(user_auth[u].pass, password) = "match"
  /\ Len(logins) < MaxTokens
  /\ logins' = Append(logins, [user |-> u, password |-> password, expires |-> clock + SessionTTL])
  /\ Become(r, [Free EXCEPT !.at = "set", !.browser = b, !.user = u, !.token = Len(logins'),
                            !.expires = clock + SessionTTL])
  /\ UNCHANGED <<clock, user_auth, cookie, asked, ended>>

MayHaveSession(u) == user_auth[u].is_active

(* The login is answered 500, with no second attempt. *)
AfterFailureRetry(r) == UNCHANGED request
AfterFailure(r) == Refuse(r)

(* An UPDATE that finds no active row is no error. *)
SetUserSession(r) ==
  LET u == request[r].user IN
  /\ At(r, "set")
  /\ \E committed, ok \in BOOLEAN :
       /\ ok => committed
       /\ IF committed /\ MayHaveSession(u)
            THEN user_auth' = [user_auth EXCEPT ![u].session_token = request[r].token,
                                                ![u].session_expires = request[r].expires]
            ELSE UNCHANGED user_auth
       /\ IF ok THEN Become(r, [request[r] EXCEPT !.at = "cookie"]) ELSE AfterFailure(r)
  /\ ended' = ended \cup (Held \ Held')
  /\ UNCHANGED <<clock, cookie, asked, logins>>

(* The answer arrives, or the client is gone.  A logout's cookie is empty. *)
SetCookie(r) ==
  /\ At(r, "cookie")
  /\ \/ cookie' = [cookie EXCEPT ![request[r].browser] = request[r].token]
     \/ UNCHANGED cookie
  /\ Become(r, Free)
  /\ UNCHANGED <<clock, user_auth, asked, logins, ended>>

-----------------------------------------------------------------------------
(* WithAuth and the handlers behind it *)

Ask(r, new) ==
  /\ request[r] = Free
  /\ asked < MaxAsked
  /\ asked' = asked + 1
  /\ Become(r, new)
  /\ UNCHANGED <<clock, user_auth, cookie, logins, ended>>

(* A request leaves the browser with the cookie it has at that moment;     *)
(* without one it is refused at once.                                      *)
With(b, next) == [Free EXCEPT !.at = "auth", !.browser = b, !.token = cookie[b], !.next = next]

AskMe(r, b) == cookie[b] # NoToken /\ Ask(r, With(b, "me"))
AskLogout(r, b) == cookie[b] # NoToken /\ Ask(r, With(b, "logout"))
AskCreateUser(r, b, new) ==
  /\ cookie[b] # NoToken
  /\ Ask(r, [With(b, "create") EXCEPT !.user = new.user, !.password = new.password,
                                      !.role = new.role])

(* The statement asks for the session_expiration, but what is written is   *)
(* the session_expires.  Where they are two columns nothing is found: one  *)
(* that is never written is NULL, one that is missing fails the statement. *)
SessionRows(token) ==
  {u \in Accounts : /\ user_auth[u].session_token = token
                    /\ OneColumn /\ user_auth[u].session_expires > clock
                    /\ user_auth[u].is_active}

GetUserBySession(r) ==
  /\ At(r, "auth")
  /\ \/ /\ SessionRows(request[r].token) = {}
        /\ Refuse(r)
     \/ \E u \in SessionRows(request[r].token) :
          Become(r, [request[r] EXCEPT !.at = request[r].next, !.caller = u,
                                       !.callerRole = user_auth[u].role])
  /\ UNCHANGED <<clock, user_auth, cookie, asked, logins, ended>>

(* A query that fails is answered 500. *)
QueryFails(r) ==
  /\ At(r, "auth")
  /\ Refuse(r)
  /\ UNCHANGED <<clock, user_auth, cookie, asked, logins, ended>>

Me(r) ==
  /\ At(r, "me")
  /\ Become(r, Free)
  /\ UNCHANGED <<clock, user_auth, cookie, asked, logins, ended>>

ClearedAll(u) == Names
Cleared(u) == {u}

NoExpiryKept(u) == user_auth[u].session_expires
NoExpiry(u) == 0

(* The row is found by the account, not by the token the request was       *)
(* authenticated with: a logout also ends a session that has replaced its  *)
(* own since.                                                              *)
Logout(r) ==
  LET caller == request[r].caller IN
  /\ At(r, "logout")
  /\ \E committed, ok \in BOOLEAN :
       /\ ok => committed
       /\ IF committed
            THEN user_auth' = [u \in Names |->
                   IF u \in Cleared(caller)
                     THEN [user_auth[u] EXCEPT !.session_token = NoToken,
                                               !.session_expires = NoExpiry(u)]
                     ELSE user_auth[u]]
            ELSE UNCHANGED user_auth
       /\ IF ok THEN Become(r, [request[r] EXCEPT !.at = "cookie", !.token = NoToken])
                ELSE Refuse(r)
  /\ ended' = ended \cup (Held \ Held')
  /\ UNCHANGED <<clock, cookie, asked, logins>>

(* A name that is taken makes the INSERT fail, and 409 the answer, and so  *)
(* does the integer, and 500 the answer, where the table does not take it  *)
(* for a boolean.                                                          *)
InsertedUpsert(u, row) == IF OneIsTrue THEN [user_auth EXCEPT ![u] = row] ELSE user_auth
Inserted(u, row) ==
  IF OneIsTrue /\ u \notin Accounts THEN [user_auth EXCEPT ![u] = row] ELSE user_auth

(* The answers - 201, 403, 409 and 500 - are no different to a browser. *)
CreateUser(r) ==
  /\ At(r, "create")
  /\ IF request[r].callerRole = "admin"
       THEN \E pass \in HashPass(request[r].password), committed \in BOOLEAN :
              user_auth' = IF committed
                             THEN Inserted(request[r].user, Row(pass, request[r].role))
                             ELSE user_auth
       ELSE UNCHANGED user_auth
  /\ Become(r, Free)
  /\ UNCHANGED <<clock, cookie, asked, logins, ended>>

-----------------------------------------------------------------------------

(* Nothing in src/ changes is_active; the operator may at any time. *)
SetActive(u, active) ==
  /\ u \in Accounts
  /\ user_auth[u].is_active # active
  /\ user_auth' = [user_auth EXCEPT ![u].is_active = active]
  /\ UNCHANGED <<clock, cookie, request, asked, logins, ended>>

Tick ==
  /\ clock < MaxClock
  /\ clock' = clock + 1
  /\ UNCHANGED <<user_auth, cookie, request, asked, logins, ended>>

Next ==
  \/ \E r \in Requests, b \in Browsers :
       \/ \E u \in Names, password \in Passwords : Login(r, b, u, password)
       \/ AskMe(r, b)
       \/ AskLogout(r, b)
       \/ \E new \in NewUsers : AskCreateUser(r, b, new)
  \/ \E r \in Requests :
       \/ SetUserSession(r) \/ SetCookie(r)
       \/ GetUserBySession(r) \/ QueryFails(r)
       \/ Me(r) \/ Logout(r) \/ CreateUser(r)
  \/ \E u \in Switched, active \in BOOLEAN : SetActive(u, active)
  \/ Tick

Spec == Init /\ [][Next]_vars

-----------------------------------------------------------------------------
(* Properties *)

Places == {"free", "set", "cookie", "auth", "me", "logout", "create"}

(* The types of the variables; an account without a session has no time of *)
(* expiry either.                                                          *)
TypeOK ==
  /\ clock \in 0 .. MaxClock /\ asked \in 0 .. MaxAsked
  /\ \A u \in Names :
       /\ user_auth[u].role \in Roles \cup {"none"}
       /\ user_auth[u].is_active \in BOOLEAN
       /\ user_auth[u].session_token \in Tokens \cup {NoToken}
       /\ user_auth[u].session_token = NoToken <=> user_auth[u].session_expires = 0
  /\ cookie \in [Browsers -> 0 .. Len(logins)]
  /\ \A r \in Requests : /\ request[r].at \in Places
                         /\ request[r].token \in 0 .. Len(logins)
  /\ Len(logins) <= MaxTokens
  /\ ended \subseteq 1 .. Len(logins)

(* WithAuth lets the request through. *)
LetIn(r) == At(r, "auth") /\ request'[r].at \in {"me", "logout", "create"}

(* A session that has ended - by a logout or because another login took    *)
(* its place - never comes back, however long its cookie is kept, in       *)
(* whatever order the cookies and the statements of racing logins and      *)
(* logouts take effect, and whichever of them fail or lose their answer.   *)
(* One that its account still has lets a request in only until the time    *)
(* that its login set, and never as anyone but who logged in.              *)
EndedSessionsStayEnded ==
  [][\A r \in Requests :
       LetIn(r) => LET t == request[r].token
                       u == logins[t].user
                   IN /\ t \notin ended
                      /\ clock < logins[t].expires
                      /\ request'[r].caller = u
                      /\ request'[r].callerRole = user_auth[u].role]_vars

(* The session of an account is the outcome of a login with the password   *)
(* of that very account, however logins and logouts interleave.            *)
SessionsNeedPassword ==
  \A u \in Names : LET t == user_auth[u].session_token IN
    t # NoToken => /\ logins[t].user = u
                   /\ u \in Seeds => logins[t].password = PasswordOf[u]

(* An account loses or changes its session only by a login to it, and then *)
(* while it is active, although the login looked at that earlier, or by a  *)
(* logout that came with a cookie of its own: nobody else can end it.      *)
OthersCannotEndSession ==
  [][\A u \in Names :
       user_auth'[u].session_token # user_auth[u].session_token =>
         \E r \in Requests :
           \/ /\ At(r, "set") /\ SetUserSession(r) /\ request[r].user = u
              /\ user_auth[u].is_active
           \/ At(r, "logout") /\ Logout(r) /\ logins[request[r].token].user = u]_vars

(* An account, once there, keeps its password and its role: asking for it  *)
(* again, by whoever and however often, overwrites nothing.  New ones are  *)
(* made by administrators only.                                            *)
AccountsAreKept ==
  [][\A u \in Names :
       /\ u \in Accounts => /\ user_auth'[u].pass = user_auth[u].pass
                            /\ user_auth'[u].role = user_auth[u].role
       /\ u \in Accounts' \ Accounts =>
            \E r \in Requests : /\ At(r, "create") /\ CreateUser(r)
                                /\ user_auth[logins[request[r].token].user].role = "admin"]_vars

(* auth.go:232: WithAuth "Takes incoming request going to protected route, *)
(* verifies session cookie, and gives new context".  A cookie that carries *)
(* the session of an active account, not expired, gets its context.        *)
SessionsAreAccepted ==
  [][\A r \in Requests :
       /\ GetUserBySession(r)
       /\ \E u \in Accounts : /\ user_auth[u].session_token = request[r].token
                              /\ user_auth[u].session_expires > clock
                              /\ user_auth[u].is_active
       => LetIn(r)]_vars

(* argon2id.go:71 to 76: the parts of an encoded hash, "4 = salt base64"   *)
(* among them.  Every hash in the table can be parsed, and so every user   *)
(* log in.                                                                 *)
HashesParse == \A u \in Accounts : parseArgon2id(user_auth[u].pass) # {}
=============================================================================
