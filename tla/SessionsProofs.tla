--------------------------- MODULE SessionsProofs ---------------------------
(***************************************************************************)
(* Proofs about Sessions, for any number of browsers, requests, accounts   *)
(* and tokens, and whatever the table makes of the statements.  The        *)
(* invariant ties the three places that know about a session to each       *)
(* other: the row of its account, the requests that carry its token, and   *)
(* the history of logins and of sessions that ended.                       *)
(***************************************************************************)
EXTENDS Sessions, SequenceTheorems, TLAPS

Params == DefaultArgon2idParameters

Hashes ==
  {<< >>} \cup {WellFormed(Params, s, IDKey(p, s, Params)) : s \in Salts, p \in Passwords}
          \cup UNION {HashPass(p) : p \in Passwords}

RowType == [pass : Hashes, role : Roles \cup {"none"}, is_active : BOOLEAN,
            session_token : Nat, session_expires : Nat]

RequestType ==
  [at : Places, browser : Browsers \cup {"none"}, user : Names \cup {"none"},
   password : Passwords \cup {"none"}, role : Roles \cup {"none"}, token : Nat, expires : Nat,
   next : {"none", "me", "logout", "create"}, caller : Names \cup {"none"},
   callerRole : Roles \cup {"none"}]

LoginType == [user : Names, password : Passwords, expires : Nat]

Types ==
  /\ clock \in Nat /\ asked \in Nat
  /\ user_auth \in [Names -> RowType]
  /\ cookie \in [Browsers -> Nat]
  /\ request \in [Requests -> RequestType]
  /\ logins \in Seq(LoginType)
  /\ ended \subseteq 1 .. Len(logins)

IsToken(t) == t \in 1 .. Len(logins)

(* What the row of an account says of its session. *)
RowRight(u) ==
  LET t == user_auth[u].session_token IN
  /\ t = NoToken => user_auth[u].session_expires = 0
  /\ t # NoToken => /\ IsToken(t) /\ u \in Accounts
                    /\ logins[t].user = u /\ t \notin ended
                    /\ logins[t].expires = user_auth[u].session_expires

(* What a login was made with. *)
LoginRight(t) ==
  LET u == logins[t].user IN
  /\ u \in Accounts
  /\ logins[t].expires > 0
  /\ u \in Seeds => logins[t].password = PasswordOf[u]

SeedRight(u) ==
  /\ u \in Accounts
  /\ \E s \in Salts : user_auth[u].pass = WellFormed(Params, s, IDKey(PasswordOf[u], s, Params))

Body(q) == q.user \in Names /\ q.password \in Passwords /\ q.role \in Roles

(* What a request carries, depending on where it is. *)
RequestRight(r) ==
  LET q == request[r] IN
  /\ q.token \in 0 .. Len(logins)
  /\ q.at \in {"set", "auth", "me", "logout", "create"} => IsToken(q.token)
  /\ q.at = "set" => q.user = logins[q.token].user /\ q.expires = logins[q.token].expires
  /\ q.at = "auth" => q.next \in {"me", "logout", "create"} /\ (q.next = "create" => Body(q))
  /\ q.at \in {"me", "logout", "create"} =>
       q.caller = logins[q.token].user /\ q.callerRole = user_auth[q.caller].role
  /\ q.at = "create" => Body(q)

(* A login's token is stored once: what is about to be stored is nowhere   *)
(* in the table, has never been there, and is not about to be stored by    *)
(* another request.                                                        *)
FreshRight(r) ==
  At(r, "set") =>
    /\ request[r].token \notin ended
    /\ \A u \in Names : user_auth[u].session_token # request[r].token
    /\ \A q \in Requests : q # r /\ At(q, "set") => request[q].token # request[r].token

IInv ==
  /\ Types
  /\ clock <= MaxClock /\ asked <= MaxAsked /\ Len(logins) <= MaxTokens
  /\ \A b \in Browsers : cookie[b] <= Len(logins)
  /\ \A u \in Names : RowRight(u)
  /\ \A t \in 1 .. Len(logins) : LoginRight(t)
  /\ \A u \in Seeds : SeedRight(u)
  /\ \A r \in Requests : RequestRight(r)
  /\ \A r \in Requests : FreshRight(r)

-----------------------------------------------------------------------------

(* A hash that was written as parseArgon2id expects it is matched by its   *)
(* password and by no other.                                               *)
LEMMA WellFormedMatches ==
  ASSUME NEW p, NEW s, NEW q
  PROVE  VerifyPass(WellFormed(Params, s, IDKey(p, s, Params)), q) = "match" => q = p
<1> DEFINE e == WellFormed(Params, s, IDKey(p, s, Params))
           parsed == [params |-> Params, salt |-> s, hash |-> IDKey(p, s, Params)]
<1>1. /\ Len(e) = 6 /\ e[2] = <<"argon2id">> /\ e[3] = <<"v=19">>
      /\ e[4] = <<Params>> /\ e[5] = <<s>> /\ e[6] = <<IDKey(p, s, Params)>>
  BY DEF WellFormed
<1>2. parseArgon2id(e) = {parsed}
  BY <1>1 DEF parseArgon2id, Scans, Decodes
<1>3. VerifyPass(e, q) = "match" => IDKey(p, s, Params) = IDKey(q, s, Params)
  BY <1>2 DEF VerifyPass
<1>4. IDKey(p, s, Params) = IDKey(q, s, Params) => p = q
  BY DEF IDKey
<1>5. QED BY <1>3, <1>4

LEMMA InitInv == Init => IInv
<1> SUFFICES ASSUME Init PROVE IInv
  OBVIOUS
<1> USE DEF NoToken
<1>1. PICK salt \in [Seeds -> Salts] :
        user_auth = [u \in Names |->
         IF u \in Seeds
           THEN Row(WellFormed(Params, salt[u], IDKey(PasswordOf[u], salt[u], Params)),
                    IF u \in Admins THEN "admin" ELSE "viewer")
           ELSE Row(<< >>, "none")]
  BY DEF Init, Params
<1>2. \A u \in Names : /\ user_auth[u] \in RowType
                       /\ user_auth[u].session_token = 0 /\ user_auth[u].session_expires = 0
  BY <1>1, PasswordAssumption, NamesAssumption DEF Row, RowType, Hashes, Roles
<1>3. Types
  BY <1>1, <1>2 DEF Init, Types, Free, RequestType, Places
<1>4. \A u \in Names : RowRight(u)
  BY <1>2 DEF Init, RowRight
<1>5. \A u \in Seeds : SeedRight(u)
  BY <1>1, NamesAssumption DEF SeedRight, Accounts, Row
<1>6. \A r \in Requests : RequestRight(r)
  BY DEF Init, RequestRight, Free
<1>7. \A r \in Requests : FreshRight(r)
  BY DEF Init, FreshRight, At, Free
<1>8. QED
  BY <1>3, <1>4, <1>5, <1>6, <1>7, BoundsAssumption DEF Init, IInv

-----------------------------------------------------------------------------

LEMMA FreeType == Free \in RequestType /\ Free.at # "set"
  BY DEF Free, RequestType, Places, NoToken

(* What a step of a request may store in the row of an account. *)
Stored(r, u) ==
  LET t == user_auth'[u].session_token IN
  t = NoToken \/ t \in Held \/ (At(r, "set") /\ t = request[r].token)

(* Tokens stay fresh if a step puts into the table at most the token of    *)
(* the request it frees or moves on, and counts as ended what was there.   *)
LEMMA FreshKept ==
  ASSUME IInv, NEW r \in Requests, NEW new \in RequestType, Become(r, new), new.at # "set",
         ended' \subseteq ended \cup Held,
         \A u \in Names : Stored(r, u)
  PROVE  \A q \in Requests : FreshRight(q)'
<1>1. request'[r] = new /\ \A q \in Requests \ {r} : request'[q] = request[q]
  BY DEF IInv, Types, Become
<1>2. SUFFICES ASSUME NEW q \in Requests, At(q, "set")' PROVE FreshRight(q)'
  BY DEF FreshRight
<1>3. q # r /\ At(q, "set") /\ request'[q].token = request[q].token
  BY <1>1, <1>2 DEF At
<1>4. FreshRight(q) /\ FreshRight(r) /\ RequestRight(q)
  BY DEF IInv
<1>5. request[q].token # NoToken
  BY <1>3, <1>4 DEF RequestRight, IsToken, At, NoToken
<1>6. request[q].token \notin ended \cup Held
  BY <1>3, <1>4 DEF FreshRight, Held
<1>7. ASSUME NEW u \in Names PROVE user_auth'[u].session_token # request[q].token
  BY <1>3, <1>4, <1>5, <1>6 DEF FreshRight, Stored
<1>8. ASSUME NEW p \in Requests, p # q, At(p, "set")' PROVE request'[p].token # request[q].token
  <2>1. p # r /\ At(p, "set") /\ request'[p].token = request[p].token
    BY <1>1, <1>8 DEF At
  <2>2. QED
    BY <1>3, <1>4, <1>8, <2>1 DEF FreshRight
<1>9. QED
  BY <1>3, <1>6, <1>7, <1>8 DEF FreshRight

(* A step that leaves the table and the history alone keeps the invariant  *)
(* if what it writes into a slot is right.                                 *)
LEMMA RequestStep ==
  ASSUME IInv, NEW r \in Requests, NEW new \in RequestType, Become(r, new), new.at # "set",
         UNCHANGED <<user_auth, logins, ended>>,
         clock' \in Nat, clock' <= MaxClock, asked' \in Nat, asked' <= MaxAsked,
         cookie' \in [Browsers -> Nat], \A b \in Browsers : cookie'[b] <= Len(logins),
         request' \in [Requests -> RequestType] => RequestRight(r)'
  PROVE  IInv'
<1>1. request' \in [Requests -> RequestType]
  BY DEF IInv, Types, Become
<1>2. Types'
  BY <1>1 DEF IInv, Types
<1>3. \A u \in Names : RowRight(u)'
  BY DEF IInv, RowRight, Accounts, IsToken
<1>4. \A t \in 1 .. Len(logins') : LoginRight(t)'
  BY DEF IInv, LoginRight, Accounts
<1>5. \A u \in Seeds : SeedRight(u)'
  BY DEF IInv, SeedRight, Accounts
<1>6. \A q \in Requests \ {r} : RequestRight(q)'
  <2> TAKE q \in Requests \ {r}
  <2>1. request'[q] = request[q]
    BY DEF IInv, Types, Become
  <2>2. QED
    BY <2>1 DEF IInv, RequestRight, IsToken, Body
<1>7. \A q \in Requests : FreshRight(q)'
  <2>1. \A u \in Names : Stored(r, u)
    BY DEF Held, Stored
  <2>2. ended' \subseteq ended \cup Held
    OBVIOUS
  <2>3. QED
    BY <2>1, <2>2, FreshKept
<1>8. QED
  BY <1>1, <1>2, <1>3, <1>4, <1>5, <1>6, <1>7 DEF IInv

LEMMA FreedRight ==
  ASSUME IInv, NEW r \in Requests, Become(r, Free), Len(logins') \in Nat
  PROVE  RequestRight(r)'
<1>1. request'[r] = Free
  BY DEF IInv, Types, Become
<1>2. QED
  BY <1>1 DEF RequestRight, Free, NoToken

-----------------------------------------------------------------------------
(* The steps that touch only requests and cookies *)

LEMMA SetCookieInv == ASSUME IInv, NEW r \in Requests, SetCookie(r) PROVE IInv'
<1>1. cookie' \in [Browsers -> Nat] /\ \A b \in Browsers : cookie'[b] <= Len(logins)
  <2>1. request[r].token \in Nat /\ request[r].token <= Len(logins)
    BY DEF IInv, Types, RequestRight, RequestType
  <2>2. QED
    BY <2>1 DEF SetCookie, IInv, Types
<1>2. Len(logins) \in Nat
  BY DEF IInv, Types
<1>3. QED
  BY <1>1, <1>2, FreeType, FreedRight, RequestStep DEF SetCookie, IInv, Types

LEMMA AskInv ==
  ASSUME IInv, NEW r \in Requests, NEW b \in Browsers,
         AskMe(r, b) \/ AskLogout(r, b) \/ \E new \in NewUsers : AskCreateUser(r, b, new)
  PROVE  IInv'
<1>1. PICK q \in RequestType : /\ Ask(r, q) /\ q.at = "auth" /\ q.token = cookie[b]
                               /\ q.next \in {"me", "logout", "create"}
                               /\ q.next = "create" => Body(q)
  <2>1. cookie[b] \in Nat
    BY DEF IInv, Types
  <2>2. ASSUME NEW w \in {"me", "logout"} PROVE With(b, w) \in RequestType
    BY <2>1, FreeType DEF With, Free, RequestType, Places
  <2>3. ASSUME NEW new \in NewUsers
        PROVE  LET q == [With(b, "create") EXCEPT !.user = new.user, !.password = new.password,
                                                  !.role = new.role]
               IN q \in RequestType /\ Body(q) /\ q.at = "auth" /\ q.token = cookie[b]
                  /\ q.next = "create"
    BY <2>1, NewUsersAssumption DEF With, Free, RequestType, Places, Body, Roles
  <2>4. QED
    BY <2>2, <2>3 DEF AskMe, AskLogout, AskCreateUser, With, Free
<1>2. cookie[b] # NoToken
  BY DEF AskMe, AskLogout, AskCreateUser
<1>3. request' \in [Requests -> RequestType] => RequestRight(r)'
  <2>1. request'[r] = q
    BY <1>1 DEF Ask, Become, IInv, Types
  <2>2. cookie[b] \in Nat /\ cookie[b] <= Len(logins) /\ logins' = logins
    BY <1>1 DEF IInv, Types, Ask
  <2>3. QED
    BY <1>1, <1>2, <2>1, <2>2 DEF RequestRight, IsToken, NoToken, Body
<1>4. asked' \in Nat /\ asked' <= MaxAsked
  BY <1>1, BoundsAssumption DEF Ask, IInv, Types
<1>5. QED
  BY <1>1, <1>3, <1>4, RequestStep DEF Ask, IInv, Types

LEMMA RefusedInv ==
  ASSUME IInv, NEW r \in Requests, Become(r, Free),
         UNCHANGED <<clock, user_auth, cookie, asked, logins, ended>>
  PROVE  IInv'
<1>1. Len(logins') \in Nat
  BY DEF IInv, Types
<1>2. QED
  BY <1>1, FreeType, FreedRight, RequestStep DEF IInv, Types

(* Only one row can hold a token, and it is the row of the login. *)
LEMMA RowsOfToken ==
  ASSUME IInv, NEW t, NEW u \in SessionRows(t), IsToken(t)
  PROVE  u = logins[t].user
  BY DEF IInv, RowRight, SessionRows, Accounts, IsToken, NoToken

LEMMA GetUserBySessionInv == ASSUME IInv, NEW r \in Requests, GetUserBySession(r) PROVE IInv'
<1>1. CASE Refuse(r)
  BY <1>1, RefusedInv DEF Refuse, GetUserBySession
<1>2. ASSUME NEW u \in SessionRows(request[r].token),
             Become(r, [request[r] EXCEPT !.at = request[r].next, !.caller = u,
                                          !.callerRole = user_auth[u].role])
      PROVE  IInv'
  <2> DEFINE new == [request[r] EXCEPT !.at = request[r].next, !.caller = u,
                                       !.callerRole = user_auth[u].role]
  <2>1. At(r, "auth") /\ UNCHANGED <<clock, user_auth, cookie, asked, logins, ended>>
    BY DEF GetUserBySession
  <2>2. RequestRight(r) /\ request[r] \in RequestType
    BY DEF IInv, Types
  <2>3. request[r].next \in {"me", "logout", "create"} /\ IsToken(request[r].token)
    BY <2>1, <2>2 DEF RequestRight, At
  <2>4. u = logins[request[r].token].user /\ u \in Names
    BY <2>3, RowsOfToken DEF SessionRows, Accounts
  <2>5. user_auth[u].role \in Roles \cup {"none"}
    BY <2>4 DEF IInv, Types, RowType
  <2>6. new \in RequestType
    <3>1. request[r].next \in Places
      BY <2>3 DEF Places
    <3>2. QED
      BY <2>2, <2>4, <2>5, <3>1 DEF RequestType
  <2>7. new.at = request[r].next /\ new.token = request[r].token /\ new.caller = u
        /\ new.callerRole = user_auth[u].role
        /\ new.user = request[r].user /\ new.password = request[r].password
        /\ new.role = request[r].role
    BY <2>2 DEF RequestType
  <2>8. request'[r] = new
    BY <1>2 DEF Become, IInv, Types
  <2>9. RequestRight(r)'
    <3>1. Len(logins') = Len(logins) /\ logins' = logins /\ user_auth' = user_auth
      BY <2>1
    <3> HIDE DEF new
    <3>2. QED
      BY <2>1, <2>2, <2>3, <2>4, <2>7, <2>8, <3>1 DEF RequestRight, IsToken, Body, At
  <2>10. new.at # "set"
    BY <2>3, <2>7
  <2> HIDE DEF new
  <2>11. QED
    BY <1>2, <2>1, <2>6, <2>9, <2>10, RequestStep DEF IInv, Types, new
<1>3. QED
  BY <1>1, <1>2 DEF GetUserBySession

-----------------------------------------------------------------------------
(* The steps that touch the table or the history *)

LEMMA LoginInv ==
  ASSUME IInv, NEW r \in Requests, NEW b \in Browsers, NEW u \in Names, NEW password \in Passwords,
         Login(r, b, u, password)
  PROVE  IInv'
<1> DEFINE login == [user |-> u, password |-> password, expires |-> clock + SessionTTL]
           new == [Free EXCEPT !.at = "set", !.browser = b, !.user = u, !.token = Len(logins'),
                               !.expires = clock + SessionTTL]
<1> USE DEF NoToken
<1>1. login \in LoginType /\ login.expires > 0
  BY BoundsAssumption DEF LoginType, IInv, Types
<1>2. /\ logins' \in Seq(LoginType) /\ Len(logins') = Len(logins) + 1
      /\ \A t \in 1 .. Len(logins) : logins'[t] = logins[t]
      /\ logins'[Len(logins) + 1] = login
      /\ Len(logins) \in Nat
  BY <1>1 DEF Login, IInv, Types
<1>3. new \in RequestType
  <2>1. clock + SessionTTL \in Nat /\ Len(logins') \in Nat
    BY <1>1, <1>2 DEF LoginType
  <2>2. QED
    BY <2>1, FreeType DEF Free, RequestType, Places
<1>4. request' \in [Requests -> RequestType] /\ request'[r] = new
      /\ \A q \in Requests \ {r} : request'[q] = request[q]
  BY <1>3 DEF Login, Become, IInv, Types
<1>5. UNCHANGED <<clock, user_auth, cookie, asked, ended>> /\ u \in Accounts
      /\ VerifyPass(user_auth[u].pass, password) = "match" /\ Len(logins) < MaxTokens
  BY DEF Login
<1>6. Types'
  BY <1>2, <1>4, <1>5 DEF IInv, Types
<1>7. \A v \in Names : RowRight(v)'
  <2> TAKE v \in Names
  <2>1. RowRight(v) /\ user_auth[v].session_token \in Nat
    BY DEF IInv, Types, RowType
  <2>2. QED
    BY <2>1, <1>2, <1>5 DEF RowRight, Accounts, IsToken
<1>8. \A t \in 1 .. Len(logins') : LoginRight(t)'
  <2> TAKE t \in 1 .. Len(logins')
  <2>1. CASE t \in 1 .. Len(logins)
    BY <2>1, <1>2, <1>5 DEF IInv, LoginRight, Accounts
  <2>2. CASE t = Len(logins) + 1
    <3>1. u \in Seeds => password = PasswordOf[u]
      BY <1>5, WellFormedMatches DEF IInv, SeedRight
    <3>2. QED
      BY <2>2, <3>1, <1>1, <1>2, <1>5 DEF LoginRight, Accounts
  <2>3. QED
    BY <2>1, <2>2, <1>2
<1>9. \A v \in Seeds : SeedRight(v)'
  BY <1>5 DEF IInv, SeedRight, Accounts
<1>10. \A q \in Requests : RequestRight(q)'
  <2> TAKE q \in Requests
  <2>1. CASE q = r
    <3>1. /\ new.at = "set" /\ new.user = u /\ new.token = Len(logins) + 1
          /\ new.expires = login.expires
      BY <1>2 DEF Free
    <3> HIDE DEF new
    <3>2. QED
      BY <2>1, <3>1, <1>2, <1>4 DEF RequestRight, IsToken
  <2>2. CASE q # r
    <3>1. RequestRight(q) /\ request[q].token \in Nat
      BY DEF IInv, Types, RequestType
    <3>2. QED
      BY <2>2, <3>1, <1>2, <1>4, <1>5 DEF RequestRight, IsToken, Body
  <2>3. QED
    BY <2>1, <2>2
<1>11. clock' <= MaxClock /\ asked' <= MaxAsked /\ Len(logins') <= MaxTokens
       /\ \A c \in Browsers : cookie'[c] <= Len(logins')
  BY <1>2, <1>5, BoundsAssumption DEF IInv, Types
<1>12. \A q \in Requests : FreshRight(q)'
  <2>1. /\ new.at = "set" /\ new.token = Len(logins) + 1
        /\ Len(logins) + 1 \notin ended
        /\ \A v \in Names : user_auth[v].session_token # Len(logins) + 1
        /\ \A q \in Requests : request[q].token # Len(logins) + 1
    <3>1. new.at = "set" /\ new.token = Len(logins) + 1
      BY <1>2 DEF Free
    <3>2. ended \subseteq 1 .. Len(logins)
      BY DEF IInv, Types
    <3>3. \A v \in Names : user_auth[v].session_token \in 0 .. Len(logins)
      BY <1>2 DEF IInv, RowRight, IsToken
    <3>4. \A q \in Requests : request[q].token \in 0 .. Len(logins)
      BY DEF IInv, RequestRight
    <3>5. Len(logins) + 1 \notin 0 .. Len(logins)
      BY <1>2
    <3>6. Len(logins) + 1 \notin 1 .. Len(logins)
      BY <1>2
    <3> HIDE DEF new
    <3>7. QED
      BY <3>1, <3>2, <3>3, <3>4, <3>5, <3>6
  <2>2. user_auth' = user_auth /\ ended' = ended
    BY <1>5
  <2> HIDE DEF new
  <2>3. FreshRight(r)'
    BY <1>4, <2>1, <2>2 DEF FreshRight, At
  <2>4. \A q \in Requests \ {r} : FreshRight(q)'
    BY <1>4, <2>1, <2>2 DEF FreshRight, At, IInv
  <2>5. QED
    BY <2>3, <2>4
<1>13. QED
  BY <1>6, <1>7, <1>8, <1>9, <1>10, <1>11, <1>12 DEF IInv

(* A step that changes rows, but no account's password or role, that takes *)
(* no account away and that leaves the history of logins alone.            *)
Keeps ==
  /\ user_auth' \in [Names -> RowType] /\ ended' = ended \cup (Held \ Held')
  /\ \A u \in Accounts : /\ user_auth'[u].pass = user_auth[u].pass
                         /\ user_auth'[u].role = user_auth[u].role
  /\ UNCHANGED <<clock, cookie, asked, logins>>

LEMMA TableStep ==
  ASSUME IInv, Keeps, NEW r \in Requests, NEW new \in RequestType, Become(r, new), new.at # "set",
         \A u \in Names : Stored(r, u),
         \A u \in Names : RowRight(u)', RequestRight(r)'
  PROVE  IInv'
<1>1. request' \in [Requests -> RequestType]
      /\ \A q \in Requests \ {r} : request'[q] = request[q]
  BY DEF IInv, Types, Become
<1>2. Types'
  <2>1. Held \subseteq 1 .. Len(logins)
    BY DEF Held, IInv, RowRight, IsToken
  <2>2. QED
    BY <1>1, <2>1 DEF IInv, Types, Keeps
<1>3. Accounts \subseteq Accounts'
  BY DEF Accounts, Keeps
<1>4. \A t \in 1 .. Len(logins') : LoginRight(t)'
  BY <1>3 DEF IInv, LoginRight, Keeps
<1>5. \A u \in Seeds : SeedRight(u)'
  BY <1>3 DEF IInv, SeedRight, Keeps
<1>6. \A q \in Requests \ {r} : RequestRight(q)'
  <2> TAKE q \in Requests \ {r}
  <2>1. RequestRight(q) /\ request'[q] = request[q] /\ logins' = logins
    BY <1>1 DEF IInv, Keeps
  <2>2. request[q].at \in {"me", "logout", "create"} =>
          user_auth'[request[q].caller].role = user_auth[request[q].caller].role
    BY <2>1 DEF RequestRight, IsToken, IInv, LoginRight, Keeps
  <2>3. QED
    BY <2>1, <2>2 DEF RequestRight, IsToken, Body
<1>7. \A q \in Requests : FreshRight(q)'
  <2>1. ended' \subseteq ended \cup Held
    BY DEF Keeps
  <2>2. QED
    BY <2>1, FreshKept
<1>8. QED
  BY <1>1, <1>2, <1>4, <1>5, <1>6, <1>7 DEF IInv, Keeps

(* A token that a row has has not ended. *)
LEMMA StillHeld ==
  ASSUME Keeps, NEW u \in Names, user_auth'[u].session_token \notin ended,
         user_auth'[u].session_token # NoToken
  PROVE  user_auth'[u].session_token \notin ended'
  BY DEF Keeps, Held

(* A step that leaves the table alone. *)
LEMMA TableUntouched ==
  ASSUME IInv, UNCHANGED <<user_auth, clock, cookie, asked, logins>>,
         ended' = ended \cup (Held \ Held')
  PROVE  /\ Keeps /\ \A u \in Names : RowRight(u)'
         /\ \A r \in Requests, u \in Names : Stored(r, u)
<1>1. Held' = Held /\ ended' = ended
  BY DEF Held
<1>2. Keeps
  BY DEF Keeps, IInv, Types
<1>3. \A u \in Names : RowRight(u)'
  BY <1>1 DEF IInv, RowRight, IsToken, Accounts
<1>4. \A r \in Requests, u \in Names : Stored(r, u)
  BY DEF Held, Stored
<1>5. QED
  BY <1>2, <1>3, <1>4

LEMMA SetUserSessionInv == ASSUME IInv, NEW r \in Requests, SetUserSession(r) PROVE IInv'
<1> USE DEF NoToken
<1> SUFFICES ASSUME NEW q, q = request[r], NEW u, u = q.user
             PROVE  IInv'
  OBVIOUS
<1>1. /\ RequestRight(r) /\ q.at = "set" /\ q \in RequestType
      /\ IsToken(q.token) /\ u = logins[q.token].user /\ q.expires = logins[q.token].expires
  BY DEF SetUserSession, At, IInv, Types, RequestRight
<1>2. LoginRight(q.token) /\ u \in Accounts /\ u \in Names /\ q.expires \in Nat /\ q.token \in Nat
  BY <1>1 DEF IInv, LoginRight, IsToken, Accounts, RequestType
<1>3. UNCHANGED <<clock, cookie, asked, logins>>
  BY DEF SetUserSession
<1>4. /\ ended' = ended \cup (Held \ Held')
      /\ \/ UNCHANGED user_auth
         \/ user_auth' = [user_auth EXCEPT ![u].session_token = q.token,
                                           ![u].session_expires = q.expires]
  BY DEF SetUserSession, MayHaveSession
<1>5. /\ Keeps /\ \A v \in Names : RowRight(v)'
      /\ \A v \in Names : Stored(r, v)
  <2>1. CASE UNCHANGED user_auth
    BY <2>1, <1>3, <1>4, TableUntouched
  <2>2. CASE user_auth' = [user_auth EXCEPT ![u].session_token = q.token,
                                           ![u].session_expires = q.expires]
    <3>1. /\ user_auth'[u] = [user_auth[u] EXCEPT !.session_token = q.token,
                                                 !.session_expires = q.expires]
          /\ \A v \in Names \ {u} : user_auth'[v] = user_auth[v]
          /\ user_auth[u] \in RowType
      BY <2>2, <1>2 DEF IInv, Types
    <3>2. /\ user_auth'[u] \in RowType /\ user_auth'[u].pass = user_auth[u].pass
          /\ user_auth'[u].role = user_auth[u].role
          /\ user_auth'[u].session_token = q.token /\ user_auth'[u].session_expires = q.expires
      BY <3>1, <1>2 DEF RowType
    <3>3. Keeps
      <4>1. user_auth' \in [Names -> RowType]
        BY <2>2, <3>1, <3>2, <1>2 DEF IInv, Types
      <4>2. QED
        BY <4>1, <3>1, <3>2, <1>3, <1>4 DEF Keeps, Accounts
    <3>4. Accounts \subseteq Accounts'
      BY <3>3 DEF Keeps, Accounts
    <3>5. RowRight(u)'
      <4>1. q.token \notin ended
        BY <1>1 DEF IInv, FreshRight, At
      <4>2. q.token \notin ended'
        BY <4>1, <3>2, <3>3, <1>1, <1>2, StillHeld DEF IsToken
      <4>3. QED
        BY <4>2, <3>1, <3>2, <3>4, <1>1, <1>2, <1>3 DEF RowRight, IsToken
    <3>6. \A v \in Names \ {u} : RowRight(v)'
      BY <3>1, <3>3, <3>4, <1>3, StillHeld DEF IInv, RowRight, IsToken
    <3>7. \A v \in Names \ {u} : Stored(r, v)
      BY <3>1 DEF Held, Stored
    <3>8. Stored(r, u)
      BY <3>2, <1>1 DEF At, Stored
    <3>9. QED
      BY <3>3, <3>5, <3>6, <3>7, <3>8
  <2>3. QED
    BY <1>4, <2>1, <2>2
<1>6. CASE Become(r, [request[r] EXCEPT !.at = "cookie"])
  <2> DEFINE new == [request[r] EXCEPT !.at = "cookie"]
  <2>1. new \in RequestType /\ new.at = "cookie" /\ new.token = q.token
    BY <1>1 DEF RequestType, Places
  <2>2. request'[r] = new
    BY <1>6 DEF Become, IInv, Types
  <2>3. RequestRight(r)'
    BY <2>1, <2>2, <1>1, <1>3 DEF RequestRight
  <2>4. QED
    BY <1>5, <1>6, <2>1, <2>3, TableStep
<1>7. CASE Refuse(r)
  <2>1. Len(logins') \in Nat
    BY <1>3 DEF IInv, Types
  <2>2. QED
    BY <1>5, <1>7, <2>1, FreedRight, FreeType, TableStep DEF Refuse
<1>8. QED
  BY <1>6, <1>7 DEF SetUserSession, AfterFailure

LEMMA LogoutInv == ASSUME IInv, NEW r \in Requests, Logout(r) PROVE IInv'
<1> USE DEF NoToken
<1> SUFFICES ASSUME NEW q, q = request[r], NEW u, u = q.caller, NEW z \in Nat, z = 0
             PROVE  IInv'
  OBVIOUS
<1> DEFINE cleared == [v \in Names |->
                        IF v = u THEN [user_auth[v] EXCEPT !.session_token = z,
                                                           !.session_expires = z]
                        ELSE user_auth[v]]
<1>1. /\ RequestRight(r) /\ q.at = "logout" /\ q \in RequestType
      /\ IsToken(q.token) /\ u = logins[q.token].user
  BY DEF Logout, At, IInv, Types, RequestRight
<1>2. u \in Accounts /\ u \in Names
  BY <1>1 DEF IInv, LoginRight, IsToken, Accounts
<1>3. UNCHANGED <<clock, cookie, asked, logins>>
  BY DEF Logout
<1>4. /\ ended' = ended \cup (Held \ Held')
      /\ UNCHANGED user_auth \/ user_auth' = cleared
  BY DEF Logout, Cleared, NoExpiry
<1>5. /\ Keeps /\ \A v \in Names : RowRight(v)'
      /\ \A v \in Names : Stored(r, v)
  <2>1. CASE UNCHANGED user_auth
    BY <2>1, <1>3, <1>4, TableUntouched
  <2>2. CASE user_auth' = cleared
    <3>1. /\ user_auth'[u] = [user_auth[u] EXCEPT !.session_token = z, !.session_expires = z]
          /\ \A v \in Names \ {u} : user_auth'[v] = user_auth[v]
          /\ user_auth[u] \in RowType
      BY <2>2, <1>2 DEF IInv, Types
    <3>2. /\ user_auth'[u] \in RowType /\ user_auth'[u].pass = user_auth[u].pass
          /\ user_auth'[u].role = user_auth[u].role
          /\ user_auth'[u].session_token = z /\ user_auth'[u].session_expires = z
      BY <3>1 DEF RowType
    <3>3. Keeps
      <4>1. user_auth' \in [Names -> RowType]
        BY <2>2, <3>1, <3>2, <1>2 DEF IInv, Types
      <4>2. QED
        BY <4>1, <3>1, <3>2, <1>3, <1>4 DEF Keeps, Accounts
    <3>4. Accounts \subseteq Accounts'
      BY <3>3 DEF Keeps, Accounts
    <3>5. RowRight(u)'
      BY <3>1, <3>2 DEF RowRight
    <3>6. \A v \in Names \ {u} : RowRight(v)'
      BY <3>1, <3>3, <3>4, <1>3, StillHeld DEF IInv, RowRight, IsToken
    <3>7. \A v \in Names : Stored(r, v)
      BY <3>1, <3>2 DEF Held, Stored
    <3>8. QED
      BY <3>3, <3>5, <3>6, <3>7
  <2>3. QED
    BY <1>4, <2>1, <2>2
<1>6. CASE Become(r, [request[r] EXCEPT !.at = "cookie", !.token = NoToken])
  <2> DEFINE new == [request[r] EXCEPT !.at = "cookie", !.token = NoToken]
  <2>1. new \in RequestType /\ new.at = "cookie" /\ new.token = 0
    BY <1>1 DEF RequestType, Places
  <2>2. request'[r] = new
    BY <1>6 DEF Become, IInv, Types
  <2>3. RequestRight(r)'
    BY <2>1, <2>2, <1>1, <1>3 DEF RequestRight, IInv, Types
  <2>4. QED
    BY <1>5, <1>6, <2>1, <2>3, TableStep
<1>7. CASE Refuse(r)
  <2>1. Len(logins') \in Nat
    BY <1>3 DEF IInv, Types
  <2>2. QED
    BY <1>5, <1>7, <2>1, FreedRight, FreeType, TableStep DEF Refuse
<1>8. QED
  BY <1>6, <1>7 DEF Logout

LEMMA CreateUserInv == ASSUME IInv, NEW r \in Requests, CreateUser(r) PROVE IInv'
<1> SUFFICES ASSUME NEW q, q = request[r], NEW u, u = q.user
             PROVE  IInv'
  OBVIOUS
<1>1. RequestRight(r) /\ q.at = "create" /\ q \in RequestType /\ Body(q)
  BY DEF CreateUser, At, IInv, Types, RequestRight
<1>2. UNCHANGED <<clock, cookie, asked, logins, ended>> /\ Become(r, Free)
  BY DEF CreateUser
<1>3. ASSUME NEW row, user_auth' = [user_auth EXCEPT ![u] = row], u \notin Accounts,
             row \in RowType, row.session_token = 0, row.session_expires = 0
      PROVE  /\ Keeps /\ \A v \in Names : RowRight(v)'
             /\ \A v \in Names : Stored(r, v)
  <2>1. u \in Names
    BY <1>1 DEF Body
  <2>2. user_auth'[u] = row /\ \A v \in Names \ {u} : user_auth'[v] = user_auth[v]
    BY <1>3, <2>1 DEF IInv, Types
  <2>3. \A v \in Names : user_auth'[v].session_token = user_auth[v].session_token
    <3>1. user_auth[u].session_token = NoToken
      BY <2>1, <1>3 DEF IInv, RowRight
    <3>2. QED
      BY <2>2, <3>1, <1>3 DEF NoToken
  <2>4. Keeps
    <3>1. Held' = Held
      BY <2>3 DEF Held
    <3>2. QED
      BY <3>1, <1>2, <1>3, <2>1, <2>2 DEF Keeps, IInv, Types, Accounts
  <2>5. Accounts \subseteq Accounts'
    BY <2>4 DEF Keeps, Accounts
  <2>6. RowRight(u)'
    BY <2>2, <1>2, <1>3 DEF RowRight, NoToken
  <2>7. \A v \in Names \ {u} : RowRight(v)'
    BY <2>2, <2>5, <1>2 DEF IInv, RowRight, IsToken
  <2>8. QED
    BY <2>3, <2>4, <2>6, <2>7 DEF Held, Stored
<1>4. /\ Keeps /\ \A v \in Names : RowRight(v)'
      /\ \A v \in Names : Stored(r, v)
  <2>1. CASE user_auth' = user_auth
    <3>1. ended' = ended \cup (Held \ Held')
      BY <2>1, <1>2 DEF Held
    <3>2. QED
      BY <2>1, <3>1, <1>2, TableUntouched
  <2>2. ASSUME NEW pass \in HashPass(q.password), u \notin Accounts,
               user_auth' = [user_auth EXCEPT ![u] = Row(pass, q.role)]
        PROVE  /\ Keeps /\ \A v \in Names : RowRight(v)'
               /\ \A v \in Names : Stored(r, v)
    <3>1. pass \in Hashes
      BY <2>2, <1>1 DEF Hashes, Body
    <3>2. Row(pass, q.role) \in RowType /\ Row(pass, q.role).session_token = 0
          /\ Row(pass, q.role).session_expires = 0
      BY <3>1, <1>1 DEF Row, RowType, Body, NoToken
    <3> HIDE DEF Row
    <3>3. QED
      BY <2>2, <3>2, <1>3
  <2>3. QED
    BY <2>1, <2>2 DEF CreateUser, Inserted
<1>5. Len(logins') \in Nat
  BY <1>2 DEF IInv, Types
<1>6. QED
  BY <1>2, <1>4, <1>5, FreeType, FreedRight, TableStep

LEMMA SetActiveInv ==
  ASSUME IInv, NEW u \in Names, NEW active \in BOOLEAN, SetActive(u, active)
  PROVE  IInv'
<1>1. /\ UNCHANGED <<clock, cookie, request, asked, logins, ended>>
      /\ user_auth' = [user_auth EXCEPT ![u].is_active = active]
  BY DEF SetActive
<1>2. \A v \in Names : /\ user_auth'[v] \in RowType
                       /\ user_auth'[v].pass = user_auth[v].pass
                       /\ user_auth'[v].role = user_auth[v].role
                       /\ user_auth'[v].session_token = user_auth[v].session_token
                       /\ user_auth'[v].session_expires = user_auth[v].session_expires
  BY <1>1 DEF IInv, Types, RowType
<1>3. Types'
  BY <1>1, <1>2 DEF IInv, Types
<1>4. Accounts' = Accounts
  BY <1>2 DEF Accounts
<1>5. \A v \in Names : RowRight(v)'
  BY <1>1, <1>2, <1>4 DEF IInv, RowRight, IsToken
<1>6. \A t \in 1 .. Len(logins') : LoginRight(t)'
  BY <1>1, <1>4 DEF IInv, LoginRight
<1>7. \A v \in Seeds : SeedRight(v)'
  BY <1>2, <1>4, NamesAssumption DEF IInv, SeedRight
<1>8. \A r \in Requests : RequestRight(r)'
  <2> TAKE r \in Requests
  <2>1. RequestRight(r)
    BY DEF IInv
  <2>2. request[r].at \in {"me", "logout", "create"} => request[r].caller \in Names
    BY <2>1 DEF RequestRight, IsToken, IInv, LoginRight, Accounts
  <2>3. QED
    BY <2>1, <2>2, <1>1, <1>2 DEF RequestRight, IsToken, Body
<1>9. \A r \in Requests : FreshRight(r)'
  BY <1>1, <1>2 DEF IInv, FreshRight, At
<1>10. QED
  BY <1>1, <1>3, <1>5, <1>6, <1>7, <1>8, <1>9 DEF IInv

LEMMA QuietInv ==
  ASSUME IInv, UNCHANGED <<user_auth, cookie, request, asked, logins, ended>>,
         clock' \in Nat, clock' <= MaxClock
  PROVE  IInv'
BY DEF IInv, Types, RowRight, LoginRight, SeedRight, RequestRight, FreshRight, IsToken, Accounts,
       At, Body

LEMMA NextInv == ASSUME IInv, [Next]_vars PROVE IInv'
<1>1. ASSUME NEW r \in Requests, NEW b \in Browsers, NEW u \in Names, NEW password \in Passwords,
             Login(r, b, u, password)
      PROVE  IInv'
  BY <1>1, LoginInv
<1>2. ASSUME NEW r \in Requests, NEW b \in Browsers,
             AskMe(r, b) \/ AskLogout(r, b) \/ \E new \in NewUsers : AskCreateUser(r, b, new)
      PROVE  IInv'
  BY <1>2, AskInv
<1>3. ASSUME NEW r \in Requests,
             SetUserSession(r) \/ SetCookie(r) \/ GetUserBySession(r) \/ Logout(r) \/ CreateUser(r)
      PROVE  IInv'
  BY <1>3, SetUserSessionInv, SetCookieInv, GetUserBySessionInv, LogoutInv, CreateUserInv
<1>4. ASSUME NEW r \in Requests, QueryFails(r) \/ Me(r) PROVE IInv'
  BY <1>4, RefusedInv DEF QueryFails, Me, Refuse
<1>5. ASSUME NEW u \in Switched, NEW active \in BOOLEAN, SetActive(u, active) PROVE IInv'
  BY <1>5, SetActiveInv DEF SetActive, Accounts
<1>6. CASE Tick
  BY <1>6, QuietInv, BoundsAssumption DEF Tick, IInv, Types
<1>7. CASE UNCHANGED vars
  BY <1>7, QuietInv DEF vars, IInv, Types
<1>8. QED
  BY <1>1, <1>2, <1>3, <1>4, <1>5, <1>6, <1>7 DEF Next

(* The invariant holds in every reachable state. *)
THEOREM InvariantHolds == Spec => []IInv
<1>1. Init => IInv
  BY InitInv
<1>2. IInv /\ [Next]_vars => IInv'
  BY NextInv
<1>3. QED
  BY <1>1, <1>2, PTL DEF Spec

-----------------------------------------------------------------------------
(* The properties *)

(* The types of the variables are right. *)
THEOREM TypeCorrect == Spec => []TypeOK
<1>1. ASSUME IInv PROVE TypeOK
  <2>1. ASSUME NEW u \in Names
        PROVE  /\ user_auth[u].role \in Roles \cup {"none"}
               /\ user_auth[u].is_active \in BOOLEAN
               /\ user_auth[u].session_token \in Tokens \cup {NoToken}
               /\ user_auth[u].session_token = NoToken <=> user_auth[u].session_expires = 0
    <3>1. user_auth[u] \in RowType /\ RowRight(u)
      BY <1>1 DEF IInv, Types
    <3>2. user_auth[u].session_token # NoToken => LoginRight(user_auth[u].session_token)
      BY <1>1, <3>1 DEF IInv, RowRight, IsToken
    <3>3. Len(logins) <= MaxTokens /\ MaxTokens \in Nat /\ Len(logins) \in Nat
      BY <1>1, BoundsAssumption DEF IInv, Types
    <3>4. QED
      BY <3>1, <3>2, <3>3 DEF RowType, RowRight, LoginRight, IsToken, Tokens, NoToken
  <2>2. /\ clock \in 0 .. MaxClock /\ asked \in 0 .. MaxAsked /\ Len(logins) <= MaxTokens
        /\ cookie \in [Browsers -> 0 .. Len(logins)]
    BY <1>1, BoundsAssumption DEF IInv, Types
  <2>3. \A r \in Requests : request[r].at \in Places /\ request[r].token \in 0 .. Len(logins)
    BY <1>1 DEF IInv, Types, RequestType, RequestRight
  <2>4. ended \subseteq 1 .. Len(logins)
    BY <1>1 DEF IInv, Types
  <2>5. QED
    BY <2>1, <2>2, <2>3, <2>4 DEF TypeOK
<1>2. QED
  BY <1>1, InvariantHolds, PTL

(* Every session is the outcome of a login with the password of its        *)
(* account.                                                                *)
THEOREM PasswordsNeeded == Spec => []SessionsNeedPassword
<1>1. IInv => SessionsNeedPassword
  BY DEF IInv, SessionsNeedPassword, RowRight, LoginRight, IsToken
<1>2. QED
  BY <1>1, InvariantHolds, PTL

(* Nothing but the lookup of the session takes a request further. *)
LEMMA OnlyLookupLetsIn ==
  ASSUME IInv, [Next]_vars, NEW r \in Requests, LetIn(r)
  PROVE  GetUserBySession(r)
<1>1. At(r, "auth") /\ request'[r].at \in {"me", "logout", "create"} /\ request'[r] # request[r]
  BY DEF LetIn, At
<1>2. ASSUME NEW q \in Requests, NEW new, Become(q, new), q = r => new.at \notin {"me", "logout", "create"}
      PROVE  FALSE
  BY <1>1, <1>2 DEF Become, IInv, Types
<1>3. Free.at = "free" /\ Free # request[r]
  BY <1>1 DEF Free, At
<1>4. ASSUME NEW q \in Requests, QueryFails(q) \/ Me(q) \/ SetCookie(q) \/ CreateUser(q)
      PROVE  FALSE
  BY <1>2, <1>3, <1>4 DEF QueryFails, Me, SetCookie, CreateUser, Refuse
<1>5. ASSUME NEW q \in Requests, SetUserSession(q) \/ Logout(q) PROVE FALSE
  <2>1. q # r /\ \E new : Become(q, new)
    BY <1>1, <1>5 DEF SetUserSession, Logout, At, AfterFailure, Refuse
  <2>2. QED
    BY <1>2, <2>1
<1>6. ASSUME NEW q \in Requests, NEW b \in Browsers,
             \/ \E u \in Names, password \in Passwords : Login(q, b, u, password)
             \/ AskMe(q, b) \/ AskLogout(q, b) \/ \E new \in NewUsers : AskCreateUser(q, b, new)
      PROVE  FALSE
  <2>1. q # r /\ \E new : Become(q, new)
    BY <1>1, <1>3, <1>6 DEF Login, AskMe, AskLogout, AskCreateUser, Ask
  <2>2. QED
    BY <1>2, <2>1
<1>7. ASSUME NEW q \in Requests, GetUserBySession(q) PROVE q = r
  <2>1. \E new : Become(q, new)
    BY <1>7 DEF GetUserBySession, Refuse
  <2>2. QED
    BY <1>2, <2>1
<1>8. CASE Tick \/ (\E u \in Switched, active \in BOOLEAN : SetActive(u, active)) \/ UNCHANGED vars
  BY <1>1, <1>8 DEF Tick, SetActive, vars
<1>9. QED
  BY <1>4, <1>5, <1>6, <1>7, <1>8 DEF Next

(* A session that ended never lets a request in again, and one that did    *)
(* not end only as its user and in its time.                               *)
THEOREM EndedStayEnded == Spec => EndedSessionsStayEnded
<1> DEFINE Good(r) == LET t == request[r].token
                          u == logins[t].user
                      IN /\ t \notin ended
                         /\ clock < logins[t].expires
                         /\ request'[r].caller = u
                         /\ request'[r].callerRole = user_auth[u].role
<1>1. ASSUME IInv, NEW r \in Requests, GetUserBySession(r), LetIn(r)
      PROVE  Good(r)
  <2> SUFFICES ASSUME NEW t, t = request[r].token, NEW u, u = logins[t].user
               PROVE  Good(r)
    OBVIOUS
  <2>1. RequestRight(r) /\ request[r] \in RequestType /\ IsToken(t)
    BY <1>1 DEF IInv, Types, RequestRight, At, LetIn
  <2>2. PICK v \in SessionRows(t) :
          Become(r, [request[r] EXCEPT !.at = request[r].next, !.caller = v,
                                       !.callerRole = user_auth[v].role])
    <3>1. Refuse(r) => request'[r].at = "free"
      BY <1>1 DEF Refuse, Become, Free, IInv, Types
    <3>2. QED
      BY <1>1, <3>1 DEF GetUserBySession, LetIn
  <2>3. v = u /\ u \in Names /\ RowRight(u)
    BY <1>1, <2>1, RowsOfToken DEF SessionRows, Accounts, IInv
  <2>4. t \notin ended /\ clock < logins[t].expires
    <3>1. user_auth[u].session_token = t /\ user_auth[u].session_expires > clock
      BY <2>3 DEF SessionRows
    <3>2. t # NoToken
      BY <1>1, <2>1 DEF IsToken, NoToken, IInv, Types
    <3>3. t \notin ended /\ logins[t].expires = user_auth[u].session_expires
      BY <2>3, <3>1, <3>2 DEF RowRight
    <3>4. clock \in Nat /\ user_auth[u].session_expires \in Nat
      BY <1>1, <2>3 DEF IInv, Types, RowType
    <3>5. QED
      BY <3>1, <3>3, <3>4
  <2>5. request'[r] = [request[r] EXCEPT !.at = request[r].next, !.caller = v,
                                         !.callerRole = user_auth[v].role]
    BY <1>1, <2>2 DEF Become, IInv, Types
  <2>6. request'[r].caller = v /\ request'[r].callerRole = user_auth[v].role
    BY <2>1, <2>5 DEF RequestType
  <2>7. QED
    BY <2>3, <2>4, <2>6
<1>2. ASSUME IInv, [Next]_vars, NEW r \in Requests, LetIn(r) PROVE Good(r)
  <2>1. GetUserBySession(r)
    BY <1>2, OnlyLookupLetsIn
  <2>2. QED
    BY <1>1, <1>2, <2>1
<1>3. IInv /\ [Next]_vars => [\A r \in Requests : LetIn(r) => Good(r)]_vars
  BY <1>2
<1>4. QED
  BY <1>3, InvariantHolds, PTL DEF Spec, EndedSessionsStayEnded

(* The steps that write the table. *)
LEMMA TableWriters ==
  ASSUME [Next]_vars, user_auth' # user_auth
  PROVE  \/ \E r \in Requests : SetUserSession(r) \/ Logout(r) \/ CreateUser(r)
         \/ \E u \in Switched, active \in BOOLEAN : SetActive(u, active)
BY DEF Next, vars, Login, AskMe, AskLogout, AskCreateUser, Ask, SetCookie, GetUserBySession,
       QueryFails, Me, Tick

(* What a step may do to the row of an account. *)
LEMMA RowWritten ==
  ASSUME IInv, [Next]_vars, NEW u \in Names, user_auth'[u] # user_auth[u]
  PROVE  \/ \E r \in Requests :
              /\ At(r, "set") /\ SetUserSession(r) /\ request[r].user = u /\ u \in Accounts
              /\ user_auth[u].is_active
              /\ user_auth'[u] = [user_auth[u] EXCEPT !.session_token = request[r].token,
                                                     !.session_expires = request[r].expires]
         \/ \E r \in Requests :
              /\ At(r, "logout") /\ Logout(r) /\ logins[request[r].token].user = u /\ u \in Accounts
              /\ user_auth'[u] = [user_auth[u] EXCEPT !.session_token = NoToken,
                                                     !.session_expires = 0]
         \/ \E r \in Requests :
              /\ At(r, "create") /\ CreateUser(r) /\ u \notin Accounts
              /\ request[r].callerRole = "admin" /\ user_auth'[u].session_token = NoToken
              /\ request[r].caller = logins[request[r].token].user
              /\ request[r].callerRole = user_auth[request[r].caller].role
         \/ u \in Accounts /\ \E active \in BOOLEAN :
              user_auth'[u] = [user_auth[u] EXCEPT !.is_active = active]
<1>1. ASSUME NEW r \in Requests, SetUserSession(r)
      PROVE  /\ At(r, "set") /\ request[r].user = u /\ u \in Accounts /\ user_auth[u].is_active
             /\ user_auth'[u] = [user_auth[u] EXCEPT !.session_token = request[r].token,
                                                    !.session_expires = request[r].expires]
  <2>1. At(r, "set") /\ RequestRight(r) /\ IsToken(request[r].token)
    BY <1>1 DEF SetUserSession, IInv, RequestRight, At
  <2>2. request[r].user \in Accounts
    BY <2>1 DEF IInv, LoginRight, IsToken, RequestRight, At
  <2>3. \/ user_auth' = user_auth
        \/ /\ user_auth' = [user_auth EXCEPT ![request[r].user].session_token = request[r].token,
                                             ![request[r].user].session_expires = request[r].expires]
           /\ user_auth[request[r].user].is_active
    BY <1>1 DEF SetUserSession, MayHaveSession
  <2>4. QED
    BY <2>1, <2>2, <2>3 DEF IInv, Types, Accounts
<1>2. ASSUME NEW r \in Requests, Logout(r)
      PROVE  /\ At(r, "logout") /\ logins[request[r].token].user = u /\ u \in Accounts
             /\ user_auth'[u] = [user_auth[u] EXCEPT !.session_token = NoToken,
                                                    !.session_expires = 0]
  <2>1. At(r, "logout") /\ RequestRight(r) /\ IsToken(request[r].token)
    BY <1>2 DEF Logout, IInv, RequestRight, At
  <2>2. request[r].caller \in Accounts /\ request[r].caller = logins[request[r].token].user
    BY <2>1 DEF IInv, LoginRight, IsToken, RequestRight, At
  <2>3. user_auth'[u] = IF u = request[r].caller
                          THEN [user_auth[u] EXCEPT !.session_token = NoToken, !.session_expires = 0]
                          ELSE user_auth[u]
    BY <1>2 DEF Logout, Cleared, NoExpiry
  <2>4. QED
    BY <2>1, <2>2, <2>3
<1>3. ASSUME NEW r \in Requests, CreateUser(r)
      PROVE  /\ At(r, "create") /\ u \notin Accounts
             /\ request[r].callerRole = "admin" /\ user_auth'[u].session_token = NoToken
             /\ request[r].caller = logins[request[r].token].user
             /\ request[r].callerRole = user_auth[request[r].caller].role
  <2>1. At(r, "create") /\ RequestRight(r)
    BY <1>3 DEF CreateUser, IInv
  <2>2. request[r].callerRole = "admin" /\ \E row :
          user_auth' = [user_auth EXCEPT ![request[r].user] = row] /\ row.session_token = NoToken
          /\ request[r].user \notin Accounts
    <3>1. PICK pass \in HashPass(request[r].password) :
            user_auth' = Inserted(request[r].user, Row(pass, request[r].role))
      BY <1>3 DEF CreateUser
    <3>2. Row(pass, request[r].role).session_token = NoToken
      BY DEF Row
    <3>3. request[r].callerRole = "admin"
      BY <1>3 DEF CreateUser
    <3>4. QED
      BY <3>1, <3>2, <3>3 DEF Inserted
  <2>3. QED
    BY <2>1, <2>2 DEF RequestRight, At, IInv, Types
<1>4. ASSUME NEW v \in Switched, NEW active \in BOOLEAN, SetActive(v, active)
      PROVE  u \in Accounts /\ user_auth'[u] = [user_auth[u] EXCEPT !.is_active = active]
  BY <1>4 DEF SetActive, IInv, Types, Accounts
<1>5. QED
  BY <1>1, <1>2, <1>3, <1>4, TableWriters

(* Nobody but its user ends the session of an account, and one begins only *)
(* while the account is active.                                            *)
THEOREM SessionsAreOnesOwn == Spec => OthersCannotEndSession
<1> DEFINE Own(u) == \E r \in Requests :
             \/ /\ At(r, "set") /\ SetUserSession(r) /\ request[r].user = u
                /\ user_auth[u].is_active
             \/ At(r, "logout") /\ Logout(r) /\ logins[request[r].token].user = u
<1>1. ASSUME IInv, [Next]_vars, NEW u \in Names,
             user_auth'[u].session_token # user_auth[u].session_token
      PROVE  Own(u)
  <2>1. user_auth[u] \in RowType /\ RowRight(u)
    BY <1>1 DEF IInv, Types
  <2>2. u \notin Accounts => user_auth[u].session_token = NoToken
    BY <2>1 DEF RowRight
  <2>3. \A active \in BOOLEAN :
          [user_auth[u] EXCEPT !.is_active = active].session_token = user_auth[u].session_token
    BY <2>1 DEF RowType
  <2>4. QED
    BY <1>1, <2>2, <2>3, RowWritten
<1>2. IInv /\ [Next]_vars =>
        [\A u \in Names : user_auth'[u].session_token # user_auth[u].session_token => Own(u)]_vars
  BY <1>1
<1>3. QED
  BY <1>2, InvariantHolds, PTL DEF Spec, OthersCannotEndSession

(* An account keeps its password and role, and only administrators make    *)
(* accounts.                                                               *)
THEOREM AccountsKept == Spec => AccountsAreKept
<1> DEFINE Kept(u) ==
      /\ u \in Accounts => /\ user_auth'[u].pass = user_auth[u].pass
                           /\ user_auth'[u].role = user_auth[u].role
      /\ u \in Accounts' \ Accounts =>
           \E r \in Requests : /\ At(r, "create") /\ CreateUser(r)
                               /\ user_auth[logins[request[r].token].user].role = "admin"
<1>1. ASSUME IInv, [Next]_vars, NEW u \in Names PROVE Kept(u)
  <2>1. user_auth[u] \in RowType
    BY <1>1 DEF IInv, Types
  <2>2. u \in Accounts => user_auth'[u].pass = user_auth[u].pass /\ user_auth'[u].role = user_auth[u].role
    <3>1. CASE user_auth'[u] = user_auth[u]
      BY <3>1
    <3>2. CASE user_auth'[u] # user_auth[u]
      <4>1. ASSUME NEW t, NEW e,
                   user_auth'[u] = [user_auth[u] EXCEPT !.session_token = t, !.session_expires = e]
            PROVE  user_auth'[u].pass = user_auth[u].pass /\ user_auth'[u].role = user_auth[u].role
        BY <2>1, <4>1 DEF RowType
      <4>2. ASSUME NEW a,
                   user_auth'[u] = [user_auth[u] EXCEPT !.is_active = a]
            PROVE  user_auth'[u].pass = user_auth[u].pass /\ user_auth'[u].role = user_auth[u].role
        BY <2>1, <4>2 DEF RowType
      <4>3. u \in Accounts =>
              \/ \E t, e : user_auth'[u] = [user_auth[u] EXCEPT !.session_token = t,
                                                                !.session_expires = e]
              \/ \E a : user_auth'[u] = [user_auth[u] EXCEPT !.is_active = a]
        BY <1>1, <3>2, RowWritten, Zenon
      <4>4. QED
        BY <4>1, <4>2, <4>3
    <3>3. QED
      BY <3>1, <3>2
  <2>3. u \in Accounts' \ Accounts => user_auth'[u] # user_auth[u]
    BY DEF Accounts
  <2>4. QED
    BY <1>1, <2>2, <2>3, RowWritten
<1>2. IInv /\ [Next]_vars => [\A u \in Names : Kept(u)]_vars
  BY <1>1
<1>3. QED
  BY <1>2, InvariantHolds, PTL DEF Spec, AccountsAreKept
=============================================================================
