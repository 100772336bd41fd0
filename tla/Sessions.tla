------------------------------ MODULE Sessions -------------------------------
(***************************************************************************)
(* Sign-ins and what becomes of them (services/auth.go, services/token.go,  *)
(* handlers/auth.go, middleware/auth.go).  A sign-in is answered with a     *)
(* pair: a refresh token, whose row is in refresh_tokens and which the      *)
(* client keeps as a cookie, and an access token, a JWT that the server     *)
(* forgets.  A refresh trades the cookie for a new pair; a logout puts the  *)
(* JWT on a blacklist in Redis and revokes the cookie's row.                *)
(*                                                                         *)
(* Every handler is split at its calls to Postgres and Redis, so that the   *)
(* requests of all clients interleave between them.                         *)
(***************************************************************************)
EXTENDS Naturals, FiniteSets

CONSTANTS
  User,        \* accounts
  Client,      \* HTTP clients, each with a cookie jar
  Request,     \* requests under way at a time
  Token,       \* ids of pairs; bounds the number of pairs ever issued
  None,        \* no account, client or token
  AccessTTL, RefreshTTL,
  MaxTime,     \* bound on the clock
  MaxMishaps   \* bound on failed calls and lost answers

ASSUME SessionAssumption ==
  /\ None \notin User \union Client \union Token
  /\ AccessTTL \in Nat \ {0} /\ RefreshTTL \in Nat \ {0}
  /\ MaxTime \in Nat /\ MaxMishaps \in Nat

VARIABLES
  account,    \* account[u]: "none", "active" or "inactive" (is_active is false)
  token,      \* refresh_tokens; `born` dates the JWT of the pair too
  blacklist,  \* blacklist[k]: when Redis forgets that the JWT of k is blacklisted
  cookie,     \* cookie[c]: the refresh token in the client's jar
  bearer,     \* bearer[c]: the JWT the client sends, kept after a logout too
  req,        \* the handlers under way
  now,
  loggedOut,  \* pairs whose JWT was logged out: answered 204 (history)
  raced,      \* sign-ins of which two refreshes of one token overlapped (history)
  upset,      \* clients with overlapping requests, or whose request failed (history)
  faults      \* how many faults happened (bounds the model)

store == <<account, token, blacklist>>
jars == <<cookie, bearer>>
history == <<loggedOut, raced, upset>>
vars == <<store, jars, req, now, history, faults>>

\* `root` is the pair of the sign-in that the row goes back to (history).
NoRow == [user |-> None, root |-> None, born |-> 0, revoked |-> TRUE]
NoRequest == [op |-> "none", from |-> None, user |-> None, cookie |-> None,
              bearer |-> None, at |-> "idle", void |-> FALSE]

Op == {"none", "signIn", "refresh", "call", "logout"}

\* Places of a handler, and its answers: with a pair, with the cookie cleared, or plain.
Refreshing == {"revoke", "load", "issue"}
Place == {"lookup", "authenticate", "blacklist", "revokeCookie"} \union Refreshing
Answer == {"pair", "cleared", "served", "plain"}

Row == [user : User, root : Token, born : Nat, revoked : BOOLEAN] \union {NoRow}

\* `bearer` of a request is the JWT it came with or is served for, or the pair it is
\* answered with.
Handling == [op : Op, from : Client \union {None}, user : User \union {None},
             cookie : Token \union {None}, bearer : Token \union {None},
             at : Place \union Answer \union {"idle"}, void : BOOLEAN]

TypeOK ==
  /\ account \in [User -> {"none", "active", "inactive"}]
  /\ token \in [Token -> Row]
  /\ blacklist \in [Token -> Nat]
  /\ cookie \in [Client -> Token \union {None}]
  /\ bearer \in [Client -> Token \union {None}]
  /\ req \in [Request -> Handling]
  /\ now \in Nat
  /\ loggedOut \in SUBSET Token /\ raced \in SUBSET Token /\ upset \in SUBSET Client
  /\ faults \in Nat

Init ==
  /\ account \in [User -> {"none", "active", "inactive"}]
  /\ token = [k \in Token |-> NoRow]
  /\ blacklist = [k \in Token |-> 0]
  /\ cookie = [c \in Client |-> None] /\ bearer = [c \in Client |-> None]
  /\ req = [r \in Request |-> NoRequest]
  /\ now = 0
  /\ loggedOut = {} /\ raced = {} /\ upset = {} /\ faults = 0

Live(k) == token[k] # NoRow /\ ~token[k].revoked
Revoked(k) == [token EXCEPT ![k].revoked = TRUE]

Fault == faults < MaxMishaps /\ faults' = faults + 1

\* The call under way of request r fails; its client is told, or hears nothing.
Fails(r) == Fault /\ upset' = upset \union {req[r].from} /\ UNCHANGED <<loggedOut, raced>>

Go(r, place) == req' = [req EXCEPT ![r].at = place]

\* The handler answers; what it had read is forgotten.
Respond(r, answer, pair) ==
  req' = [req EXCEPT ![r] = [@ EXCEPT !.at = answer, !.user = None, !.cookie = None, !.bearer = pair]]

UnderWay(c) == {r \in Request : req[r].from = c}

\* Client c sends a request with what the handler reads of its cookie and its JWT,
\* and the handler gets to `place`.
Send(r, c, op, k, jwt, place, void) ==
  /\ req[r] = NoRequest
  /\ req' = [req EXCEPT ![r] = [op |-> op, from |-> c, user |-> None, cookie |-> k,
                                bearer |-> jwt, at |-> place, void |-> void]]
  /\ upset' = IF UnderWay(c) = {} THEN upset ELSE upset \union {c}
  /\ UNCHANGED <<token, blacklist, jars, now, loggedOut, raced, faults>>

-----------------------------------------------------------------------------
(* Sign-ins.                                                                *)

\* The handler goes on for account u.
GoFor(r, u, place) == req' = [req EXCEPT ![r].user = u, ![r].at = place]

\* A register, login or OAuth callback request: which one shows in its first query.
SignIn(r, c) ==
  /\ Send(r, c, "signIn", None, None, "lookup", FALSE)
  /\ UNCHANGED account

\* Register: the INSERT, which fails for an account that is there.
Register(r) ==
  /\ req[r].op = "signIn" /\ req[r].at = "lookup"
  /\ \E u \in User :
       IF account[u] = "none"
       THEN account' = [account EXCEPT ![u] = "active"] /\ GoFor(r, u, "issue")
       ELSE UNCHANGED account /\ Respond(r, "plain", None)
  /\ UNCHANGED <<token, blacklist, jars, now, history, faults>>

\* Login: the account must be there and active, and the password right.
Login(r) ==
  /\ req[r].op = "signIn" /\ req[r].at = "lookup"
  /\ \/ \E u \in User : account[u] = "active" /\ GoFor(r, u, "issue")
     \/ Respond(r, "plain", None)
  /\ UNCHANGED <<store, jars, now, history, faults>>

\* UpsertGoogleUser: an account is created, updated or linked, and must be active.
UpsertGoogleUser(r) ==
  /\ req[r].op = "signIn" /\ req[r].at = "lookup"
  /\ \E u \in User :
       /\ account' = [account EXCEPT ![u] = IF @ = "none" THEN "active" ELSE @]
       /\ IF account'[u] = "active" THEN GoFor(r, u, "issue") ELSE Respond(r, "plain", None)
  /\ UNCHANGED <<token, blacklist, jars, now, history, faults>>

\* issueTokenPair: the row of a new refresh token, of the sign-in it goes back to.
Persisted(r, k) ==
  [token EXCEPT ![k] =
     [user |-> req[r].user, born |-> now, revoked |-> FALSE,
      root |-> IF req[r].op = "refresh" THEN token[req[r].cookie].root ELSE k]]

IssueTokenPair(r) ==
  /\ req[r].at = "issue"
  /\ \E k \in Token :
       /\ token[k] = NoRow
       /\ token' = Persisted(r, k)
       /\ Respond(r, "pair", k)
  /\ UNCHANGED <<account, blacklist, jars, now, history, faults>>

\* The INSERT reports an error, with or without a row that nobody will present.
IssueFails(r) ==
  /\ req[r].at = "issue"
  /\ Fails(r)
  /\ \/ UNCHANGED token
     \/ \E k \in Token : token[k] = NoRow /\ token' = Persisted(r, k)
  /\ Respond(r, "plain", None)
  /\ UNCHANGED <<account, blacklist, jars, now>>

-----------------------------------------------------------------------------
(* RefreshTokens.                                                           *)

\* `void`: the cookie's token was revoked, or its account deactivated, before.
Refresh(r, c) ==
  /\ LET k == cookie[c]
     IN  IF k = None
         THEN Send(r, c, "refresh", None, None, "plain", FALSE)
         ELSE Send(r, c, "refresh", k, None, "lookup",
                   token[k].revoked \/ account[token[k].user] = "inactive")
  /\ UNCHANGED account

\* The SELECT of the cookie's token; a valid one is not locked.
LookedUp(r, valid) ==
  LET k == req[r].cookie
  IN  /\ req[r].op = "refresh" /\ req[r].at = "lookup"
      /\ IF valid
         THEN /\ GoFor(r, token[k].user, "revoke")
              /\ raced' = IF \E s \in Request : req[s].at = "revoke" /\ req[s].cookie = k
                          THEN raced \union {token[k].root} ELSE raced
         ELSE Respond(r, "cleared", None) /\ UNCHANGED raced
      /\ UNCHANGED <<store, jars, now, loggedOut, upset, faults>>

Unexpired(k) == now <= token[k].born + RefreshTTL

\* Mutant: only the expiry is checked.
LookupExpiryOnly(r) == LookedUp(r, Unexpired(req[r].cookie))

Lookup(r) == LookedUp(r, ~token[req[r].cookie].revoked /\ Unexpired(req[r].cookie))

\* Mutants: nothing is revoked; every token of the account is; the row is deleted.
NotRotated(r) ==
  /\ req[r].at = "revoke"
  /\ Go(r, "load")
  /\ UNCHANGED <<store, jars, now, history, faults>>

RevokeAll(r) ==
  /\ req[r].at = "revoke"
  /\ token' = [k \in Token |-> IF token[k].user = req[r].user
                               THEN [token[k] EXCEPT !.revoked = TRUE] ELSE token[k]]
  /\ Go(r, "load")
  /\ UNCHANGED <<account, blacklist, jars, now, history, faults>>

DeleteOld(r) ==
  /\ req[r].at = "revoke"
  /\ token' = [token EXCEPT ![req[r].cookie] = NoRow]
  /\ Go(r, "load")
  /\ UNCHANGED <<account, blacklist, jars, now, history, faults>>

RevokeOld(r) ==
  /\ req[r].at = "revoke"
  /\ token' = Revoked(req[r].cookie)
  /\ Go(r, "load")
  /\ UNCHANGED <<account, blacklist, jars, now, history, faults>>

\* The UPDATE reports an error, with or without having been applied.
RevokeOldFails(r) ==
  /\ req[r].at = "revoke"
  /\ Fails(r)
  /\ token' \in {token, Revoked(req[r].cookie)}
  /\ Respond(r, "plain", None)
  /\ UNCHANGED <<account, blacklist, jars, now>>

LoadUser(r) ==
  /\ req[r].at = "load"
  /\ IF account[req[r].user] = "active" THEN Go(r, "issue") ELSE Respond(r, "cleared", None)
  /\ UNCHANGED <<store, jars, now, history, faults>>

-----------------------------------------------------------------------------
(* Authenticated requests, Logout among them.                               *)

\* The middleware checks that the JWT has not expired, without a call.
\* `void`: it was logged out before.
Call(r, c, op) ==
  LET k == bearer[c]
      sent == IF op = "logout" THEN cookie[c] ELSE None
  IN  /\ k # None
      /\ IF now < token[k].born + AccessTTL
         THEN Send(r, c, op, sent, k, "authenticate", k \in loggedOut)
         ELSE Send(r, c, op, None, None, "plain", k \in loggedOut)
      /\ UNCHANGED account

\* Then that it is not on the blacklist.
Authenticate(r) ==
  LET k == req[r].bearer
  IN  /\ req[r].at = "authenticate"
      /\ CASE now < blacklist[k] -> Respond(r, "plain", None)
           [] now >= blacklist[k] /\ req[r].op = "logout" -> Go(r, "blacklist")
           [] OTHER -> Respond(r, "served", k)
      /\ UNCHANGED <<store, jars, now, history, faults>>

\* Mutant: the entry lives as long as the JWT has lived.
BlacklistedForAge(r) ==
  LET k == req[r].bearer IN [blacklist EXCEPT ![k] = now + (now - token[k].born)]

\* An entry that lives for a whole AccessTTL, longer than the JWT has left.
Blacklisted(r) == [blacklist EXCEPT ![req[r].bearer] = now + AccessTTL]

\* Without a cookie this is all that Logout does.
BlacklistToken(r) ==
  /\ req[r].at = "blacklist"
  /\ blacklist' = Blacklisted(r)
  /\ IF req[r].cookie = None
     THEN Respond(r, "cleared", None) /\ loggedOut' = loggedOut \union {req[r].bearer}
     ELSE Go(r, "revokeCookie") /\ UNCHANGED loggedOut
  /\ UNCHANGED <<account, token, jars, now, raced, upset, faults>>

BlacklistFails(r) ==
  /\ req[r].at = "blacklist"
  /\ Fails(r)
  /\ blacklist' \in {blacklist, Blacklisted(r)}
  /\ Respond(r, "plain", None)
  /\ UNCHANGED <<account, token, jars, now>>

RevokeCookie(r) ==
  /\ req[r].at = "revokeCookie"
  /\ token' = Revoked(req[r].cookie)
  /\ Respond(r, "cleared", None)
  /\ loggedOut' = loggedOut \union {req[r].bearer}
  /\ UNCHANGED <<account, blacklist, jars, now, raced, upset, faults>>

RevokeCookieFails(r) ==
  /\ req[r].at = "revokeCookie"
  /\ Fails(r)
  /\ token' \in {token, Revoked(req[r].cookie)}
  /\ Respond(r, "plain", None)
  /\ UNCHANGED <<account, blacklist, jars, now>>

-----------------------------------------------------------------------------
\* A query that reads, or a sign-in's first one, fails: no pair comes of it, but the
\* account may.
QueryFails(r) ==
  /\ req[r].at \in {"lookup", "load", "authenticate"}
  /\ Fails(r)
  /\ \/ UNCHANGED account
     \/ /\ req[r].op = "signIn"
        /\ \E u \in User : account[u] = "none" /\ account' = [account EXCEPT ![u] = "active"]
  /\ Respond(r, "plain", None)
  /\ UNCHANGED <<token, blacklist, jars, now>>

\* The answer arrives: Set-Cookie replaces or clears the cookie, and the client
\* remembers the new JWT.
Receive(r) ==
  LET c == req[r].from
  IN  /\ req[r].at \in Answer
      /\ cookie' = [cookie EXCEPT ![c] = CASE req[r].at = "pair" -> req[r].bearer
                                           [] req[r].at = "cleared" -> None
                                           [] OTHER -> @]
      /\ bearer' = [bearer EXCEPT ![c] = IF req[r].at = "pair" THEN req[r].bearer ELSE @]
      /\ req' = [req EXCEPT ![r] = NoRequest]
      /\ UNCHANGED <<store, now, history, faults>>

AnswerLost(r) ==
  /\ req[r].at \in Answer
  /\ Fails(r)
  /\ req' = [req EXCEPT ![r] = NoRequest]
  /\ UNCHANGED <<store, jars, now>>

\* Only an administrator's SQL sets is_active.
Deactivate ==
  /\ \E u \in User : account[u] = "active" /\ account' = [account EXCEPT ![u] = "inactive"]
  /\ UNCHANGED <<token, blacklist, jars, req, now, history, faults>>

Tick ==
  /\ now < MaxTime
  /\ now' = now + 1
  /\ UNCHANGED <<store, jars, req, history, faults>>

SignInStep(r) ==
  \/ Register(r) \/ Login(r) \/ UpsertGoogleUser(r) \/ IssueTokenPair(r) \/ IssueFails(r)

RefreshStep(r) == Lookup(r) \/ RevokeOld(r) \/ RevokeOldFails(r) \/ LoadUser(r)

CallStep(r) ==
  \/ Authenticate(r) \/ BlacklistToken(r) \/ BlacklistFails(r)
  \/ RevokeCookie(r) \/ RevokeCookieFails(r)

Next ==
  \/ \E r \in Request, c \in Client :
       SignIn(r, c) \/ Refresh(r, c) \/ Call(r, c, "call") \/ Call(r, c, "logout")
  \/ \E r \in Request :
       SignInStep(r) \/ RefreshStep(r) \/ CallStep(r) \/ QueryFails(r) \/ Receive(r) \/ AnswerLost(r)
  \/ Deactivate
  \/ Tick

Spec == Init /\ [][Next]_vars

-----------------------------------------------------------------------------
(* Properties.                                                              *)

\* A refresh that arrives after its token was rotated or revoked, or its account
\* deactivated, gets no pair, whatever other requests do while it is handled.
\* (TestRefresh_RevokedRefreshToken, auth_integration_test.go.)
RotatedIsRefused ==
  \A r \in Request :
    req[r].op = "refresh" /\ req[r].void => req[r].at \notin {"issue", "pair"}

\* A request that arrives after the logout of its JWT is not let in for as long as the
\* JWT is valid: Redis remembers it for longer than it lives.
\* (TestLogout_BlacklistsJWT, auth_integration_test.go.)
LoggedOutIsRefused ==
  \A r \in Request :
    /\ req[r].op \in {"call", "logout"} /\ req[r].void
    /\ req[r].bearer # None /\ now < token[req[r].bearer].born + AccessTTL
    => req[r].at = "authenticate"

\* Rotation moves a session on and never multiplies it: a sign-in has at most one
\* token that can be refreshed, whatever fails, unless two refreshes of one token
\* overlap between the lookup and the UPDATE.
OneTokenPerSignIn ==
  \A k, l \in Token :
    Live(k) /\ Live(l) /\ token[k].root = token[l].root /\ token[k].root \notin raced => k = l

\* A client that sends one request at a time, none of which fails, always has a
\* cookie that works, until it expires or the account is deactivated: nothing that
\* other clients do, on the same account even, revokes it.
SessionSurvives ==
  \A c \in Client \ upset :
    UnderWay(c) = {} /\ cookie[c] # None => ~token[cookie[c]].revoked

-----------------------------------------------------------------------------
(* The inductive invariant behind LoggedOutIsRefused.                       *)

\* Every pair that a handler or a jar names was issued.
Issued(k) == k = None \/ token[k] # NoRow

\* A handler has read what its place needs.
HasRead(q) ==
  /\ Issued(q.cookie) /\ Issued(q.bearer)
  /\ q.at # "idle" => q.from \in Client
  /\ q.at \in Refreshing => q.user \in User /\ q.op \in {"signIn", "refresh"}
  /\ q.at \in {"revoke", "load"} => q.op = "refresh"
  /\ q.op = "refresh" /\ q.at \in {"lookup"} \union Refreshing => q.cookie # None
  /\ q.at \in {"authenticate", "blacklist", "revokeCookie"} => q.bearer # None
  /\ q.at = "revokeCookie" => q.cookie # None

Placed ==
  /\ \A c \in Client : Issued(cookie[c]) /\ Issued(bearer[c])
  /\ \A r \in Request : HasRead(req[r])

\* The JWT of k is on the blacklist for the rest of its life.
Remembered(k) == blacklist[k] >= token[k].born + AccessTTL

\* The request came with a JWT that had been logged out.
LateCall(q) == q.op \in {"call", "logout"} /\ q.void /\ q.bearer # None

\* A logout past its call to Redis is remembered; a late call names a JWT that was
\* logged out, and gets past the middleware only once that has expired.
Honoured(q) ==
  /\ q.at = "revokeCookie" => Remembered(q.bearer)
  /\ LateCall(q) => /\ q.bearer \in loggedOut
                    /\ q.at = "authenticate" \/ now >= token[q.bearer].born + AccessTTL

Logouts ==
  /\ \A k \in Token : token[k].born <= now
  /\ \A k \in loggedOut : token[k] # NoRow /\ Remembered(k)
  /\ \A r \in Request : Honoured(req[r])

LogoutInv == Placed /\ Logouts

-----------------------------------------------------------------------------
(* The inductive invariants behind the properties of rotation.              *)

\* A refresh that came too late is still to be turned away, by its lookup or by that of its
\* account.
Barred(q) ==
  q.op = "refresh" /\ q.void =>
    /\ q.at \notin {"issue", "pair"}
    /\ q.at = "lookup" => token[q.cookie].revoked \/ account[token[q.cookie].user] = "inactive"
    /\ q.at \in {"revoke", "load"} => account[q.user] = "inactive"

RefusalInv == \A r \in Request : Barred(req[r])

\* Refreshes past their lookup, and the sign-in they go back to.
Rotating == {r \in Request : req[r].op = "refresh" /\ req[r].at \in Refreshing}
Root(r) == token[req[r].cookie].root

RootsIssued == \A k \in Token : token[k] # NoRow => token[token[k].root] # NoRow

\* A sign-in lives on in one token, maybe with the refresh that is about to revoke it, or in
\* one refresh that is to issue the next.
OneHolder ==
  /\ \A r \in Rotating, k \in Token :
       Live(k) /\ token[k].root = Root(r) /\ Root(r) \notin raced =>
         req[r].at = "revoke" /\ req[r].cookie = k
  /\ \A r, s \in Rotating : Root(r) = Root(s) /\ Root(r) \notin raced => r = s

RotationInv == RootsIssued /\ OneTokenPerSignIn /\ OneHolder

\* Client c has k in its jar or on its way there, or sent it.
Holds(c, k) ==
  \/ cookie[c] = k
  \/ \E r \in UnderWay(c) : req[r].cookie = k \/ (req[r].at = "pair" /\ req[r].bearer = k)

\* A refresh token is never in the hands of two clients.
Owned == \A c, d \in Client, k \in Token : Holds(c, k) /\ Holds(d, k) => c = d

\* Answer q replaces or clears the revoked token k, or will once its handler is done.
Replaces(q, k) ==
  \/ q.at \in {"pair", "cleared"}
  \/ q.op = "refresh" /\ q.at \in {"load", "issue"} /\ q.cookie = k

Undisturbed(c) ==
  /\ \A r, s \in UnderWay(c) : r = s
  /\ \A r \in UnderWay(c) :
       req[r].at = "pair" => req[r].bearer # None /\ ~token[req[r].bearer].revoked
  /\ cookie[c] # None /\ token[cookie[c]].revoked =>
       \E r \in UnderWay(c) : Replaces(req[r], cookie[c])

SurvivalInv == Owned /\ \A c \in Client \ upset : Undisturbed(c)
=============================================================================
