--------------------------- MODULE Sessions_proofs ---------------------------
(***************************************************************************)
(* Proofs about Sessions, for every number of accounts, clients, requests,  *)
(* pairs and failures, and any times to live.                               *)
(***************************************************************************)
EXTENDS Sessions, TLAPS

-----------------------------------------------------------------------------
(* Type correctness.                                                        *)

LEMMA TypeInit == Init => TypeOK
BY SessionAssumption
DEF Init, TypeOK, Row, NoRow, Handling, NoRequest, Op

\* The ways in which a request changes keep the table of requests well-typed.
LEMMA SendType ==
  ASSUME TypeOK, NEW r \in Request, NEW c \in Client, NEW op \in Op,
         NEW k \in Token \union {None}, NEW jwt \in Token \union {None},
         NEW place \in Place \union Answer, NEW void \in BOOLEAN,
         Send(r, c, op, k, jwt, place, void), UNCHANGED account
  PROVE  TypeOK'
BY DEF Send, TypeOK, Handling, jars

LEMMA GoType ==
  ASSUME TypeOK, NEW r \in Request, NEW place \in Place \union Answer, Go(r, place)
  PROVE  req' \in [Request -> Handling]
BY DEF Go, TypeOK, Handling

LEMMA GoForType ==
  ASSUME TypeOK, NEW r \in Request, NEW u \in User, NEW place \in Place, GoFor(r, u, place)
  PROVE  req' \in [Request -> Handling]
<1>. DEFINE q == [req[r] EXCEPT !.user = u, !.at = place]
<1>1. req[r] \in Handling
  BY DEF TypeOK
<1>2. q \in Handling
  BY <1>1 DEF Handling
<1>3. req' = [req EXCEPT ![r] = q]
  BY DEF GoFor
<1>4. QED
  BY <1>2, <1>3 DEF TypeOK

LEMMA RespondType ==
  ASSUME TypeOK, NEW r \in Request, NEW answer \in Answer, NEW pair \in Token \union {None},
         Respond(r, answer, pair)
  PROVE  req' \in [Request -> Handling]
<1>. DEFINE q == [req[r] EXCEPT !.at = answer, !.user = None, !.cookie = None, !.bearer = pair]
<1>1. req[r] \in Handling
  BY DEF TypeOK
<1>2. q \in Handling
  BY <1>1 DEF Handling
<1>3. req' = [req EXCEPT ![r] = q]
  BY DEF Respond
<1>4. QED
  BY <1>2, <1>3 DEF TypeOK

LEMMA FailsType ==
  ASSUME TypeOK, Placed, NEW r \in Request, req[r].at # "idle", Fails(r)
  PROVE  /\ loggedOut' \in SUBSET Token /\ raced' \in SUBSET Token
         /\ upset' \in SUBSET Client /\ faults' \in Nat
BY DEF Fails, Fault, TypeOK, Placed, HasRead

LEMMA NoRowRevoked == [NoRow EXCEPT !.revoked = TRUE] = NoRow
<1>. DEFINE Only == [user : {None}, root : {None}, born : {0}, revoked : {TRUE}]
<1>1. NoRow \in Only
  BY DEF NoRow
<1>2. \A row \in Only : [row EXCEPT !.revoked = TRUE] = row
  OBVIOUS
<1>3. QED
  BY <1>1, <1>2

LEMMA RevokedType ==
  ASSUME TypeOK, NEW k \in Token PROVE Revoked(k) \in [Token -> Row]
<1>. DEFINE row == [token[k] EXCEPT !.revoked = TRUE]
<1>1. row \in Row
  <2>1. CASE token[k] = NoRow
    BY <2>1, NoRowRevoked DEF Row
  <2>2. CASE token[k] \in [user : User, root : Token, born : Nat, revoked : BOOLEAN]
    BY <2>2 DEF Row
  <2>3. QED
    BY <2>1, <2>2 DEF TypeOK, Row
<1>2. Revoked(k) = [token EXCEPT ![k] = row]
  BY DEF Revoked
<1>3. QED
  BY <1>1, <1>2 DEF TypeOK

LEMMA PersistedType ==
  ASSUME TypeOK, Placed, NEW r \in Request, req[r].at = "issue", NEW k \in Token
  PROVE  Persisted(r, k) \in [Token -> Row]
<1>1. req[r].user \in User
  BY DEF Placed, HasRead, Refreshing
<1>2. ASSUME req[r].op = "refresh" PROVE token[req[r].cookie].root \in Token
  <2>1. req[r].cookie \in Token /\ token[req[r].cookie] # NoRow
    BY <1>2 DEF Placed, HasRead, Issued, Refreshing, TypeOK, Handling
  <2>2. QED
    BY <2>1 DEF TypeOK, Row
<1>3. QED
  BY <1>1, <1>2 DEF Persisted, TypeOK, Row

\* What the handlers know when they get to a place.
LEMMA PlacedFields ==
  ASSUME TypeOK, Placed, NEW r \in Request
  PROVE  /\ req[r].at \in Refreshing => req[r].user \in User
         /\ req[r].at \in {"revoke", "revokeCookie"} => req[r].cookie \in Token
         /\ req[r].at \in {"authenticate", "blacklist", "revokeCookie"} => req[r].bearer \in Token
         /\ req[r].at = "lookup" /\ req[r].op = "refresh" =>
              req[r].cookie \in Token /\ token[req[r].cookie].user \in User
<1>1. req[r] \in Handling
  BY DEF TypeOK
<1>2. ASSUME req[r].at = "lookup", req[r].op = "refresh"
      PROVE  req[r].cookie \in Token /\ token[req[r].cookie].user \in User
  BY <1>1, <1>2 DEF Placed, HasRead, Issued, TypeOK, Row, Handling
<1>3. QED
  BY <1>1, <1>2 DEF Placed, HasRead, Refreshing, Handling

LEMMA SignInType ==
  ASSUME TypeOK, Placed, NEW r \in Request, SignInStep(r)
  PROVE  TypeOK'
<1>. USE DEF TypeOK
<1>. {"issue"} \subseteq Place /\ {"plain", "pair"} \subseteq Answer
  BY DEF Place, Refreshing, Answer
<1>. None \in Token \union {None}
  OBVIOUS
<1>1. ASSUME Register(r) PROVE TypeOK'
  <2>1. account' \in [User -> {"none", "active", "inactive"}]
    BY <1>1 DEF Register
  <2>2. req' \in [Request -> Handling]
    BY <1>1, GoForType, RespondType DEF Register
  <2>3. QED
    BY <1>1, <2>1, <2>2 DEF Register, jars, history
<1>2. ASSUME Login(r) PROVE TypeOK'
  BY <1>2, GoForType, RespondType DEF Login, store, jars, history
<1>3. ASSUME UpsertGoogleUser(r) PROVE TypeOK'
  <2>1. account' \in [User -> {"none", "active", "inactive"}]
    BY <1>3 DEF UpsertGoogleUser
  <2>2. req' \in [Request -> Handling]
    BY <1>3, GoForType, RespondType DEF UpsertGoogleUser
  <2>3. QED
    BY <1>3, <2>1, <2>2 DEF UpsertGoogleUser, jars, history
<1>4. ASSUME IssueTokenPair(r) PROVE TypeOK'
  BY <1>4, RespondType, PersistedType DEF IssueTokenPair, jars, history
<1>5. ASSUME IssueFails(r) PROVE TypeOK'
  BY <1>5, RespondType, PersistedType, FailsType DEF IssueFails, jars
<1>6. QED
  BY <1>1, <1>2, <1>3, <1>4, <1>5 DEF SignInStep

LEMMA RefreshType ==
  ASSUME TypeOK, Placed, NEW r \in Request, RefreshStep(r)
  PROVE  TypeOK'
<1>. USE DEF TypeOK
<1>. {"revoke", "load", "issue"} \subseteq Place /\ {"plain", "cleared"} \subseteq Answer
  BY DEF Place, Refreshing, Answer
<1>. None \in Token \union {None}
  OBVIOUS
<1>1. ASSUME Lookup(r) PROVE TypeOK'
  <2>1. req[r].cookie \in Token /\ token[req[r].cookie].user \in User
    BY <1>1, PlacedFields DEF Lookup, LookedUp
  <2>2. raced' \in SUBSET Token
    BY <1>1, <2>1 DEF Lookup, LookedUp, Placed, HasRead, Issued, Row
  <2>3. QED
    BY <1>1, <2>1, <2>2, GoForType, RespondType DEF Lookup, LookedUp, store, jars
<1>2. ASSUME RevokeOld(r) PROVE TypeOK'
  BY <1>2, PlacedFields, RevokedType, GoType DEF RevokeOld, jars, history
<1>3. ASSUME RevokeOldFails(r) PROVE TypeOK'
  BY <1>3, PlacedFields, RevokedType, RespondType, FailsType DEF RevokeOldFails, jars
<1>4. ASSUME LoadUser(r) PROVE TypeOK'
  BY <1>4, GoType, RespondType DEF LoadUser, store, jars, history
<1>5. QED
  BY <1>1, <1>2, <1>3, <1>4 DEF RefreshStep

LEMMA CallType ==
  ASSUME TypeOK, Placed, NEW r \in Request, CallStep(r)
  PROVE  TypeOK'
<1>. USE DEF TypeOK
<1>. /\ {"blacklist", "revokeCookie"} \subseteq Place
     /\ {"plain", "served", "cleared"} \subseteq Answer
  BY DEF Place, Answer
<1>. None \in Token \union {None}
  OBVIOUS
<1>1. ASSUME req[r].bearer \in Token PROVE Blacklisted(r) \in [Token -> Nat]
  BY <1>1, SessionAssumption DEF Blacklisted
<1>2. ASSUME Authenticate(r) PROVE TypeOK'
  <2>1. req' \in [Request -> Handling]
    BY <1>2, PlacedFields, GoType, RespondType DEF Authenticate
  <2>2. QED
    BY <1>2, <2>1 DEF Authenticate, store, jars, history
<1>3. ASSUME BlacklistToken(r) PROVE TypeOK'
  <2>1. req[r].bearer \in Token
    BY <1>3, PlacedFields DEF BlacklistToken
  <2>2. req' \in [Request -> Handling]
    BY <1>3, GoType, RespondType DEF BlacklistToken
  <2>3. loggedOut' \in SUBSET Token
    BY <1>3, <2>1 DEF BlacklistToken
  <2>4. QED
    BY <1>1, <1>3, <2>1, <2>2, <2>3 DEF BlacklistToken, jars
<1>4. ASSUME BlacklistFails(r) PROVE TypeOK'
  <2>1. req[r].bearer \in Token
    BY <1>4, PlacedFields DEF BlacklistFails
  <2>2. QED
    BY <1>1, <1>4, <2>1, RespondType, FailsType DEF BlacklistFails, jars
<1>5. ASSUME RevokeCookie(r) PROVE TypeOK'
  BY <1>5, PlacedFields, RevokedType, RespondType DEF RevokeCookie, jars
<1>6. ASSUME RevokeCookieFails(r) PROVE TypeOK'
  BY <1>6, PlacedFields, RevokedType, RespondType, FailsType DEF RevokeCookieFails, jars
<1>7. QED
  BY <1>2, <1>3, <1>4, <1>5, <1>6 DEF CallStep

\* What a call or a logout brings: its JWT while that has not expired.
LEMMA CallSends ==
  ASSUME TypeOK, NEW r \in Request, NEW c \in Client, NEW op \in {"call", "logout"}, Call(r, c, op)
  PROVE  \E sent \in {cookie[c], None}, jwt \in {bearer[c], None}, place \in {"authenticate", "plain"},
            void \in BOOLEAN :
           /\ Send(r, c, op, sent, jwt, place, void)
           /\ jwt # None => void = (jwt \in loggedOut)
           /\ place = "authenticate" <=> jwt # None
<1>. DEFINE late == bearer[c] \in loggedOut
<1>1. late \in BOOLEAN /\ late = (bearer[c] \in loggedOut)
  OBVIOUS
<1>2. /\ bearer[c] # None
      /\ \E sent \in {cookie[c], None} :
           \/ Send(r, c, op, sent, bearer[c], "authenticate", late)
           \/ Send(r, c, op, sent, None, "plain", late)
  BY DEF Call
<1>. HIDE DEF late
<1>3. PICK sent \in {cookie[c], None} :
        \/ Send(r, c, op, sent, bearer[c], "authenticate", late)
        \/ Send(r, c, op, sent, None, "plain", late)
  BY <1>2
<1>4. CASE Send(r, c, op, sent, bearer[c], "authenticate", late)
  BY <1>1, <1>2, <1>4
<1>5. CASE Send(r, c, op, sent, None, "plain", late)
  BY <1>1, <1>5
<1>6. QED
  BY <1>3, <1>4, <1>5

LEMMA ArrivalType ==
  ASSUME TypeOK, NEW r \in Request, NEW c \in Client,
         SignIn(r, c) \/ Refresh(r, c) \/ Call(r, c, "call") \/ Call(r, c, "logout")
  PROVE  TypeOK'
<1>1. {"lookup", "authenticate", "plain"} \subseteq Place \union Answer
  BY DEF Place, Answer
<1>2. {"signIn", "refresh", "call", "logout"} \subseteq Op
  BY DEF Op
<1>3. cookie[c] \in Token \union {None} /\ bearer[c] \in Token \union {None}
  BY DEF TypeOK
<1>4. CASE SignIn(r, c)
  BY <1>1, <1>2, <1>4, SendType DEF SignIn
<1>5. CASE Refresh(r, c)
  <2>. DEFINE k == cookie[c]
  <2>1. CASE k = None
    BY <1>1, <1>2, <1>5, <2>1, SendType DEF Refresh
  <2>2. CASE k \in Token
    <3>. DEFINE void == token[k].revoked \/ account[token[k].user] = "inactive"
    <3>1. void \in BOOLEAN
      OBVIOUS
    <3>2. Send(r, c, "refresh", k, None, "lookup", void) /\ UNCHANGED account
      BY <1>5, <2>2, SessionAssumption DEF Refresh
    <3>. HIDE DEF void
    <3>3. QED
      BY <1>1, <1>2, <2>2, <3>1, <3>2, SendType
  <2>3. QED
    BY <1>3, <2>1, <2>2
<1>6. ASSUME NEW op \in {"call", "logout"}, Call(r, c, op) PROVE TypeOK'
  <2>1. PICK sent \in {cookie[c], None}, jwt \in {bearer[c], None}, place \in {"authenticate", "plain"},
             void \in BOOLEAN : Send(r, c, op, sent, jwt, place, void)
    BY <1>6, CallSends
  <2>2. /\ sent \in Token \union {None} /\ jwt \in Token \union {None}
        /\ place \in Place \union Answer /\ op \in Op
    BY <1>1, <1>2, <1>3
  <2>3. UNCHANGED account
    BY <1>6 DEF Call
  <2>4. QED
    BY <2>1, <2>2, <2>3, SendType
<1>7. QED
  BY <1>4, <1>5, <1>6

LEMMA AnswerType ==
  ASSUME TypeOK, Placed, NEW r \in Request, QueryFails(r) \/ Receive(r) \/ AnswerLost(r)
  PROVE  TypeOK'
<1>. USE DEF TypeOK
<1>. "plain" \in Answer /\ None \in Token \union {None} /\ "idle" \notin Answer
  BY DEF Answer
<1>. NoRequest \in Handling
  BY DEF NoRequest, Handling, Op
<1>1. CASE QueryFails(r)
  BY <1>1, RespondType, FailsType DEF QueryFails, jars
<1>2. CASE Receive(r)
  <2>1. req[r].bearer \in Token \union {None}
    BY DEF Handling
  <2>2. QED
    BY <1>2, <2>1 DEF Receive, store, history
<1>3. CASE AnswerLost(r)
  BY <1>3, FailsType DEF AnswerLost, store, jars
<1>4. QED
  BY <1>1, <1>2, <1>3

LEMMA TypeStep == TypeOK /\ Placed /\ [Next]_vars => TypeOK'
<1>1. ASSUME TypeOK, Placed, Next PROVE TypeOK'
  <2>1. CASE Deactivate
    BY <1>1, <2>1 DEF Deactivate, TypeOK, jars, history
  <2>2. CASE Tick
    BY <1>1, <2>2 DEF Tick, TypeOK, store, jars, history
  <2>3. QED
    BY <1>1, <2>1, <2>2, SignInType, RefreshType, CallType, ArrivalType, AnswerType DEF Next
<1>2. ASSUME TypeOK, UNCHANGED vars PROVE TypeOK'
  BY <1>2 DEF TypeOK, vars, store, jars, history
<1>3. QED
  BY <1>1, <1>2

-----------------------------------------------------------------------------
(* What a step can do to the tables.                                        *)

\* Revoking a row leaves it where it is, and its date.
LEMMA RevokedKeeps ==
  ASSUME TypeOK, NEW k \in Token, NEW l \in Token
  PROVE  /\ token[l] # NoRow => Revoked(k)[l] # NoRow
         /\ Revoked(k)[l].born = token[l].born
<1>. DEFINE row == [token[k] EXCEPT !.revoked = TRUE]
<1>1. Revoked(k) = [token EXCEPT ![k] = row]
  BY DEF Revoked
<1>2. CASE token[k] = NoRow
  BY <1>1, <1>2, NoRowRevoked DEF TypeOK
<1>3. CASE token[k] \in [user : User, root : Token, born : Nat, revoked : BOOLEAN]
  <2>1. row.user \in User /\ row.born = token[k].born
    BY <1>3
  <2>2. row # NoRow
    BY <2>1, SessionAssumption DEF NoRow
  <2>3. QED
    BY <1>1, <2>1, <2>2 DEF TypeOK
<1>4. QED
  BY <1>2, <1>3 DEF TypeOK, Row

LEMMA PersistedKeeps ==
  ASSUME TypeOK, NEW r \in Request, req[r].user \in User,
         NEW k \in Token, token[k] = NoRow, NEW l \in Token
  PROVE  /\ Persisted(r, k)[l] # NoRow \/ l # k
         /\ l # k => Persisted(r, k)[l] = token[l]
         /\ Persisted(r, k)[k].born = now
<1>. DEFINE root == IF req[r].op = "refresh" THEN token[req[r].cookie].root ELSE k
            row == [user |-> req[r].user, born |-> now, revoked |-> FALSE, root |-> root]
<1>1. Persisted(r, k) = [token EXCEPT ![k] = row]
  BY DEF Persisted
<1>2. row.user # NoRow.user /\ row.born = now
  BY SessionAssumption DEF NoRow
<1>. HIDE DEF row
<1>3. QED
  BY <1>1, <1>2 DEF TypeOK

\* Rows are never removed and their dates never change; a new one is dated now.
RowsKept ==
  \A k \in Token :
    /\ token[k] # NoRow => token'[k] # NoRow /\ token'[k].born = token[k].born
    /\ token'[k].born \in {token[k].born, now}

LEMMA RowsKeptUnchanged == token' = token => RowsKept
BY DEF RowsKept

LEMMA RowsKeptStep == ASSUME TypeOK, Placed, [Next]_vars PROVE RowsKept
<1>. USE DEF RowsKept
<1>1. ASSUME NEW k \in Token, token' = Revoked(k) PROVE RowsKept
  BY <1>1, RevokedKeeps
<1>2. ASSUME NEW r \in Request, req[r].at = "issue",
             NEW k \in Token, token[k] = NoRow, token' = Persisted(r, k)
      PROVE  RowsKept
  <2>1. req[r].user \in User
    BY <1>2 DEF Placed, HasRead, Refreshing
  <2>2. QED
    BY <1>2, <2>1, PersistedKeeps
<1>3. ASSUME NEW r \in Request, SignInStep(r) PROVE RowsKept
  <2>1. CASE Register(r) \/ Login(r) \/ UpsertGoogleUser(r)
    BY <2>1, RowsKeptUnchanged DEF Register, Login, UpsertGoogleUser, store
  <2>2. CASE IssueTokenPair(r) \/ IssueFails(r)
    BY <1>2, <2>2, RowsKeptUnchanged DEF IssueTokenPair, IssueFails
  <2>3. QED
    BY <1>3, <2>1, <2>2 DEF SignInStep
<1>4. ASSUME NEW r \in Request, RefreshStep(r) PROVE RowsKept
  <2>1. CASE Lookup(r) \/ LoadUser(r)
    BY <2>1, RowsKeptUnchanged DEF Lookup, LookedUp, LoadUser, store
  <2>2. CASE RevokeOld(r) \/ RevokeOldFails(r)
    BY <1>1, <2>2, PlacedFields, RowsKeptUnchanged DEF RevokeOld, RevokeOldFails
  <2>3. QED
    BY <1>4, <2>1, <2>2 DEF RefreshStep
<1>5. ASSUME NEW r \in Request, CallStep(r) PROVE RowsKept
  <2>1. CASE Authenticate(r) \/ BlacklistToken(r) \/ BlacklistFails(r)
    BY <2>1, RowsKeptUnchanged DEF Authenticate, BlacklistToken, BlacklistFails, store
  <2>2. CASE RevokeCookie(r) \/ RevokeCookieFails(r)
    BY <1>1, <2>2, PlacedFields, RowsKeptUnchanged DEF RevokeCookie, RevokeCookieFails
  <2>3. QED
    BY <1>5, <2>1, <2>2 DEF CallStep
<1>6. CASE \E r \in Request, c \in Client :
             SignIn(r, c) \/ Refresh(r, c) \/ Call(r, c, "call") \/ Call(r, c, "logout")
  BY <1>6, RowsKeptUnchanged DEF SignIn, Refresh, Call, Send
<1>7. CASE \E r \in Request : QueryFails(r) \/ Receive(r) \/ AnswerLost(r)
  BY <1>7, RowsKeptUnchanged DEF QueryFails, Receive, AnswerLost, store
<1>8. CASE Deactivate \/ Tick \/ UNCHANGED vars
  BY <1>8, RowsKeptUnchanged DEF Deactivate, Tick, vars, store
<1>9. QED
  BY <1>3, <1>4, <1>5, <1>6, <1>7, <1>8 DEF Next

\* An entry of the blacklist is only ever replaced by one that lives as long as a
\* JWT issued at that moment; the clock does not run backwards.
EntriesLast ==
  /\ \A k \in Token : blacklist'[k] \in {blacklist[k], now + AccessTTL}
  /\ now' \in {now, now + 1}

LEMMA EntriesLastUnchanged == blacklist' = blacklist /\ now' = now => EntriesLast
BY DEF EntriesLast

LEMMA EntriesLastStep == ASSUME TypeOK, Placed, [Next]_vars PROVE EntriesLast
<1>1. ASSUME NEW r \in Request, SignInStep(r) PROVE EntriesLast
  BY <1>1, EntriesLastUnchanged
  DEF SignInStep, Register, Login, UpsertGoogleUser, IssueTokenPair, IssueFails, store
<1>2. ASSUME NEW r \in Request, RefreshStep(r) PROVE EntriesLast
  BY <1>2, EntriesLastUnchanged
  DEF RefreshStep, Lookup, LookedUp, LoadUser, RevokeOld, RevokeOldFails, store
<1>3. ASSUME NEW r \in Request, CallStep(r) PROVE EntriesLast
  <2>1. CASE Authenticate(r) \/ RevokeCookie(r) \/ RevokeCookieFails(r)
    BY <2>1, EntriesLastUnchanged DEF Authenticate, RevokeCookie, RevokeCookieFails, store
  <2>2. CASE BlacklistToken(r) \/ BlacklistFails(r)
    BY <2>2 DEF BlacklistToken, BlacklistFails, Blacklisted, EntriesLast, TypeOK
  <2>3. QED
    BY <1>3, <2>1, <2>2 DEF CallStep
<1>4. CASE \E r \in Request, c \in Client :
             SignIn(r, c) \/ Refresh(r, c) \/ Call(r, c, "call") \/ Call(r, c, "logout")
  BY <1>4, EntriesLastUnchanged DEF SignIn, Refresh, Call, Send
<1>5. CASE \E r \in Request : QueryFails(r) \/ Receive(r) \/ AnswerLost(r)
  BY <1>5, EntriesLastUnchanged DEF QueryFails, Receive, AnswerLost, store
<1>6. CASE Deactivate \/ UNCHANGED vars
  BY <1>6, EntriesLastUnchanged DEF Deactivate, vars, store
<1>7. CASE Tick
  BY <1>7 DEF Tick, store, EntriesLast
<1>8. QED
  BY <1>1, <1>2, <1>3, <1>4, <1>5, <1>6, <1>7 DEF Next

-----------------------------------------------------------------------------
(* What a step does to a request.                                           *)

LEMMA RememberedKept ==
  ASSUME TypeOK, RowsKept, EntriesLast, NEW k \in Token, token[k] # NoRow,
         token[k].born <= now, Remembered(k)
  PROVE  Remembered(k)'
<1>1. token'[k].born = token[k].born /\ token[k].born \in Nat
  BY DEF RowsKept, TypeOK, Row
<1>2. blacklist'[k] \in {blacklist[k], now + AccessTTL} /\ blacklist[k] \in Nat /\ now \in Nat
  BY DEF EntriesLast, TypeOK
<1>3. QED
  BY <1>1, <1>2, SessionAssumption DEF Remembered

\* Both invariants of a request.
InOrder(q) == HasRead(q) /\ Honoured(q)

\* A request that does not move stays in order, whatever the others do.
LEMMA InOrderKept ==
  ASSUME TypeOK, LogoutInv, RowsKept, EntriesLast, loggedOut \subseteq loggedOut',
         NEW s \in Request, req'[s] = req[s]
  PROVE  InOrder(req[s])'
<1>. DEFINE q == req[s]
<1>1. q \in Handling
  BY DEF TypeOK
<1>2. HasRead(q) /\ Honoured(q)
  BY DEF LogoutInv, Placed, Logouts
<1>3. ASSUME NEW k \in Token \union {None}, Issued(k) PROVE Issued(k)'
  BY <1>3 DEF Issued, RowsKept
<1>4. HasRead(q)'
  BY <1>1, <1>2, <1>3 DEF HasRead, Handling
<1>5. ASSUME q.at = "revokeCookie" PROVE Remembered(q.bearer)'
  <2>1. q.bearer \in Token /\ token[q.bearer] # NoRow
    BY <1>1, <1>2, <1>5 DEF HasRead, Issued, Handling
  <2>2. token[q.bearer].born <= now
    BY <2>1 DEF LogoutInv, Logouts
  <2>3. QED
    BY <1>2, <1>5, <2>1, <2>2, RememberedKept DEF Honoured
<1>6. ASSUME LateCall(q), q.at # "authenticate" PROVE now' >= token'[q.bearer].born + AccessTTL
  <2>1. q.bearer \in Token /\ token[q.bearer] # NoRow
    BY <1>1, <1>2, <1>6 DEF HasRead, Issued, Handling, LateCall
  <2>2. token'[q.bearer].born = token[q.bearer].born /\ token[q.bearer].born \in Nat
    BY <2>1 DEF RowsKept, TypeOK, Row
  <2>3. now >= token[q.bearer].born + AccessTTL /\ now \in Nat /\ now' \in {now, now + 1}
    BY <1>2, <1>6 DEF Honoured, EntriesLast, TypeOK
  <2>4. QED
    BY <2>2, <2>3, SessionAssumption
<1>7. Honoured(q)'
  BY <1>2, <1>5, <1>6 DEF Honoured, LateCall
<1>8. QED
  BY <1>4, <1>7 DEF InOrder

\* A request that arrives is in order.
LEMMA SendInOrder ==
  ASSUME TypeOK, RowsKept, loggedOut \subseteq loggedOut',
         NEW r \in Request, NEW c \in Client, NEW op \in Op, NEW k \in Token \union {None},
         NEW jwt \in Token \union {None}, NEW place \in {"lookup", "authenticate", "plain"},
         NEW void \in BOOLEAN, Send(r, c, op, k, jwt, place, void),
         Issued(k), Issued(jwt),
         op = "refresh" /\ place = "lookup" => k # None,
         place = "authenticate" => jwt # None,
         op \in {"call", "logout"} /\ jwt # None => void = (jwt \in loggedOut) /\ place = "authenticate"
  PROVE  InOrder(req[r])'
<1>1. req'[r] = [op |-> op, from |-> c, user |-> None, cookie |-> k,
                 bearer |-> jwt, at |-> place, void |-> void]
  BY DEF Send, TypeOK
<1>2. Issued(k)' /\ Issued(jwt)'
  BY DEF Issued, RowsKept
<1>3. HasRead(req[r])'
  BY <1>1, <1>2 DEF HasRead, Refreshing
<1>4. Honoured(req[r])'
  BY <1>1 DEF Honoured, LateCall
<1>5. QED
  BY <1>3, <1>4 DEF InOrder

\* So is one that is answered without a pair.
LEMMA RespondInOrder ==
  ASSUME TypeOK, LogoutInv, NEW r \in Request, req[r].at # "idle",
         NEW answer \in Answer, Respond(r, answer, None)
  PROVE  InOrder(req[r])'
<1>1. req[r] \in Handling /\ req[r].from \in Client
  BY DEF TypeOK, LogoutInv, Placed, HasRead
<1>2. /\ req'[r].from = req[r].from /\ req'[r].at = answer
      /\ req'[r].cookie = None /\ req'[r].bearer = None
  BY <1>1 DEF Respond, TypeOK, Handling
<1>3. answer \notin {"idle", "lookup", "authenticate", "blacklist", "revokeCookie"} \union Refreshing
  BY DEF Answer, Refreshing
<1>4. HasRead(req[r])'
  BY <1>1, <1>2, <1>3 DEF HasRead, Issued, Refreshing
<1>5. Honoured(req[r])'
  BY <1>2, <1>3 DEF Honoured, LateCall
<1>6. QED
  BY <1>4, <1>5 DEF InOrder

\* And one that a sign-in or a refresh moves on, if it has what the place needs.
LEMMA MoveInOrder ==
  ASSUME TypeOK, LogoutInv, RowsKept, NEW r \in Request, req[r].op \in {"signIn", "refresh"},
         req[r].at # "idle", req'[r].at \in Refreshing,
         req'[r].op = req[r].op, req'[r].from = req[r].from,
         req'[r].cookie = req[r].cookie, req'[r].bearer = req[r].bearer,
         req'[r].user \in User,
         req'[r].at \in {"revoke", "load"} => req[r].op = "refresh",
         req[r].op = "refresh" => req[r].cookie # None
  PROVE  InOrder(req[r])'
<1>1. req[r] \in Handling /\ HasRead(req[r])
  BY DEF TypeOK, LogoutInv, Placed
<1>2. Issued(req[r].cookie)' /\ Issued(req[r].bearer)'
  BY <1>1 DEF HasRead, Issued, RowsKept, Handling
<1>3. HasRead(req[r])'
  BY <1>1, <1>2 DEF HasRead, Refreshing
<1>4. Honoured(req[r])'
  BY DEF Honoured, LateCall, Refreshing
<1>5. QED
  BY <1>3, <1>4 DEF InOrder

LEMMA SignInInOrder ==
  ASSUME TypeOK, LogoutInv, RowsKept, NEW r \in Request, SignInStep(r)
  PROVE  InOrder(req[r])'
<1>. "plain" \in Answer /\ "pair" \in Answer
  BY DEF Answer
<1>1. req[r] \in Handling /\ HasRead(req[r])
  BY DEF TypeOK, LogoutInv, Placed
<1>2. ASSUME req[r].op = "signIn", req[r].at = "lookup", NEW u \in User, GoFor(r, u, "issue")
      PROVE  InOrder(req[r])'
  <2>1. req'[r] = [req[r] EXCEPT !.user = u, !.at = "issue"]
    BY <1>2 DEF GoFor, TypeOK
  <2>2. /\ req'[r].user = u /\ req'[r].at = "issue" /\ req'[r].op = req[r].op
        /\ req'[r].from = req[r].from /\ req'[r].cookie = req[r].cookie
        /\ req'[r].bearer = req[r].bearer
    BY <1>1, <2>1 DEF Handling
  <2>3. QED
    BY <1>2, <2>2, MoveInOrder DEF Refreshing
<1>3. CASE Register(r) \/ Login(r) \/ UpsertGoogleUser(r)
  BY <1>2, <1>3, RespondInOrder DEF Register, Login, UpsertGoogleUser
<1>4. CASE IssueTokenPair(r)
  <2>1. PICK k \in Token : token[k] = NoRow /\ token' = Persisted(r, k) /\ Respond(r, "pair", k)
    BY <1>4 DEF IssueTokenPair
  <2>2. req[r].user \in User /\ req[r].op \in {"signIn", "refresh"} /\ req[r].from \in Client
    BY <1>1, <1>4 DEF IssueTokenPair, HasRead, Refreshing
  <2>3. token'[k] # NoRow
    BY <2>1, <2>2, PersistedKeeps
  <2>4. /\ req'[r].from = req[r].from /\ req'[r].at = "pair" /\ req'[r].op = req[r].op
        /\ req'[r].cookie = None /\ req'[r].bearer = k
    BY <1>1, <2>1 DEF Respond, TypeOK, Handling
  <2>5. HasRead(req[r])'
    BY <2>2, <2>3, <2>4 DEF HasRead, Issued, Refreshing
  <2>6. QED
    BY <2>2, <2>4, <2>5 DEF InOrder, Honoured, LateCall
<1>5. CASE IssueFails(r)
  BY <1>5, RespondInOrder DEF IssueFails
<1>6. QED
  BY <1>3, <1>4, <1>5 DEF SignInStep

LEMMA RefreshInOrder ==
  ASSUME TypeOK, LogoutInv, RowsKept, NEW r \in Request, RefreshStep(r)
  PROVE  InOrder(req[r])'
<1>. "plain" \in Answer /\ "cleared" \in Answer
  BY DEF Answer
<1>1. req[r] \in Handling /\ HasRead(req[r])
  BY DEF TypeOK, LogoutInv, Placed
<1>2. ASSUME req[r].at \in {"revoke", "load"}, NEW place \in Refreshing, Go(r, place)
      PROVE  InOrder(req[r])'
  <2>1. req[r].op = "refresh" /\ req[r].user \in User /\ req[r].cookie # None
    BY <1>1, <1>2 DEF HasRead, Refreshing
  <2>2. req'[r] = [req[r] EXCEPT !.at = place]
    BY <1>2 DEF Go, TypeOK
  <2>3. /\ req'[r].user = req[r].user /\ req'[r].at = place /\ req'[r].op = req[r].op
        /\ req'[r].from = req[r].from /\ req'[r].cookie = req[r].cookie
        /\ req'[r].bearer = req[r].bearer
    BY <1>1, <2>2 DEF Handling
  <2>4. QED
    BY <1>2, <2>1, <2>3, MoveInOrder
<1>3. CASE Lookup(r)
  <2>1. req[r].op = "refresh" /\ req[r].at = "lookup"
    BY <1>3 DEF Lookup, LookedUp
  <2>2. req[r].cookie # None /\ token[req[r].cookie].user \in User
    BY <1>1, <2>1, PlacedFields DEF HasRead, LogoutInv
  <2>3. CASE Respond(r, "cleared", None)
    BY <2>1, <2>3, RespondInOrder
  <2>4. CASE GoFor(r, token[req[r].cookie].user, "revoke")
    <3>1. req'[r] = [req[r] EXCEPT !.user = token[req[r].cookie].user, !.at = "revoke"]
      BY <2>4 DEF GoFor, TypeOK
    <3>2. /\ req'[r].user \in User /\ req'[r].at = "revoke" /\ req'[r].op = req[r].op
          /\ req'[r].from = req[r].from /\ req'[r].cookie = req[r].cookie
          /\ req'[r].bearer = req[r].bearer
      BY <1>1, <2>2, <3>1 DEF Handling
    <3>3. QED
      BY <2>1, <2>2, <3>2, MoveInOrder DEF Refreshing
  <2>5. QED
    BY <1>3, <2>3, <2>4 DEF Lookup, LookedUp
<1>4. CASE RevokeOld(r) \/ RevokeOldFails(r)
  BY <1>2, <1>4, RespondInOrder DEF RevokeOld, RevokeOldFails, Refreshing
<1>5. CASE LoadUser(r)
  BY <1>2, <1>5, RespondInOrder DEF LoadUser, Refreshing
<1>6. QED
  BY <1>3, <1>4, <1>5 DEF RefreshStep

LEMMA CallInOrder ==
  ASSUME TypeOK, LogoutInv, RowsKept, NEW r \in Request, CallStep(r)
  PROVE  InOrder(req[r])'
<1>. DEFINE k == req[r].bearer
<1>. "plain" \in Answer /\ "cleared" \in Answer
  BY DEF Answer
<1>1. req[r] \in Handling /\ HasRead(req[r]) /\ Honoured(req[r])
  BY DEF TypeOK, LogoutInv, Placed, Logouts
<1>2. req[r].at \in {"authenticate", "blacklist", "revokeCookie"} /\ req[r].from \in Client
  BY <1>1 DEF CallStep, Authenticate, BlacklistToken, BlacklistFails, RevokeCookie,
              RevokeCookieFails, HasRead
<1>3. k \in Token /\ token[k] # NoRow
  BY <1>1, <1>2 DEF HasRead, Issued, Handling
<1>4. /\ token'[k] # NoRow /\ token'[k].born = token[k].born
      /\ token[k].born \in Nat /\ token[k].born <= now /\ now \in Nat /\ blacklist[k] \in Nat
  BY <1>3 DEF RowsKept, TypeOK, LogoutInv, Logouts, Row
<1>5. req[r].cookie = None \/ token'[req[r].cookie] # NoRow
  BY <1>1 DEF HasRead, Issued, RowsKept, Handling
<1>6. ASSUME NEW place, Go(r, place)
      PROVE  /\ req'[r].at = place /\ req'[r].op = req[r].op /\ req'[r].from = req[r].from
             /\ req'[r].cookie = req[r].cookie /\ req'[r].bearer = k
             /\ req'[r].void = req[r].void
  <2>1. req'[r] = [req[r] EXCEPT !.at = place]
    BY <1>6 DEF Go, TypeOK
  <2>2. QED
    BY <1>1, <2>1 DEF Handling
<1>7. CASE Authenticate(r)
  <2>1. CASE Respond(r, "plain", None)
    BY <1>2, <2>1, RespondInOrder
  <2>2. CASE now >= blacklist[k] /\ Go(r, "blacklist")
    <3>1. HasRead(req[r])'
      BY <1>2, <1>3, <1>4, <1>5, <1>6, <2>2, SessionAssumption DEF HasRead, Issued, Refreshing
    <3>2. ASSUME LateCall(req[r]) PROVE now >= token[k].born + AccessTTL
      <4>1. k \in loggedOut
        BY <1>1, <3>2 DEF Honoured
      <4>2. blacklist[k] >= token[k].born + AccessTTL
        BY <4>1 DEF LogoutInv, Logouts, Remembered
      <4>3. QED
        BY <1>4, <2>2, <4>2, SessionAssumption
    <3>3. Honoured(req[r])'
      BY <1>1, <1>4, <1>6, <1>7, <2>2, <3>2 DEF Honoured, LateCall, Authenticate, history
    <3>4. QED
      BY <3>1, <3>3 DEF InOrder
  <2>3. CASE now >= blacklist[k] /\ Respond(r, "served", k)
    <3>1. req'[r] = [req[r] EXCEPT !.at = "served", !.user = None, !.cookie = None, !.bearer = k]
      BY <2>3 DEF Respond, TypeOK
    <3>2. /\ req'[r].at = "served" /\ req'[r].op = req[r].op /\ req'[r].from = req[r].from
          /\ req'[r].cookie = None /\ req'[r].bearer = k /\ req'[r].void = req[r].void
      BY <1>1, <3>1 DEF Handling
    <3>3. HasRead(req[r])'
      BY <1>2, <1>4, <3>2 DEF HasRead, Issued, Refreshing
    <3>4. ASSUME LateCall(req[r]) PROVE now >= token[k].born + AccessTTL
      <4>1. k \in loggedOut
        BY <1>1, <3>4 DEF Honoured
      <4>2. blacklist[k] >= token[k].born + AccessTTL
        BY <4>1 DEF LogoutInv, Logouts, Remembered
      <4>3. QED
        BY <1>4, <2>3, <4>2, SessionAssumption
    <3>5. Honoured(req[r])'
      BY <1>1, <1>4, <1>7, <3>2, <3>4 DEF Honoured, LateCall, Authenticate, history
    <3>6. QED
      BY <3>3, <3>5 DEF InOrder
  <2>4. QED
    BY <1>4, <1>7, <2>1, <2>2, <2>3 DEF Authenticate
<1>8. CASE BlacklistToken(r)
  <2>1. CASE Respond(r, "cleared", None)
    BY <1>2, <2>1, RespondInOrder
  <2>2. CASE req[r].cookie # None /\ Go(r, "revokeCookie") /\ UNCHANGED loggedOut
    <3>1. HasRead(req[r])'
      BY <1>2, <1>3, <1>4, <1>5, <1>6, <2>2, SessionAssumption DEF HasRead, Issued, Refreshing
    <3>2. blacklist'[k] = now + AccessTTL
      BY <1>3, <1>8 DEF BlacklistToken, Blacklisted, TypeOK
    <3>3. blacklist'[k] >= token'[k].born + AccessTTL
      BY <1>4, <3>2, SessionAssumption
    <3>4. Honoured(req[r])'
      BY <1>1, <1>4, <1>6, <1>8, <2>2, <3>3 DEF Honoured, LateCall, Remembered, BlacklistToken
    <3>5. QED
      BY <3>1, <3>4 DEF InOrder
  <2>3. QED
    BY <1>8, <2>1, <2>2 DEF BlacklistToken
<1>9. CASE BlacklistFails(r) \/ RevokeCookie(r) \/ RevokeCookieFails(r)
  BY <1>2, <1>9, RespondInOrder DEF BlacklistFails, RevokeCookie, RevokeCookieFails
<1>10. QED
  BY <1>7, <1>8, <1>9 DEF CallStep

LEMMA ArrivalInOrder ==
  ASSUME TypeOK, LogoutInv, RowsKept, NEW r \in Request, NEW c \in Client,
         SignIn(r, c) \/ Refresh(r, c) \/ Call(r, c, "call") \/ Call(r, c, "logout")
  PROVE  InOrder(req[r])'
<1>. {"signIn", "refresh", "call", "logout"} \subseteq Op
  BY DEF Op
<1>1. loggedOut \subseteq loggedOut'
  BY DEF SignIn, Refresh, Call, Send
<1>2. /\ cookie[c] \in Token \union {None} /\ bearer[c] \in Token \union {None}
      /\ Issued(cookie[c]) /\ Issued(bearer[c]) /\ Issued(None)
  BY DEF TypeOK, LogoutInv, Placed, Issued
<1>3. CASE SignIn(r, c)
  BY <1>1, <1>2, <1>3, SendInOrder DEF SignIn
<1>4. CASE Refresh(r, c)
  <2>. DEFINE k == cookie[c]
  <2>1. CASE k = None
    BY <1>1, <1>2, <1>4, <2>1, SendInOrder DEF Refresh
  <2>2. CASE k # None
    <3>. DEFINE void == token[k].revoked \/ account[token[k].user] = "inactive"
    <3>1. void \in BOOLEAN
      OBVIOUS
    <3>2. Send(r, c, "refresh", k, None, "lookup", void)
      BY <1>4, <2>2 DEF Refresh
    <3>. HIDE DEF void
    <3>3. QED
      BY <1>1, <1>2, <2>2, <3>1, <3>2, SendInOrder
  <2>3. QED
    BY <2>1, <2>2
<1>5. ASSUME NEW op \in {"call", "logout"}, Call(r, c, op) PROVE InOrder(req[r])'
  <2>1. PICK sent \in {cookie[c], None}, jwt \in {bearer[c], None}, place \in {"authenticate", "plain"},
             void \in BOOLEAN :
          /\ Send(r, c, op, sent, jwt, place, void)
          /\ jwt # None => void = (jwt \in loggedOut)
          /\ place = "authenticate" <=> jwt # None
    BY <1>5, CallSends
  <2>2. /\ sent \in Token \union {None} /\ Issued(sent) /\ jwt \in Token \union {None} /\ Issued(jwt)
        /\ place \in {"lookup", "authenticate", "plain"} /\ op \in Op /\ op # "refresh"
    BY <1>2
  <2>3. QED
    BY <1>1, <2>1, <2>2, SendInOrder
<1>6. QED
  BY <1>3, <1>4, <1>5

LEMMA AnswerInOrder ==
  ASSUME TypeOK, LogoutInv, NEW r \in Request, QueryFails(r) \/ Receive(r) \/ AnswerLost(r)
  PROVE  InOrder(req[r])'
<1>1. CASE QueryFails(r)
  BY <1>1, RespondInOrder DEF QueryFails, Answer
<1>2. CASE Receive(r) \/ AnswerLost(r)
  <2>1. req'[r] = NoRequest
    BY <1>2 DEF Receive, AnswerLost, TypeOK
  <2>2. QED
    BY <2>1 DEF InOrder, HasRead, Honoured, LateCall, Issued, NoRequest, Refreshing
<1>3. QED
  BY <1>1, <1>2

-----------------------------------------------------------------------------
(* The invariant.                                                           *)

\* Handlers do not touch one another's requests.
LEMMA OthersKept ==
  ASSUME TypeOK, NEW r \in Request, NEW s \in Request \ {r},
         \/ SignInStep(r) \/ RefreshStep(r) \/ CallStep(r)
         \/ QueryFails(r) \/ Receive(r) \/ AnswerLost(r)
         \/ \E c \in Client :
              SignIn(r, c) \/ Refresh(r, c) \/ Call(r, c, "call") \/ Call(r, c, "logout")
  PROVE  req'[s] = req[s]
<1>1. ASSUME NEW q, req' = [req EXCEPT ![r] = q] PROVE req'[s] = req[s]
  BY <1>1 DEF TypeOK
<1>2. ASSUME NEW place, Go(r, place) PROVE req'[s] = req[s]
  BY <1>2 DEF Go, TypeOK
<1>3. ASSUME NEW u, NEW place, GoFor(r, u, place) PROVE req'[s] = req[s]
  BY <1>3 DEF GoFor, TypeOK
<1>4. ASSUME NEW answer, NEW pair, Respond(r, answer, pair) PROVE req'[s] = req[s]
  BY <1>4 DEF Respond, TypeOK
<1>5. ASSUME NEW c, NEW op, NEW k, NEW jwt, NEW place, NEW void, Send(r, c, op, k, jwt, place, void)
      PROVE  req'[s] = req[s]
  BY <1>5 DEF Send, TypeOK
<1>6. CASE SignInStep(r)
  <2>1. CASE Register(r)
    BY <2>1, <1>3, <1>4 DEF Register
  <2>2. CASE Login(r)
    BY <2>2, <1>3, <1>4 DEF Login
  <2>3. CASE UpsertGoogleUser(r)
    BY <2>3, <1>3, <1>4 DEF UpsertGoogleUser
  <2>4. CASE IssueTokenPair(r) \/ IssueFails(r)
    BY <2>4, <1>4 DEF IssueTokenPair, IssueFails
  <2>5. QED
    BY <1>6, <2>1, <2>2, <2>3, <2>4 DEF SignInStep
<1>7. CASE RefreshStep(r)
  <2>1. CASE Lookup(r)
    BY <2>1, <1>3, <1>4 DEF Lookup, LookedUp
  <2>2. CASE RevokeOld(r) \/ RevokeOldFails(r) \/ LoadUser(r)
    BY <2>2, <1>2, <1>4 DEF RevokeOld, RevokeOldFails, LoadUser
  <2>3. QED
    BY <1>7, <2>1, <2>2 DEF RefreshStep
<1>8. CASE CallStep(r)
  <2>1. CASE Authenticate(r)
    <3>1. \/ Respond(r, "plain", None) \/ Go(r, "blacklist") \/ Respond(r, "served", req[r].bearer)
          \/ ~(now < blacklist[req[r].bearer]) /\ ~(now >= blacklist[req[r].bearer])
      BY <2>1 DEF Authenticate
    <3>2. QED
      BY <2>1, <3>1, <1>2, <1>4 DEF Authenticate
  <2>2. CASE BlacklistToken(r) \/ BlacklistFails(r)
    BY <2>2, <1>2, <1>4 DEF BlacklistToken, BlacklistFails
  <2>3. CASE RevokeCookie(r) \/ RevokeCookieFails(r)
    BY <2>3, <1>4 DEF RevokeCookie, RevokeCookieFails
  <2>4. QED
    BY <1>8, <2>1, <2>2, <2>3 DEF CallStep
<1>9. CASE QueryFails(r) \/ Receive(r) \/ AnswerLost(r)
  BY <1>1, <1>4, <1>9 DEF QueryFails, Receive, AnswerLost
<1>10. ASSUME NEW c, SignIn(r, c) \/ Refresh(r, c) \/ Call(r, c, "call") \/ Call(r, c, "logout")
       PROVE  req'[s] = req[s]
  BY <1>5, <1>10 DEF SignIn, Refresh, Call
<1>11. QED
  BY <1>6, <1>7, <1>8, <1>9, <1>10

\* A jar is only ever given the pair of an answer.
LEMMA JarsInOrder ==
  ASSUME TypeOK, Placed, RowsKept, [Next]_vars, NEW c \in Client
  PROVE  Issued(cookie[c])' /\ Issued(bearer[c])'
<1>1. ASSUME NEW k \in Token \union {None}, Issued(k) PROVE k = None \/ token'[k] # NoRow
  BY <1>1 DEF Issued, RowsKept
<1>2. /\ cookie[c] \in Token \union {None} /\ bearer[c] \in Token \union {None}
      /\ Issued(cookie[c]) /\ Issued(bearer[c])
  BY DEF TypeOK, Placed
<1>3. CASE UNCHANGED jars
  BY <1>1, <1>2, <1>3 DEF jars, Issued
<1>4. ASSUME NEW r \in Request, Receive(r) PROVE Issued(cookie[c])' /\ Issued(bearer[c])'
  <2>1. req[r].bearer \in Token \union {None} /\ Issued(req[r].bearer)
    BY DEF TypeOK, Handling, Placed, HasRead
  <2>2. /\ cookie'[c] \in {cookie[c], req[r].bearer, None}
        /\ bearer'[c] \in {bearer[c], req[r].bearer}
    BY <1>4 DEF Receive, TypeOK
  <2>3. QED
    BY <1>1, <1>2, <2>1, <2>2 DEF Issued
<1>5. ASSUME NEW r \in Request, SignInStep(r) \/ RefreshStep(r) \/ CallStep(r) PROVE UNCHANGED jars
  BY <1>5
  DEF SignInStep, Register, Login, UpsertGoogleUser, IssueTokenPair, IssueFails,
      RefreshStep, Lookup, LookedUp, RevokeOld, RevokeOldFails, LoadUser,
      CallStep, Authenticate, BlacklistToken, BlacklistFails, RevokeCookie, RevokeCookieFails
<1>6. ASSUME NEW r \in Request, NEW d \in Client,
             SignIn(r, d) \/ Refresh(r, d) \/ Call(r, d, "call") \/ Call(r, d, "logout")
      PROVE  UNCHANGED jars
  BY <1>6 DEF SignIn, Refresh, Call, Send
<1>7. ASSUME NEW r \in Request, QueryFails(r) \/ AnswerLost(r) PROVE UNCHANGED jars
  BY <1>7 DEF QueryFails, AnswerLost
<1>8. CASE Deactivate \/ Tick \/ UNCHANGED vars
  BY <1>3, <1>8 DEF Deactivate, Tick, vars
<1>9. QED
  BY <1>3, <1>4, <1>5, <1>6, <1>7, <1>8 DEF Next

\* What is logged out stays so; a logout that is answered has been remembered.
LEMMA LoggedOutGrows ==
  ASSUME TypeOK, LogoutInv, [Next]_vars
  PROVE  /\ loggedOut \subseteq loggedOut'
         /\ \A k \in loggedOut' \ loggedOut :
              k \in Token /\ token[k] # NoRow /\ blacklist'[k] >= token[k].born + AccessTTL
<1>1. CASE UNCHANGED loggedOut
  BY <1>1
<1>2. ASSUME NEW r \in Request, BlacklistToken(r) \/ RevokeCookie(r)
      PROVE  /\ loggedOut' \in {loggedOut, loggedOut \union {req[r].bearer}}
             /\ req[r].bearer \in Token /\ token[req[r].bearer] # NoRow
             /\ blacklist'[req[r].bearer] >= token[req[r].bearer].born + AccessTTL
  <2>. DEFINE k == req[r].bearer
  <2>1. req[r] \in Handling /\ HasRead(req[r]) /\ Honoured(req[r])
    BY DEF TypeOK, LogoutInv, Placed, Logouts
  <2>2. k \in Token /\ token[k] # NoRow
    BY <1>2, <2>1 DEF BlacklistToken, RevokeCookie, HasRead, Issued, Handling
  <2>3. loggedOut' \in {loggedOut, loggedOut \union {k}}
    BY <1>2 DEF BlacklistToken, RevokeCookie
  <2>4. CASE BlacklistToken(r)
    <3>1. blacklist'[k] = now + AccessTTL
      BY <2>2, <2>4 DEF BlacklistToken, Blacklisted, TypeOK
    <3>2. token[k].born \in Nat /\ token[k].born <= now /\ now \in Nat
      BY <2>2 DEF TypeOK, Row, LogoutInv, Logouts
    <3>3. QED
      BY <2>2, <2>3, <3>1, <3>2, SessionAssumption
  <2>5. CASE RevokeCookie(r)
    BY <2>1, <2>2, <2>3, <2>5 DEF RevokeCookie, Honoured, Remembered
  <2>6. QED
    BY <1>2, <2>4, <2>5
<1>3. ASSUME NEW r \in Request, SignInStep(r) \/ RefreshStep(r) PROVE UNCHANGED loggedOut
  BY <1>3
  DEF SignInStep, Register, Login, UpsertGoogleUser, IssueTokenPair, IssueFails, Fails,
      RefreshStep, Lookup, LookedUp, RevokeOld, RevokeOldFails, LoadUser, history
<1>4. ASSUME NEW r \in Request, Authenticate(r) \/ BlacklistFails(r) \/ RevokeCookieFails(r)
      PROVE  UNCHANGED loggedOut
  BY <1>4 DEF Authenticate, BlacklistFails, RevokeCookieFails, Fails, history
<1>5. ASSUME NEW r \in Request, NEW c \in Client,
             SignIn(r, c) \/ Refresh(r, c) \/ Call(r, c, "call") \/ Call(r, c, "logout")
      PROVE  UNCHANGED loggedOut
  BY <1>5 DEF SignIn, Refresh, Call, Send
<1>6. ASSUME NEW r \in Request, QueryFails(r) \/ Receive(r) \/ AnswerLost(r)
      PROVE  UNCHANGED loggedOut
  BY <1>6 DEF QueryFails, Receive, AnswerLost, Fails, history
<1>7. CASE Deactivate \/ Tick \/ UNCHANGED vars
  BY <1>1, <1>7 DEF Deactivate, Tick, vars, history
<1>8. ASSUME NEW r \in Request, CallStep(r)
      PROVE  UNCHANGED loggedOut \/ BlacklistToken(r) \/ RevokeCookie(r)
  BY <1>4, <1>8 DEF CallStep
<1>9. QED
  BY <1>1, <1>2, <1>3, <1>5, <1>6, <1>7, <1>8 DEF Next

LEMMA LogoutInit == Init => LogoutInv
BY DEF Init, LogoutInv, Placed, Logouts, Issued, HasRead, Honoured, LateCall, NoRow,
       NoRequest, Refreshing

LEMMA LogoutStep == TypeOK /\ LogoutInv /\ [Next]_vars => LogoutInv'
<1>. SUFFICES ASSUME TypeOK, LogoutInv, [Next]_vars PROVE LogoutInv'
  OBVIOUS
<1>1. RowsKept /\ EntriesLast /\ loggedOut \subseteq loggedOut' /\ TypeOK'
  BY RowsKeptStep, EntriesLastStep, LoggedOutGrows, TypeStep DEF LogoutInv
<1>2. \A c \in Client : Issued(cookie[c])' /\ Issued(bearer[c])'
  BY <1>1, JarsInOrder DEF LogoutInv
<1>3. ASSUME NEW s \in Request PROVE InOrder(req[s])'
  <2>1. CASE req'[s] = req[s]
    BY <1>1, <2>1, InOrderKept
  <2>2. CASE \/ SignInStep(s) \/ RefreshStep(s) \/ CallStep(s)
             \/ QueryFails(s) \/ Receive(s) \/ AnswerLost(s)
             \/ \E c \in Client :
                  SignIn(s, c) \/ Refresh(s, c) \/ Call(s, c, "call") \/ Call(s, c, "logout")
    BY <1>1, <2>2, SignInInOrder, RefreshInOrder, CallInOrder, ArrivalInOrder, AnswerInOrder
  <2>3. CASE Deactivate \/ Tick \/ UNCHANGED vars
    BY <2>1, <2>3 DEF Deactivate, Tick, vars
  <2>4. QED
    BY <2>1, <2>2, <2>3, OthersKept DEF Next
<1>4. ASSUME NEW k \in Token PROVE (token[k].born <= now)'
  <2>1. token'[k].born \in {token[k].born, now} /\ now' \in {now, now + 1}
    BY <1>1 DEF RowsKept, EntriesLast
  <2>2. token[k].born \in Nat /\ token[k].born <= now /\ now \in Nat
    BY DEF TypeOK, Row, NoRow, LogoutInv, Logouts
  <2>3. QED
    BY <2>1, <2>2
<1>5. ASSUME NEW k \in loggedOut' PROVE (token[k] # NoRow /\ Remembered(k))'
  <2>1. CASE k \in loggedOut
    <3>1. k \in Token /\ token[k] # NoRow /\ token[k].born <= now /\ Remembered(k)
      BY <2>1 DEF TypeOK, LogoutInv, Logouts
    <3>2. QED
      BY <1>1, <3>1, RememberedKept DEF RowsKept
  <2>2. CASE k \notin loggedOut
    <3>1. k \in Token /\ token[k] # NoRow /\ blacklist'[k] >= token[k].born + AccessTTL
      BY <2>2, LoggedOutGrows
    <3>2. token'[k] # NoRow /\ token'[k].born = token[k].born
      BY <1>1, <3>1 DEF RowsKept
    <3>3. QED
      BY <3>1, <3>2 DEF Remembered
  <2>3. QED
    BY <2>1, <2>2
<1>6. Placed'
  BY <1>2, <1>3 DEF Placed, InOrder
<1>7. Logouts'
  BY <1>3, <1>4, <1>5 DEF Logouts, InOrder
<1>8. QED
  BY <1>6, <1>7 DEF LogoutInv

-----------------------------------------------------------------------------
(* Rotation: what a step does to rows, accounts and requests.               *)

LEMMA RevokedFields ==
  ASSUME TypeOK, NEW k \in Token, token[k] # NoRow, NEW l \in Token
  PROVE  /\ Revoked(k)[l].user = token[l].user /\ Revoked(k)[l].root = token[l].root
         /\ Revoked(k)[l].revoked <=> token[l].revoked \/ l = k
         /\ Revoked(k)[l] # NoRow <=> token[l] # NoRow
<1>. DEFINE row == [token[k] EXCEPT !.revoked = TRUE]
<1>1. Revoked(k) = [token EXCEPT ![k] = row]
  BY DEF Revoked
<1>2. token[k] \in [user : User, root : Token, born : Nat, revoked : BOOLEAN]
  BY DEF TypeOK, Row
<1>3. row.user = token[k].user /\ row.root = token[k].root /\ row.revoked = TRUE /\ row.user \in User
  BY <1>2
<1>4. row # NoRow
  BY <1>3, SessionAssumption DEF NoRow
<1>. HIDE DEF row
<1>5. QED
  BY <1>1, <1>3, <1>4 DEF TypeOK

LEMMA PersistedFields ==
  ASSUME TypeOK, NEW r \in Request, NEW k \in Token
  PROVE  /\ ~Persisted(r, k)[k].revoked
         /\ req[r].op = "refresh" => Persisted(r, k)[k].root = Root(r)
         /\ req[r].op # "refresh" => Persisted(r, k)[k].root = k
         /\ \A l \in Token : l # k => Persisted(r, k)[l] = token[l]
BY DEF Persisted, TypeOK, Root

\* A row keeps its account and its sign-in, and once revoked stays so.
RowsHold ==
  \A k \in Token : token[k] # NoRow =>
    /\ token'[k].user = token[k].user /\ token'[k].root = token[k].root
    /\ token[k].revoked => token'[k].revoked

\* Who revokes a row, and who inserts one.
Revokes(r) ==
  /\ RevokeOld(r) \/ RevokeOldFails(r) \/ RevokeCookie(r) \/ RevokeCookieFails(r)
  /\ token' = Revoked(req[r].cookie)

Inserts(r, k) ==
  /\ IssueTokenPair(r) \/ IssueFails(r)
  /\ token[k] = NoRow /\ token' = Persisted(r, k)

LEMMA RowStep ==
  ASSUME TypeOK, Placed, [Next]_vars
  PROVE  \/ token' = token
         \/ \E r \in Request : Revokes(r)
         \/ \E r \in Request, k \in Token : Inserts(r, k)
<1>1. ASSUME NEW r \in Request, SignInStep(r) \/ RefreshStep(r) \/ CallStep(r)
      PROVE  token' = token \/ Revokes(r) \/ \E k \in Token : Inserts(r, k)
  <2>1. CASE Register(r) \/ Login(r) \/ UpsertGoogleUser(r)
    BY <2>1 DEF Register, Login, UpsertGoogleUser, store
  <2>2. CASE IssueTokenPair(r) \/ IssueFails(r)
    <3>1. token' = token \/ \E k \in Token : token[k] = NoRow /\ token' = Persisted(r, k)
      BY <2>2 DEF IssueTokenPair, IssueFails
    <3>2. QED
      BY <2>2, <3>1 DEF Inserts
  <2>3. CASE RefreshStep(r)
    <3>1. CASE Lookup(r) \/ LoadUser(r)
      BY <3>1 DEF Lookup, LookedUp, LoadUser, store
    <3>2. CASE RevokeOld(r) \/ RevokeOldFails(r)
      <4>1. token' = token \/ token' = Revoked(req[r].cookie)
        BY <3>2 DEF RevokeOld, RevokeOldFails
      <4>2. QED
        BY <3>2, <4>1 DEF Revokes
    <3>3. QED
      BY <2>3, <3>1, <3>2 DEF RefreshStep
  <2>4. CASE CallStep(r)
    <3>1. CASE Authenticate(r) \/ BlacklistToken(r) \/ BlacklistFails(r)
      BY <3>1 DEF Authenticate, BlacklistToken, BlacklistFails, store
    <3>2. CASE RevokeCookie(r) \/ RevokeCookieFails(r)
      <4>1. token' = token \/ token' = Revoked(req[r].cookie)
        BY <3>2 DEF RevokeCookie, RevokeCookieFails
      <4>2. QED
        BY <3>2, <4>1 DEF Revokes
    <3>3. QED
      BY <2>4, <3>1, <3>2 DEF CallStep
  <2>5. QED
    BY <1>1, <2>1, <2>2, <2>3, <2>4 DEF SignInStep
<1>2. CASE \E r \in Request, c \in Client :
             SignIn(r, c) \/ Refresh(r, c) \/ Call(r, c, "call") \/ Call(r, c, "logout")
  BY <1>2 DEF SignIn, Refresh, Call, Send
<1>3. CASE \E r \in Request : QueryFails(r) \/ Receive(r) \/ AnswerLost(r)
  BY <1>3 DEF QueryFails, Receive, AnswerLost, store
<1>4. CASE Deactivate \/ Tick \/ UNCHANGED vars
  BY <1>4 DEF Deactivate, Tick, vars, store
<1>5. QED
  BY <1>1, <1>2, <1>3, <1>4 DEF Next

LEMMA RevokesIssued ==
  ASSUME TypeOK, Placed, NEW r \in Request, Revokes(r)
  PROVE  req[r].cookie \in Token /\ token[req[r].cookie] # NoRow
<1>1. req[r].at \in {"revoke", "revokeCookie"}
  BY DEF Revokes, RevokeOld, RevokeOldFails, RevokeCookie, RevokeCookieFails
<1>2. QED
  BY <1>1, SessionAssumption DEF TypeOK, Handling, Placed, HasRead, Issued, Refreshing

LEMMA RowsHoldStep == ASSUME TypeOK, Placed, [Next]_vars PROVE RowsHold
<1>1. CASE token' = token
  BY <1>1 DEF RowsHold
<1>2. ASSUME NEW r \in Request, Revokes(r) PROVE RowsHold
  BY <1>2, RevokesIssued, RevokedFields DEF RowsHold, Revokes
<1>3. CASE \E r \in Request, k \in Token : Inserts(r, k)
  BY <1>3, PersistedFields DEF RowsHold, Inserts
<1>4. QED
  BY <1>1, <1>2, <1>3, RowStep

\* No code puts is_active back.
LEMMA InactiveStep ==
  ASSUME TypeOK, [Next]_vars, NEW u \in User, account[u] = "inactive"
  PROVE  account'[u] = "inactive"
<1>1. ASSUME NEW r \in Request, SignInStep(r) \/ RefreshStep(r) \/ CallStep(r)
      PROVE  account'[u] = "inactive"
  <2>1. CASE Register(r) \/ UpsertGoogleUser(r)
    BY <2>1 DEF Register, UpsertGoogleUser, TypeOK
  <2>2. CASE Login(r) \/ IssueTokenPair(r) \/ IssueFails(r)
    BY <2>2 DEF Login, IssueTokenPair, IssueFails, store
  <2>3. CASE RefreshStep(r)
    BY <2>3 DEF RefreshStep, Lookup, LookedUp, LoadUser, RevokeOld, RevokeOldFails, store
  <2>4. CASE CallStep(r)
    BY <2>4
    DEF CallStep, Authenticate, BlacklistToken, BlacklistFails, RevokeCookie, RevokeCookieFails, store
  <2>5. QED
    BY <1>1, <2>1, <2>2, <2>3, <2>4 DEF SignInStep
<1>2. CASE \E r \in Request, c \in Client :
             SignIn(r, c) \/ Refresh(r, c) \/ Call(r, c, "call") \/ Call(r, c, "logout")
  BY <1>2 DEF SignIn, Refresh, Call
<1>3. CASE \E r \in Request : QueryFails(r)
  BY <1>3 DEF QueryFails, TypeOK
<1>4. CASE \E r \in Request : Receive(r) \/ AnswerLost(r)
  BY <1>4 DEF Receive, AnswerLost, store
<1>5. CASE Deactivate \/ Tick \/ UNCHANGED vars
  BY <1>5 DEF Deactivate, Tick, vars, store, TypeOK
<1>6. QED
  BY <1>1, <1>2, <1>3, <1>4, <1>5 DEF Next

\* The ways in which a request changes.
LEMMA RespondFields ==
  ASSUME TypeOK, NEW r \in Request, NEW answer, NEW pair, Respond(r, answer, pair)
  PROVE  /\ req'[r].at = answer /\ req'[r].cookie = None /\ req'[r].bearer = pair
         /\ req'[r].op = req[r].op /\ req'[r].from = req[r].from /\ req'[r].void = req[r].void
         /\ \A s \in Request \ {r} : req'[s] = req[s]
<1>1. req'[r] = [req[r] EXCEPT !.at = answer, !.user = None, !.cookie = None, !.bearer = pair]
  BY DEF Respond, TypeOK
<1>2. QED
  BY <1>1 DEF TypeOK, Handling, Respond

LEMMA GoFields ==
  ASSUME TypeOK, NEW r \in Request, NEW place, Go(r, place)
  PROVE  /\ req'[r].at = place /\ req'[r].cookie = req[r].cookie /\ req'[r].user = req[r].user
         /\ req'[r].op = req[r].op /\ req'[r].from = req[r].from /\ req'[r].void = req[r].void
         /\ \A s \in Request \ {r} : req'[s] = req[s]
BY DEF Go, TypeOK, Handling

LEMMA GoForFields ==
  ASSUME TypeOK, NEW r \in Request, NEW u, NEW place, GoFor(r, u, place)
  PROVE  /\ req'[r].at = place /\ req'[r].cookie = req[r].cookie /\ req'[r].user = u
         /\ req'[r].op = req[r].op /\ req'[r].from = req[r].from /\ req'[r].void = req[r].void
         /\ \A s \in Request \ {r} : req'[s] = req[s]
<1>1. req' = [req EXCEPT ![r] = [req[r] EXCEPT !.user = u, !.at = place]]
  BY DEF GoFor
<1>2. QED
  BY <1>1 DEF TypeOK, Handling

\* What arrives: a request of client c where there was none.
Arrives(r, c) ==
  /\ req[r] = NoRequest /\ req'[r].from = c /\ req'[r].cookie \in {cookie[c], None}
  /\ req'[r].at \in {"lookup", "authenticate", "plain"}
  /\ \A s \in Request \ {r} : req'[s] = req[s]
  /\ upset' = IF UnderWay(c) = {} THEN upset ELSE upset \union {c}

LEMMA SendFields ==
  ASSUME TypeOK, NEW r \in Request, NEW c \in Client, NEW op \in Op,
         NEW k \in {cookie[c], None}, NEW jwt \in Token \union {None},
         NEW place \in {"lookup", "authenticate", "plain"}, NEW void \in BOOLEAN,
         Send(r, c, op, k, jwt, place, void)
  PROVE  /\ Arrives(r, c)
         /\ req'[r].op = op /\ req'[r].cookie = k /\ req'[r].at = place /\ req'[r].void = void
<1>. DEFINE q == [op |-> op, from |-> c, user |-> None, cookie |-> k, bearer |-> jwt,
                  at |-> place, void |-> void]
<1>1. /\ q.op = op /\ q.from = c /\ q.cookie = k /\ q.at = place /\ q.void = void
  OBVIOUS
<1>2. /\ req' = [req EXCEPT ![r] = q] /\ req[r] = NoRequest
      /\ upset' = IF UnderWay(c) = {} THEN upset ELSE upset \union {c}
  BY DEF Send
<1>. HIDE DEF q
<1>3. req'[r] = q /\ \A s \in Request \ {r} : req'[s] = req[s]
  BY <1>2 DEF TypeOK
<1>4. QED
  BY <1>1, <1>2, <1>3 DEF Arrives

LEMMA SignInFields ==
  ASSUME TypeOK, NEW r \in Request, NEW c \in Client, SignIn(r, c)
  PROVE  Arrives(r, c) /\ req'[r].op = "signIn"
<1>1. Send(r, c, "signIn", None, None, "lookup", FALSE) /\ "signIn" \in Op
  BY DEF SignIn, Op
<1>2. QED
  BY <1>1, SendFields

LEMMA RefreshFields ==
  ASSUME TypeOK, NEW r \in Request, NEW c \in Client, Refresh(r, c)
  PROVE  /\ Arrives(r, c) /\ req'[r].op = "refresh"
         /\ cookie[c] = None => req'[r].at = "plain"
         /\ cookie[c] # None =>
              /\ req'[r].cookie = cookie[c]
              /\ req'[r].void <=> \/ token[cookie[c]].revoked
                                  \/ account[token[cookie[c]].user] = "inactive"
<1>0. "refresh" \in Op
  BY DEF Op
<1>1. CASE cookie[c] = None
  <2>1. Send(r, c, "refresh", None, None, "plain", FALSE)
    BY <1>1 DEF Refresh
  <2>2. FALSE \in BOOLEAN /\ None \in {cookie[c], None} /\ None \in Token \union {None}
    OBVIOUS
  <2>3. Arrives(r, c) /\ req'[r].op = "refresh" /\ req'[r].at = "plain"
    BY <1>0, <2>1, <2>2, SendFields
  <2>4. QED
    BY <1>1, <2>3
<1>2. CASE cookie[c] # None
  <2>. DEFINE k == cookie[c]
              late == token[k].revoked \/ account[token[k].user] = "inactive"
  <2>1. PICK void \in BOOLEAN :
          Send(r, c, "refresh", k, None, "lookup", void) /\ (void <=> late)
    <3>1. late \in BOOLEAN /\ Send(r, c, "refresh", k, None, "lookup", late)
      BY <1>2 DEF Refresh
    <3>. HIDE DEF late
    <3>2. QED
      BY <3>1
  <2>2. /\ Arrives(r, c) /\ req'[r].op = "refresh" /\ req'[r].cookie = k
        /\ req'[r].void = void
    <3>1. k \in {cookie[c], None} /\ None \in Token \union {None}
      OBVIOUS
    <3>. HIDE DEF late, k
    <3>2. Send(r, c, "refresh", k, None, "lookup", void)
      BY <2>1
    <3>3. QED
      BY <1>0, <3>1, <3>2, SendFields
  <2>. HIDE DEF late
  <2>3. (req'[r].void <=> late)
    BY <2>1, <2>2
  <2>4. QED
    BY <1>2, <2>2, <2>3 DEF late
<1>3. QED
  BY <1>1, <1>2

LEMMA CallFields ==
  ASSUME TypeOK, NEW r \in Request, NEW c \in Client, NEW op \in {"call", "logout"}, Call(r, c, op)
  PROVE  Arrives(r, c) /\ req'[r].op = op
<1>1. PICK sent \in {cookie[c], None}, jwt \in {bearer[c], None}, place \in {"authenticate", "plain"},
           void \in BOOLEAN : Send(r, c, op, sent, jwt, place, void)
  BY CallSends
<1>2. op \in Op /\ jwt \in Token \union {None}
  BY DEF Op, TypeOK
<1>3. QED
  BY <1>1, <1>2, SendFields

\* Nothing but the request and `upset` changes when one arrives.
LEMMA ArrivalFields ==
  ASSUME TypeOK, NEW r \in Request, NEW c \in Client,
         SignIn(r, c) \/ Refresh(r, c) \/ Call(r, c, "call") \/ Call(r, c, "logout")
  PROVE  Arrives(r, c) /\ UNCHANGED <<token, account, raced>> /\ cookie' = cookie
<1>1. UNCHANGED <<token, account, raced>> /\ cookie' = cookie
  BY DEF SignIn, Refresh, Call, Send, jars
<1>2. QED
  BY <1>1, SignInFields, RefreshFields, CallFields

-----------------------------------------------------------------------------
(* A refresh that came too late.                                            *)

LEMMA BarredKept ==
  ASSUME TypeOK, Placed, RefusalInv, [Next]_vars, NEW s \in Request, req'[s] = req[s]
  PROVE  Barred(req[s])'
<1>. DEFINE q == req[s]
<1>. SUFFICES ASSUME q.op = "refresh", q.void
              PROVE  /\ q.at \notin {"issue", "pair"}
                     /\ q.at = "lookup" =>
                          token'[q.cookie].revoked \/ account'[token'[q.cookie].user] = "inactive"
                     /\ q.at \in {"revoke", "load"} => account'[q.user] = "inactive"
  BY DEF Barred
<1>1. Barred(q)
  BY DEF RefusalInv
<1>2. CASE q.at = "lookup"
  <2>1. q.cookie \in Token /\ token[q.cookie].user \in User /\ token[q.cookie] # NoRow
    BY <1>2, PlacedFields DEF Placed, HasRead, Issued, TypeOK, Row, Handling
  <2>2. token'[q.cookie].user = token[q.cookie].user
        /\ (token[q.cookie].revoked => token'[q.cookie].revoked)
    BY <2>1, RowsHoldStep DEF RowsHold
  <2>3. QED
    BY <1>1, <1>2, <2>1, <2>2, InactiveStep DEF Barred
<1>3. CASE q.at \in {"revoke", "load"}
  <2>1. q.user \in User
    BY <1>3, PlacedFields DEF Refreshing
  <2>2. QED
    BY <1>1, <1>3, <2>1, InactiveStep DEF Barred
<1>4. CASE q.at \notin {"lookup", "revoke", "load"}
  BY <1>1, <1>4 DEF Barred
<1>5. QED
  BY <1>2, <1>3, <1>4

LEMMA BarredStep ==
  ASSUME TypeOK, Placed, RefusalInv, NEW r \in Request,
         \/ SignInStep(r) \/ RefreshStep(r) \/ CallStep(r)
         \/ QueryFails(r) \/ Receive(r) \/ AnswerLost(r)
         \/ \E c \in Client :
              SignIn(r, c) \/ Refresh(r, c) \/ Call(r, c, "call") \/ Call(r, c, "logout")
  PROVE  Barred(req[r])'
<1>0. Barred(req[r])
  BY DEF RefusalInv
<1>1. CASE Register(r) \/ Login(r) \/ UpsertGoogleUser(r)
  <2>1. req'[r].op = "signIn"
    BY <1>1, RespondFields, GoForFields DEF Register, Login, UpsertGoogleUser
  <2>2. QED
    BY <2>1 DEF Barred
<1>2. CASE IssueTokenPair(r) \/ IssueFails(r)
  <2>1. req'[r].op = req[r].op /\ req'[r].void = req[r].void /\ req[r].at = "issue"
    BY <1>2, RespondFields DEF IssueTokenPair, IssueFails
  <2>2. QED
    BY <1>0, <2>1 DEF Barred
<1>3. CASE Lookup(r)
  <2>. DEFINE k == req[r].cookie
  <2>1. CASE ~token[k].revoked /\ GoFor(r, token[k].user, "revoke")
    BY <1>0, <1>3, <2>1, GoForFields DEF Barred, Lookup, LookedUp, store
  <2>2. CASE Respond(r, "cleared", None)
    BY <2>2, RespondFields DEF Barred
  <2>3. QED
    BY <1>3, <2>1, <2>2 DEF Lookup, LookedUp
<1>4. CASE RevokeOld(r)
  BY <1>0, <1>4, GoFields DEF Barred, RevokeOld
<1>5. CASE LoadUser(r)
  <2>1. CASE account[req[r].user] = "active" /\ Go(r, "issue")
    BY <1>0, <1>5, <2>1, GoFields DEF Barred, LoadUser
  <2>2. CASE Respond(r, "cleared", None)
    BY <2>2, RespondFields DEF Barred
  <2>3. QED
    BY <1>5, <2>1, <2>2 DEF LoadUser
<1>6. CASE RevokeOldFails(r) \/ QueryFails(r)
  BY <1>6, RespondFields DEF Barred, RevokeOldFails, QueryFails
<1>7. CASE CallStep(r)
  <2>1. req'[r].at \in {"plain", "served", "cleared", "blacklist", "revokeCookie"}
    BY <1>7, RespondFields, GoFields
    DEF CallStep, Authenticate, BlacklistToken, BlacklistFails, RevokeCookie, RevokeCookieFails
  <2>2. QED
    BY <2>1 DEF Barred
<1>8. CASE Receive(r) \/ AnswerLost(r)
  <2>1. req'[r] = NoRequest
    BY <1>8 DEF Receive, AnswerLost, TypeOK
  <2>2. QED
    BY <2>1 DEF Barred, NoRequest
<1>9. ASSUME NEW c \in Client, Refresh(r, c) PROVE Barred(req[r])'
  <2>1. UNCHANGED <<token, account>> /\ req'[r].at \in {"lookup", "authenticate", "plain"}
    BY <1>9, ArrivalFields DEF Arrives
  <2>2. QED
    BY <1>9, <2>1, RefreshFields DEF Barred
<1>10. ASSUME NEW c \in Client, SignIn(r, c) \/ Call(r, c, "call") \/ Call(r, c, "logout")
       PROVE  Barred(req[r])'
  <2>1. req'[r].op # "refresh"
    BY <1>10, SignInFields, CallFields
  <2>2. QED
    BY <2>1 DEF Barred
<1>11. QED
  BY <1>1, <1>2, <1>3, <1>4, <1>5, <1>6, <1>7, <1>8, <1>9, <1>10 DEF SignInStep, RefreshStep

LEMMA RefusalStep == TypeOK /\ Placed /\ RefusalInv /\ [Next]_vars => RefusalInv'
<1>. SUFFICES ASSUME TypeOK, Placed, RefusalInv, [Next]_vars, NEW s \in Request
              PROVE  Barred(req[s])'
  BY DEF RefusalInv
<1>1. CASE req'[s] = req[s]
  BY <1>1, BarredKept
<1>2. CASE \/ SignInStep(s) \/ RefreshStep(s) \/ CallStep(s)
           \/ QueryFails(s) \/ Receive(s) \/ AnswerLost(s)
           \/ \E c \in Client :
                SignIn(s, c) \/ Refresh(s, c) \/ Call(s, c, "call") \/ Call(s, c, "logout")
  BY <1>2, BarredStep
<1>3. CASE Deactivate \/ Tick \/ UNCHANGED vars
  BY <1>1, <1>3 DEF Deactivate, Tick, vars
<1>4. QED
  BY <1>1, <1>2, <1>3, OthersKept DEF Next
-----------------------------------------------------------------------------
(* One token per sign-in.                                                   *)

LEMMA RotatingRow ==
  ASSUME TypeOK, Placed, NEW r \in Rotating
  PROVE  /\ r \in Request /\ req[r].cookie \in Token /\ token[req[r].cookie] # NoRow
         /\ Root(r) \in Token
BY SessionAssumption
DEF TypeOK, Row, Handling, Placed, HasRead, Issued, Rotating, Refreshing, Root

\* Without an INSERT no row comes to be, and none is live again.
LEMMA NoneRevived ==
  ASSUME TypeOK, Placed, token' = token \/ \E r \in Request : Revokes(r), NEW k \in Token
  PROVE  /\ token'[k] # NoRow <=> token[k] # NoRow
         /\ token[k] # NoRow => token'[k].root = token[k].root
         /\ Live(k)' => Live(k)
<1>1. CASE token' = token
  BY <1>1 DEF Live
<1>2. ASSUME NEW r \in Request, Revokes(r)
      PROVE  /\ token'[k] # NoRow <=> token[k] # NoRow
             /\ token[k] # NoRow => token'[k].root = token[k].root
             /\ Live(k)' => Live(k)
  BY <1>2, RevokesIssued, RevokedFields DEF Live, Revokes
<1>3. QED
  BY <1>1, <1>2

\* A refresh past its lookup was there before, and has not revoked its token unless the
\* token is dead.
Carried(s) ==
  s \in Rotating' =>
    /\ s \in Rotating /\ req'[s].cookie = req[s].cookie
    /\ req[s].at = "revoke" => req'[s].at = "revoke" \/ ~Live(req[s].cookie)'

LEMMA RotationKept ==
  ASSUME TypeOK, Placed, RotationInv, token' = token \/ \E r \in Request : Revokes(r),
         raced \subseteq raced', \A s \in Request : Carried(s)
  PROVE  RotationInv'
<1>1. RootsIssued'
  BY NoneRevived DEF RotationInv, RootsIssued, TypeOK, Row
<1>2. OneTokenPerSignIn'
  <2>. SUFFICES ASSUME NEW k \in Token, NEW l \in Token, Live(k)', Live(l)',
                       token'[k].root = token'[l].root, token'[k].root \notin raced'
                PROVE  k = l
    BY DEF OneTokenPerSignIn
  <2>1. /\ Live(k) /\ Live(l)
        /\ token[k].root = token[l].root /\ token[k].root \notin raced
    BY NoneRevived DEF Live
  <2>2. QED
    BY <2>1 DEF RotationInv, OneTokenPerSignIn
<1>3. ASSUME NEW r \in Rotating'
      PROVE  /\ r \in Rotating /\ Root(r)' = Root(r)
             /\ Carried(r)
  <2>1. r \in Request /\ Carried(r)
    BY DEF Rotating
  <2>2. r \in Rotating /\ req'[r].cookie = req[r].cookie
    BY <2>1 DEF Carried
  <2>3. QED
    BY <2>1, <2>2, RotatingRow, NoneRevived DEF Root
<1>4. ASSUME NEW r \in Rotating', NEW k \in Token,
             Live(k)', token'[k].root = Root(r)', Root(r)' \notin raced'
      PROVE  req'[r].at = "revoke" /\ req'[r].cookie = k
  <2>1. Live(k) /\ token'[k].root = token[k].root
    BY <1>4, NoneRevived DEF Live
  <2>2. req[r].at = "revoke" /\ req[r].cookie = k
    BY <1>3, <1>4, <2>1 DEF RotationInv, OneHolder
  <2>3. QED
    BY <1>3, <1>4, <2>2 DEF Carried
<1>5. ASSUME NEW r \in Rotating', NEW s \in Rotating', Root(r)' = Root(s)', Root(r)' \notin raced'
      PROVE  r = s
  BY <1>3, <1>5 DEF RotationInv, OneHolder
<1>6. OneHolder'
  BY <1>4, <1>5 DEF OneHolder
<1>7. QED
  BY <1>1, <1>2, <1>6 DEF RotationInv

\* The pair that a sign-in or a refresh ends in takes its place.
LEMMA InsertKept ==
  ASSUME TypeOK, Placed, RotationInv, NEW r \in Request, NEW k \in Token, Inserts(r, k),
         UNCHANGED raced, req'[r].at \notin Refreshing,
         \A s \in Request \ {r} : req'[s] = req[s]
  PROVE  RotationInv'
<1>. DEFINE root == token'[k].root
<1>1. /\ \A l \in Token : l # k => token'[l] = token[l]
      /\ req[r].op = "refresh" => root = Root(r)
      /\ req[r].op # "refresh" => root = k
  BY PersistedFields DEF Inserts
<1>2. token[k] = NoRow /\ req[r].at = "issue" /\ req[r].user \in User
  BY PlacedFields DEF Inserts, IssueTokenPair, IssueFails, Refreshing
<1>3. token'[k] # NoRow
  BY <1>2, PersistedKeeps DEF Inserts
<1>4. req[r].op = "refresh" => r \in Rotating
  BY <1>2 DEF Rotating, Refreshing
<1>5. ASSUME NEW s \in Rotating'
      PROVE  s \in Rotating /\ s # r /\ req'[s] = req[s] /\ Root(s)' = Root(s)
  <2>1. s \in Rotating /\ s # r /\ req'[s] = req[s]
    BY DEF Rotating
  <2>2. req[s].cookie \in Token /\ req[s].cookie # k
    BY <1>2, <2>1, RotatingRow
  <2>3. QED
    BY <1>1, <2>1, <2>2 DEF Root
<1>6. ASSUME NEW l \in Token, token[l] # NoRow
      PROVE  token[l].root \in Token /\ token[l].root # k /\ token[token[l].root] # NoRow
  BY <1>2, <1>6 DEF RotationInv, RootsIssued, TypeOK, Row
\* Nothing else is left of the sign-in.
<1>7. ASSUME NEW l \in Token, l # k, Live(l)', token'[l].root = root, root \notin raced PROVE FALSE
  <2>1. Live(l) /\ token[l].root = root
    BY <1>1, <1>7 DEF Live
  <2>2. req[r].op = "refresh"
    BY <1>1, <1>6, <2>1 DEF Live
  <2>3. QED
    BY <1>1, <1>2, <1>4, <1>7, <2>1, <2>2 DEF RotationInv, OneHolder
<1>8. ASSUME NEW s \in Rotating', Root(s)' = root, root \notin raced PROVE FALSE
  <2>1. s \in Rotating /\ s # r /\ Root(s) = root
    BY <1>5, <1>8
  <2>2. req[r].op = "refresh"
    BY <1>1, <1>6, <2>1, RotatingRow DEF Root
  <2>3. QED
    BY <1>1, <1>4, <1>8, <2>1, <2>2 DEF RotationInv, OneHolder
<1>9. RootsIssued'
  <2>. SUFFICES ASSUME NEW l \in Token, token'[l] # NoRow PROVE token'[token'[l].root] # NoRow
    BY DEF RootsIssued
  <2>1. CASE l # k
    BY <1>1, <1>6, <2>1
  <2>2. CASE l = k
    <3>1. CASE req[r].op = "refresh"
      BY <1>1, <1>4, <1>6, <2>2, <3>1, RotatingRow DEF Root
    <3>2. CASE req[r].op # "refresh"
      BY <1>1, <1>3, <2>2, <3>2
    <3>3. QED
      BY <3>1, <3>2
  <2>3. QED
    BY <2>1, <2>2
<1>10. OneTokenPerSignIn'
  <2>. SUFFICES ASSUME NEW l \in Token, NEW m \in Token, Live(l)', Live(m)',
                       token'[l].root = token'[m].root, token'[l].root \notin raced
                PROVE  l = m
    BY DEF OneTokenPerSignIn
  <2>1. CASE l # k /\ m # k
    BY <1>1, <2>1 DEF Live, RotationInv, OneTokenPerSignIn
  <2>2. CASE l = k \/ m = k
    BY <1>7, <2>2
  <2>3. QED
    BY <2>1, <2>2
<1>11. OneHolder'
  <2>1. ASSUME NEW s \in Rotating', NEW l \in Token,
               Live(l)', token'[l].root = Root(s)', Root(s)' \notin raced
        PROVE  req'[s].at = "revoke" /\ req'[s].cookie = l
    <3>1. l # k
      BY <1>8, <2>1
    <3>2. Live(l) /\ token[l].root = Root(s) /\ Root(s) \notin raced
      BY <1>1, <1>5, <2>1, <3>1 DEF Live
    <3>3. QED
      BY <1>5, <3>2 DEF RotationInv, OneHolder
  <2>2. ASSUME NEW s \in Rotating', NEW t \in Rotating', Root(s)' = Root(t)', Root(s)' \notin raced
        PROVE  s = t
    BY <1>5, <2>2 DEF RotationInv, OneHolder
  <2>3. QED
    BY <2>1, <2>2 DEF OneHolder
<1>12. QED
  BY <1>9, <1>10, <1>11 DEF RotationInv

\* A lookup that finds a live token takes it on, or notes that it raced another.
LEMMA LookupKept ==
  ASSUME TypeOK, Placed, RotationInv, NEW r \in Request, Lookup(r),
         GoFor(r, token[req[r].cookie].user, "revoke"), ~token[req[r].cookie].revoked,
         raced' = IF \E s \in Request : req[s].at = "revoke" /\ req[s].cookie = req[r].cookie
                  THEN raced \union {token[req[r].cookie].root} ELSE raced
  PROVE  RotationInv'
<1>. DEFINE k == req[r].cookie
<1>1. k \in Token /\ Live(k) /\ token' = token /\ raced \subseteq raced'
  <2>1. k \in Token /\ token[k] # NoRow
    BY SessionAssumption
    DEF Lookup, LookedUp, TypeOK, Handling, Placed, HasRead, Issued
  <2>2. token' = token
    BY DEF Lookup, LookedUp, store
  <2>3. QED
    BY <2>1, <2>2 DEF Live
<1>2. /\ req'[r].at = "revoke" /\ req'[r].cookie = k /\ Root(r)' = token[k].root
      /\ \A s \in Request \ {r} : req'[s] = req[s]
  BY <1>1, GoForFields DEF Root
<1>3. ASSUME NEW s \in Rotating', s # r
      PROVE  s \in Rotating /\ req'[s] = req[s] /\ Root(s)' = Root(s)
  BY <1>1, <1>2, <1>3 DEF Rotating, Root
<1>4. ASSUME NEW s \in Rotating', s # r, Root(s)' = token[k].root, token[k].root \notin raced'
      PROVE  FALSE
  <2>1. req[s].at = "revoke" /\ req[s].cookie = k /\ s \in Request
    BY <1>1, <1>3, <1>4 DEF RotationInv, OneHolder, Rotating
  <2>2. QED
    BY <1>4, <2>1
<1>5. RootsIssued' /\ OneTokenPerSignIn'
  BY <1>1 DEF RotationInv, RootsIssued, OneTokenPerSignIn, Live
<1>6. ASSUME NEW s \in Rotating', NEW l \in Token,
             Live(l)', token'[l].root = Root(s)', Root(s)' \notin raced'
      PROVE  req'[s].at = "revoke" /\ req'[s].cookie = l
  <2>1. Live(l) /\ token[l].root = Root(s)' /\ Root(s)' \notin raced
    BY <1>1, <1>6 DEF Live
  <2>2. CASE s = r
    BY <1>1, <1>2, <2>1, <2>2 DEF RotationInv, OneTokenPerSignIn
  <2>3. CASE s # r
    BY <1>3, <2>1, <2>3 DEF RotationInv, OneHolder
  <2>4. QED
    BY <2>2, <2>3
<1>7. ASSUME NEW s \in Rotating', NEW t \in Rotating', Root(s)' = Root(t)', Root(s)' \notin raced'
      PROVE  s = t
  <2>1. CASE s = r \/ t = r
    BY <1>2, <1>4, <1>7, <2>1
  <2>2. CASE s # r /\ t # r
    BY <1>1, <1>3, <1>7, <2>2 DEF RotationInv, OneHolder
  <2>3. QED
    BY <2>1, <2>2
<1>8. QED
  BY <1>5, <1>6, <1>7 DEF RotationInv, OneHolder

LEMMA RacedStep ==
  ASSUME [Next]_vars
  PROVE  UNCHANGED raced \/ \E r \in Request : Lookup(r)
<1>1. ASSUME NEW r \in Request, SignInStep(r) PROVE UNCHANGED raced
  BY <1>1
  DEF SignInStep, Register, Login, UpsertGoogleUser, IssueTokenPair, IssueFails, Fails, history
<1>2. ASSUME NEW r \in Request, RefreshStep(r) PROVE UNCHANGED raced \/ Lookup(r)
  BY <1>2 DEF RefreshStep, RevokeOld, RevokeOldFails, LoadUser, Fails, history
<1>3. ASSUME NEW r \in Request, CallStep(r) PROVE UNCHANGED raced
  BY <1>3
  DEF CallStep, Authenticate, BlacklistToken, BlacklistFails, RevokeCookie, RevokeCookieFails, Fails,
      history
<1>4. CASE \E r \in Request, c \in Client :
             SignIn(r, c) \/ Refresh(r, c) \/ Call(r, c, "call") \/ Call(r, c, "logout")
  BY <1>4 DEF SignIn, Refresh, Call, Send
<1>5. CASE \E r \in Request : QueryFails(r) \/ Receive(r) \/ AnswerLost(r)
  BY <1>5 DEF QueryFails, Receive, AnswerLost, Fails, history
<1>6. CASE Deactivate \/ Tick \/ UNCHANGED vars
  BY <1>6 DEF Deactivate, Tick, vars, history
<1>7. QED
  BY <1>1, <1>2, <1>3, <1>4, <1>5, <1>6 DEF Next

\* The request that a step is about.
LEMMA CarriedBy ==
  ASSUME TypeOK, Placed, NEW r \in Request,
         \/ SignInStep(r) \/ RefreshStep(r) \/ CallStep(r)
         \/ QueryFails(r) \/ Receive(r) \/ AnswerLost(r)
         \/ \E c \in Client :
              SignIn(r, c) \/ Refresh(r, c) \/ Call(r, c, "call") \/ Call(r, c, "logout")
  PROVE  Lookup(r) \/ Carried(r)
<1>. USE DEF Carried, Rotating
<1>1. CASE Register(r) \/ Login(r) \/ UpsertGoogleUser(r)
  <2>1. req'[r].op = "signIn"
    BY <1>1, RespondFields, GoForFields DEF Register, Login, UpsertGoogleUser
  <2>2. QED
    BY <2>1
<1>2. CASE IssueTokenPair(r) \/ IssueFails(r) \/ RevokeOldFails(r) \/ QueryFails(r)
  <2>1. req'[r].at \in {"pair", "plain"}
    BY <1>2, RespondFields DEF IssueTokenPair, IssueFails, RevokeOldFails, QueryFails
  <2>2. QED
    BY <2>1 DEF Refreshing
<1>3. CASE RevokeOld(r)
  <2>1. req'[r].op = req[r].op /\ req'[r].cookie = req[r].cookie /\ req[r].at = "revoke"
    BY <1>3, GoFields DEF RevokeOld
  <2>2. Revokes(r)
    BY <1>3 DEF RevokeOld, Revokes
  <2>3. ~Live(req[r].cookie)'
    BY <2>1, <2>2, RevokesIssued, RevokedFields DEF Revokes, Live
  <2>4. QED
    BY <2>1, <2>3 DEF Refreshing
<1>4. CASE LoadUser(r)
  <2>1. CASE Go(r, "issue")
    BY <1>4, <2>1, GoFields DEF LoadUser, Refreshing
  <2>2. CASE Respond(r, "cleared", None)
    BY <2>2, RespondFields DEF Refreshing
  <2>3. QED
    BY <1>4, <2>1, <2>2 DEF LoadUser
<1>5. CASE CallStep(r)
  <2>1. req'[r].at \in {"plain", "served", "cleared", "blacklist", "revokeCookie"}
    BY <1>5, RespondFields, GoFields
    DEF CallStep, Authenticate, BlacklistToken, BlacklistFails, RevokeCookie, RevokeCookieFails
  <2>2. QED
    BY <2>1 DEF Refreshing
<1>6. CASE Receive(r) \/ AnswerLost(r)
  <2>1. req'[r] = NoRequest
    BY <1>6 DEF Receive, AnswerLost, TypeOK
  <2>2. QED
    BY <2>1 DEF NoRequest
<1>7. ASSUME NEW c \in Client,
             SignIn(r, c) \/ Refresh(r, c) \/ Call(r, c, "call") \/ Call(r, c, "logout")
      PROVE  Carried(r)
  <2>1. req'[r].at \in {"lookup", "authenticate", "plain"}
    BY <1>7, ArrivalFields DEF Arrives
  <2>2. QED
    BY <2>1 DEF Refreshing
<1>8. QED
  BY <1>1, <1>2, <1>3, <1>4, <1>5, <1>6, <1>7 DEF SignInStep, RefreshStep

LEMMA CarriedStep ==
  ASSUME TypeOK, Placed, [Next]_vars, NEW s \in Request
  PROVE  Lookup(s) \/ Carried(s)
<1>1. CASE req'[s] = req[s]
  BY <1>1 DEF Carried, Rotating
<1>2. CASE \/ SignInStep(s) \/ RefreshStep(s) \/ CallStep(s)
           \/ QueryFails(s) \/ Receive(s) \/ AnswerLost(s)
           \/ \E c \in Client :
                SignIn(s, c) \/ Refresh(s, c) \/ Call(s, c, "call") \/ Call(s, c, "logout")
  BY <1>2, CarriedBy
<1>3. CASE Deactivate \/ Tick \/ UNCHANGED vars
  BY <1>1, <1>3 DEF Deactivate, Tick, vars
<1>4. QED
  BY <1>1, <1>2, <1>3, OthersKept DEF Next

LEMMA RotationStep == TypeOK /\ Placed /\ RotationInv /\ [Next]_vars => RotationInv'
<1>. SUFFICES ASSUME TypeOK, Placed, RotationInv, [Next]_vars PROVE RotationInv'
  OBVIOUS
<1>1. ASSUME NEW r \in Request, NEW k \in Token, Inserts(r, k) PROVE RotationInv'
  <2>1. UNCHANGED raced
    BY <1>1 DEF Inserts, IssueTokenPair, IssueFails, Fails, history
  <2>2. req'[r].at \notin Refreshing /\ \A s \in Request \ {r} : req'[s] = req[s]
    BY <1>1, RespondFields DEF Inserts, IssueTokenPair, IssueFails, Refreshing
  <2>3. QED
    BY <1>1, <2>1, <2>2, InsertKept
<1>2. ASSUME NEW r \in Request, Lookup(r) PROVE RotationInv'
  <2>1. CASE /\ GoFor(r, token[req[r].cookie].user, "revoke") /\ ~token[req[r].cookie].revoked
             /\ raced' = IF \E s \in Request : req[s].at = "revoke" /\ req[s].cookie = req[r].cookie
                         THEN raced \union {token[req[r].cookie].root} ELSE raced
    BY <1>2, <2>1, LookupKept
  <2>2. CASE Respond(r, "cleared", None) /\ UNCHANGED raced
    <3>1. token' = token
      BY <1>2 DEF Lookup, LookedUp, store
    <3>2. ASSUME NEW s \in Request PROVE Carried(s)
      <4>1. CASE s = r
        BY <2>2, <4>1, RespondFields DEF Carried, Rotating, Refreshing
      <4>2. CASE s # r
        BY <2>2, <4>2, RespondFields DEF Carried, Rotating
      <4>3. QED
        BY <4>1, <4>2
    <3>3. QED
      BY <2>2, <3>1, <3>2, RotationKept
  <2>3. QED
    BY <1>2, <2>1, <2>2 DEF Lookup, LookedUp
<1>3. CASE \A r \in Request : ~Lookup(r) /\ \A k \in Token : ~Inserts(r, k)
  BY <1>3, RowStep, RacedStep, CarriedStep, RotationKept
<1>4. QED
  BY <1>1, <1>2, <1>3

-----------------------------------------------------------------------------
(* A client left alone keeps its session.                                   *)

\* What a handler does to its own request and to the client's jar.
LEMMA HandledFields ==
  ASSUME TypeOK, NEW r \in Request, SignInStep(r) \/ RefreshStep(r) \/ CallStep(r) \/ QueryFails(r)
  PROVE  /\ req[r].at \in Place
         /\ req'[r].from = req[r].from /\ req'[r].cookie \in {req[r].cookie, None}
         /\ req'[r].at = "pair" => IssueTokenPair(r)
         /\ cookie' = cookie
<1>1. ASSUME NEW answer \in {"plain", "cleared", "served"}, NEW jwt, Respond(r, answer, jwt)
      PROVE  /\ req'[r].from = req[r].from /\ req'[r].cookie \in {req[r].cookie, None}
             /\ req'[r].at # "pair"
  BY <1>1, RespondFields
<1>2. ASSUME NEW place \in Place, Go(r, place)
      PROVE  /\ req'[r].from = req[r].from /\ req'[r].cookie \in {req[r].cookie, None}
             /\ req'[r].at # "pair"
  BY <1>2, GoFields DEF Place, Refreshing
<1>3. ASSUME NEW u, NEW place \in Place, GoFor(r, u, place)
      PROVE  /\ req'[r].from = req[r].from /\ req'[r].cookie \in {req[r].cookie, None}
             /\ req'[r].at # "pair"
  BY <1>3, GoForFields DEF Place, Refreshing
<1>4. {"lookup", "authenticate", "blacklist", "revokeCookie", "revoke", "load", "issue"} \subseteq Place
  BY DEF Place, Refreshing
<1>5. CASE Register(r)
  BY <1>1, <1>3, <1>4, <1>5 DEF Register, jars
<1>6. CASE Login(r)
  BY <1>1, <1>3, <1>4, <1>6 DEF Login, jars
<1>7. CASE UpsertGoogleUser(r)
  BY <1>1, <1>3, <1>4, <1>7 DEF UpsertGoogleUser, jars
<1>8. CASE IssueTokenPair(r)
  BY <1>4, <1>8, RespondFields DEF IssueTokenPair, jars
<1>9. CASE IssueFails(r) \/ RevokeOldFails(r) \/ QueryFails(r)
  BY <1>1, <1>4, <1>9 DEF IssueFails, RevokeOldFails, QueryFails, jars
<1>10. CASE Lookup(r)
  BY <1>1, <1>3, <1>4, <1>10 DEF Lookup, LookedUp, jars
<1>11. CASE RevokeOld(r) \/ LoadUser(r)
  BY <1>1, <1>2, <1>4, <1>11 DEF RevokeOld, LoadUser, jars
<1>12. CASE Authenticate(r)
  <2>1. /\ \/ Respond(r, "plain", None) \/ Go(r, "blacklist") \/ Respond(r, "served", req[r].bearer)
           \/ ~(now < blacklist[req[r].bearer]) /\ ~(now >= blacklist[req[r].bearer])
        /\ req[r].at = "authenticate" /\ cookie' = cookie
    BY <1>12 DEF Authenticate, jars
  <2>2. \/ Respond(r, "plain", None) \/ Go(r, "blacklist") \/ Respond(r, "served", req[r].bearer)
    BY <1>12, <2>1 DEF Authenticate
  <2>3. QED
    BY <1>1, <1>2, <1>4, <2>1, <2>2
<1>13. CASE BlacklistToken(r)
  BY <1>1, <1>2, <1>4, <1>13 DEF BlacklistToken, jars
<1>14. CASE BlacklistFails(r) \/ RevokeCookie(r) \/ RevokeCookieFails(r)
  BY <1>1, <1>4, <1>14 DEF BlacklistFails, RevokeCookie, RevokeCookieFails, jars
<1>15. QED
  BY <1>5, <1>6, <1>7, <1>8, <1>9, <1>10, <1>11, <1>12, <1>13, <1>14
  DEF SignInStep, RefreshStep, CallStep

\* What the answer of request r does to the jar of its client.
LEMMA ReceiveFields ==
  ASSUME TypeOK, NEW r \in Request, Receive(r)
  PROVE  /\ req'[r] = NoRequest /\ \A s \in Request \ {r} : req'[s] = req[s]
         /\ \A c \in Client : c # req[r].from => cookie'[c] = cookie[c]
         /\ \A c \in Client : c = req[r].from =>
              \/ req[r].at = "pair" /\ cookie'[c] = req[r].bearer
              \/ req[r].at = "cleared" /\ cookie'[c] = None
              \/ req[r].at \in {"served", "plain"} /\ cookie'[c] = cookie[c]
         /\ token' = token
BY DEF Receive, TypeOK, Answer, store

\* No client comes to hold what it did not, but by being issued it.
HoldsOnly ==
  \A c \in Client, k \in Token : Holds(c, k)' =>
    Holds(c, k) \/ (token[k] = NoRow /\ \E r \in Request : Inserts(r, k) /\ req[r].from = c)

LEMMA HoldsOnlyStep == ASSUME TypeOK, Placed, [Next]_vars PROVE HoldsOnly
<1>. SUFFICES ASSUME NEW c \in Client, NEW k \in Token, Holds(c, k)', ~Holds(c, k)
              PROVE  token[k] = NoRow /\ \E r \in Request : Inserts(r, k) /\ req[r].from = c
  BY DEF HoldsOnly
<1>. k # None /\ c # None
  BY SessionAssumption
<1>. USE DEF Holds, UnderWay
<1>1. ASSUME NEW r \in Request, SignInStep(r) \/ RefreshStep(r) \/ CallStep(r) \/ QueryFails(r)
      PROVE  token[k] = NoRow /\ \E s \in Request : Inserts(s, k) /\ req[s].from = c
  <2>1. cookie' = cookie /\ \A s \in Request \ {r} : req'[s] = req[s]
    BY <1>1, HandledFields, OthersKept
  <2>2. req'[r].from = c /\ (req'[r].cookie = k \/ (req'[r].at = "pair" /\ req'[r].bearer = k))
    BY <2>1
  <2>3. req[r].from = c /\ req'[r].at = "pair" /\ req'[r].bearer = k /\ IssueTokenPair(r)
    BY <1>1, <2>2, HandledFields
  <2>4. PICK l \in Token : token[l] = NoRow /\ token' = Persisted(r, l) /\ Respond(r, "pair", l)
    BY <2>3 DEF IssueTokenPair
  <2>5. l = k
    BY <2>3, <2>4, RespondFields
  <2>6. QED
    BY <2>3, <2>4, <2>5 DEF Inserts
<1>2. ASSUME NEW r \in Request, NEW d \in Client,
             SignIn(r, d) \/ Refresh(r, d) \/ Call(r, d, "call") \/ Call(r, d, "logout")
      PROVE  FALSE
  <2>1. Arrives(r, d) /\ cookie' = cookie
    BY <1>2, ArrivalFields
  <2>2. req'[r].from = c /\ (req'[r].cookie = k \/ (req'[r].at = "pair" /\ req'[r].bearer = k))
    BY <2>1 DEF Arrives
  <2>3. d = c /\ cookie[c] = k
    BY <2>1, <2>2 DEF Arrives
  <2>4. QED
    BY <2>3
<1>3. ASSUME NEW r \in Request, Receive(r) PROVE FALSE
  <2>1. \A s \in Request : req'[s].from = c => req'[s] = req[s]
    BY <1>3, ReceiveFields DEF NoRequest
  <2>2. cookie'[c] = k
    BY <2>1
  <2>3. req[r].from = c /\ req[r].at = "pair" /\ req[r].bearer = k
    BY <1>3, <2>2, ReceiveFields
  <2>4. QED
    BY <2>3
<1>4. ASSUME NEW r \in Request, AnswerLost(r) PROVE FALSE
  <2>1. cookie' = cookie /\ \A s \in Request : req'[s].from = c => req'[s] = req[s]
    BY <1>4 DEF AnswerLost, TypeOK, NoRequest, jars
  <2>2. QED
    BY <2>1
<1>5. CASE Deactivate \/ Tick \/ UNCHANGED vars
  BY <1>5 DEF Deactivate, Tick, vars, jars
<1>6. QED
  BY <1>1, <1>2, <1>3, <1>4, <1>5 DEF Next

LEMMA HeldIssued ==
  ASSUME TypeOK, Placed, NEW c \in Client, NEW k \in Token, Holds(c, k) PROVE token[k] # NoRow
BY SessionAssumption DEF Holds, UnderWay, Placed, HasRead, Issued

LEMMA OwnedStep == ASSUME TypeOK, Placed, Owned, [Next]_vars PROVE Owned'
<1>. SUFFICES ASSUME NEW c \in Client, NEW d \in Client, NEW k \in Token,
                     Holds(c, k)', Holds(d, k)'
              PROVE  c = d
  BY DEF Owned
<1>1. CASE token[k] # NoRow
  BY <1>1, HoldsOnlyStep DEF HoldsOnly, Owned
<1>2. CASE token[k] = NoRow
  <2>1. PICK r \in Request : Inserts(r, k) /\ req[r].from = c
    BY <1>2, HoldsOnlyStep, HeldIssued DEF HoldsOnly
  <2>2. PICK s \in Request : Inserts(s, k) /\ req[s].from = d
    BY <1>2, HoldsOnlyStep, HeldIssued DEF HoldsOnly
  <2>3. r = s
    <3>1. SUFFICES ASSUME r # s PROVE FALSE
      OBVIOUS
    <3>2. req'[r] = req[r] /\ req[r].at = "issue"
      BY <2>1, <2>2, <3>1, OthersKept DEF Inserts, SignInStep, IssueTokenPair, IssueFails
    <3>3. req'[r].at \in {"pair", "plain"}
      BY <2>1, RespondFields DEF Inserts, IssueTokenPair, IssueFails
    <3>4. QED
      BY <3>2, <3>3
  <2>4. QED
    BY <2>1, <2>2, <2>3
<1>3. QED
  BY <1>1, <1>2

LEMMA UpsetStep == ASSUME [Next]_vars PROVE upset \subseteq upset'
<1>1. ASSUME NEW r \in Request, SignInStep(r) \/ RefreshStep(r) PROVE upset \subseteq upset'
  BY <1>1
  DEF SignInStep, Register, Login, UpsertGoogleUser, IssueTokenPair, IssueFails, Fails, history,
      RefreshStep, Lookup, LookedUp, RevokeOld, RevokeOldFails, LoadUser
<1>2. ASSUME NEW r \in Request, CallStep(r) PROVE upset \subseteq upset'
  BY <1>2
  DEF CallStep, Authenticate, BlacklistToken, BlacklistFails, RevokeCookie, RevokeCookieFails, Fails,
      history
<1>3. CASE \E r \in Request, c \in Client :
             SignIn(r, c) \/ Refresh(r, c) \/ Call(r, c, "call") \/ Call(r, c, "logout")
  BY <1>3 DEF SignIn, Refresh, Call, Send
<1>4. CASE \E r \in Request : QueryFails(r) \/ Receive(r) \/ AnswerLost(r)
  BY <1>4 DEF QueryFails, Receive, AnswerLost, Fails, history
<1>5. CASE Deactivate \/ Tick \/ UNCHANGED vars
  BY <1>5 DEF Deactivate, Tick, vars, history
<1>6. QED
  BY <1>1, <1>2, <1>3, <1>4, <1>5 DEF Next

\* Only a request that c sent itself can revoke what c holds, and only one that is done with
\* it, unless it fails.
LEMMA RevokesOwn ==
  ASSUME TypeOK, Placed, Owned, [Next]_vars, NEW c \in Client, NEW k \in Token, Holds(c, k),
         ~token[k].revoked, token'[k].revoked
  PROVE  \E r \in UnderWay(c) : req[r].cookie = k /\ Revokes(r)
<1>1. token[k] # NoRow
  BY HeldIssued
<1>2. PICK r \in Request : Revokes(r)
  BY <1>1, RowStep, PersistedFields DEF Inserts
<1>3. req[r].cookie = k
  BY <1>1, <1>2, RevokesIssued, RevokedFields DEF Revokes
<1>4. req[r].from \in Client
  <2>1. req[r].at # "idle"
    BY <1>2 DEF Revokes, RevokeOld, RevokeOldFails, RevokeCookie, RevokeCookieFails
  <2>2. QED
    BY <2>1 DEF Placed, HasRead
<1>5. Holds(req[r].from, k)
  BY <1>3 DEF Holds, UnderWay
<1>6. req[r].from = c
  BY <1>4, <1>5 DEF Owned
<1>7. QED
  BY <1>2, <1>3, <1>6 DEF UnderWay

LEMMA RevokesMoves ==
  ASSUME TypeOK, NEW r \in Request, Revokes(r) PROVE req'[r] # req[r]
<1>1. req[r].at \in {"revoke", "revokeCookie"}
  BY DEF Revokes, RevokeOld, RevokeOldFails, RevokeCookie, RevokeCookieFails
<1>2. req'[r].at \in {"load", "plain", "cleared"}
  BY GoFields, RespondFields DEF Revokes, RevokeOld, RevokeOldFails, RevokeCookie, RevokeCookieFails
<1>3. QED
  BY <1>1, <1>2

\* A client that a step leaves alone.
LEMMA UndisturbedKept ==
  ASSUME TypeOK, Placed, Owned, [Next]_vars, NEW c \in Client, Undisturbed(c),
         cookie'[c] = cookie[c], UnderWay(c)' = UnderWay(c),
         \A r \in UnderWay(c) : req'[r] = req[r]
  PROVE  Undisturbed(c)'
<1>1. ASSUME NEW k \in Token, Holds(c, k), ~token[k].revoked PROVE ~token'[k].revoked
  BY <1>1, RevokesOwn, RevokesMoves DEF UnderWay
<1>2. ASSUME NEW r \in UnderWay(c)', NEW s \in UnderWay(c)' PROVE r = s
  BY DEF Undisturbed
<1>3. ASSUME NEW r \in UnderWay(c)', req'[r].at = "pair"
      PROVE  req'[r].bearer # None /\ ~token'[req'[r].bearer].revoked
  <2>1. /\ r \in UnderWay(c) /\ r \in Request /\ req'[r] = req[r]
        /\ req[r].bearer # None /\ ~token[req[r].bearer].revoked
    BY <1>3 DEF Undisturbed, UnderWay
  <2>2. req[r].bearer \in Token
    BY <2>1 DEF TypeOK, Handling
  <2>3. Holds(c, req[r].bearer)
    BY <1>3, <2>1 DEF Holds
  <2>4. QED
    BY <1>1, <2>1, <2>2, <2>3
<1>4. ASSUME cookie'[c] # None, token'[cookie'[c]].revoked
      PROVE  \E r \in UnderWay(c)' : Replaces(req'[r], cookie'[c])
  <2>1. cookie[c] \in Token /\ Holds(c, cookie[c])
    BY <1>4 DEF TypeOK, Holds
  <2>2. token[cookie[c]].revoked
    BY <1>1, <1>4, <2>1
  <2>3. PICK r \in UnderWay(c) : Replaces(req[r], cookie[c])
    BY <1>4, <2>2 DEF Undisturbed
  <2>4. QED
    BY <2>3
<1>5. QED
  BY <1>2, <1>3, <1>4 DEF Undisturbed, Replaces

\* What a handler's own request comes to, once the cookie of its client is revoked.
LEMMA ReplacesKept ==
  ASSUME TypeOK, NEW r \in Request, NEW k \in Token,
         SignInStep(r) \/ RefreshStep(r) \/ CallStep(r) \/ QueryFails(r),
         req[r].from \notin upset',
         req[r].op = "refresh" /\ req[r].at \in {"load", "issue"} /\ req[r].cookie = k
  PROVE  Replaces(req'[r], k)
<1>1. CASE LoadUser(r)
  <2>1. CASE Go(r, "issue")
    BY <2>1, GoFields DEF Replaces
  <2>2. CASE Respond(r, "cleared", None)
    BY <2>2, RespondFields DEF Replaces
  <2>3. QED
    BY <1>1, <2>1, <2>2 DEF LoadUser
<1>2. CASE IssueTokenPair(r)
  BY <1>2, RespondFields DEF IssueTokenPair, Replaces
<1>3. CASE IssueFails(r) \/ QueryFails(r)
  BY <1>3 DEF IssueFails, QueryFails, Fails
<1>4. ASSUME SignInStep(r) PROVE IssueTokenPair(r) \/ IssueFails(r)
  BY <1>4 DEF SignInStep, Register, Login, UpsertGoogleUser
<1>5. ASSUME RefreshStep(r) PROVE LoadUser(r)
  BY <1>5 DEF RefreshStep, Lookup, LookedUp, RevokeOld, RevokeOldFails
<1>6. ~CallStep(r)
  BY DEF CallStep, Authenticate, BlacklistToken, BlacklistFails, RevokeCookie, RevokeCookieFails
<1>7. QED
  BY <1>1, <1>2, <1>3, <1>4, <1>5, <1>6

LEMMA RevokesReplaces ==
  ASSUME TypeOK, Placed, NEW r \in Request, Revokes(r), req[r].from \notin upset'
  PROVE  Replaces(req'[r], req[r].cookie)
<1>1. CASE RevokeOld(r)
  <2>1. req[r].op = "refresh"
    BY <1>1 DEF RevokeOld, Placed, HasRead
  <2>2. QED
    BY <1>1, <2>1, GoFields DEF RevokeOld, Replaces
<1>2. CASE RevokeCookie(r)
  BY <1>2, RespondFields DEF RevokeCookie, Replaces
<1>3. CASE RevokeOldFails(r) \/ RevokeCookieFails(r)
  BY <1>3 DEF RevokeOldFails, RevokeCookieFails, Fails
<1>4. QED
  BY <1>1, <1>2, <1>3 DEF Revokes

LEMMA UndisturbedHandled ==
  ASSUME TypeOK, Placed, Owned, [Next]_vars, NEW r \in Request, NEW c \in Client, req[r].from = c,
         SignInStep(r) \/ RefreshStep(r) \/ CallStep(r) \/ QueryFails(r),
         c \notin upset', Undisturbed(c)
  PROVE  Undisturbed(c)'
<1>1. UnderWay(c)' = UnderWay(c) /\ cookie' = cookie
  <2>1. req'[r].from = req[r].from /\ cookie' = cookie
    BY HandledFields
  <2>2. \A s \in Request \ {r} : req'[s] = req[s]
    BY OthersKept
  <2>3. QED
    BY <2>1, <2>2 DEF UnderWay
<1>2. r \in UnderWay(c) /\ \A s \in UnderWay(c) : s = r
  BY DEF UnderWay, Undisturbed
<1>3. ASSUME req'[r].at = "pair" PROVE req'[r].bearer # None /\ ~token'[req'[r].bearer].revoked
  <2>1. IssueTokenPair(r)
    BY <1>3, HandledFields
  <2>2. PICK k \in Token : token' = Persisted(r, k) /\ Respond(r, "pair", k)
    BY <2>1 DEF IssueTokenPair
  <2>3. req'[r].bearer = k /\ ~token'[k].revoked
    BY <2>2, RespondFields, PersistedFields
  <2>4. QED
    BY <2>3, SessionAssumption
<1>4. ASSUME cookie[c] # None, token'[cookie[c]].revoked PROVE Replaces(req'[r], cookie[c])
  <2>1. cookie[c] \in Token /\ Holds(c, cookie[c])
    BY <1>4 DEF TypeOK, Holds
  <2>2. CASE token[cookie[c]].revoked
    <3>1. Replaces(req[r], cookie[c]) /\ req[r].at \in Place
      BY <1>2, <1>4, <2>2, HandledFields DEF Undisturbed
    <3>2. req[r].op = "refresh" /\ req[r].at \in {"load", "issue"} /\ req[r].cookie = cookie[c]
      BY <3>1 DEF Replaces, Place, Refreshing
    <3>3. QED
      BY <2>1, <3>2, ReplacesKept
  <2>3. CASE ~token[cookie[c]].revoked
    <3>1. req[r].cookie = cookie[c] /\ Revokes(r)
      BY <1>2, <1>4, <2>1, <2>3, RevokesOwn
    <3>2. QED
      BY <3>1, RevokesReplaces
  <2>4. QED
    BY <2>2, <2>3
<1>5. QED
  BY <1>1, <1>2, <1>3, <1>4 DEF Undisturbed, Replaces

LEMMA UndisturbedArrival ==
  ASSUME TypeOK, NEW r \in Request, NEW c \in Client, Arrives(r, c), token' = token, cookie' = cookie,
         c \notin upset', Undisturbed(c)
  PROVE  Undisturbed(c)'
<1>1. UnderWay(c) = {}
  BY DEF Arrives
<1>2. UnderWay(c)' = {r} /\ req'[r].at # "pair"
  BY <1>1 DEF Arrives, UnderWay
<1>3. cookie[c] # None => ~token[cookie[c]].revoked
  BY <1>1 DEF Undisturbed
<1>4. QED
  BY <1>2, <1>3 DEF Undisturbed

LEMMA UndisturbedReceive ==
  ASSUME TypeOK, NEW r \in Request, Receive(r), NEW c \in Client, req[r].from = c, Undisturbed(c)
  PROVE  Undisturbed(c)'
<1>1. r \in UnderWay(c) /\ \A s \in UnderWay(c) : s = r
  BY DEF UnderWay, Undisturbed
<1>2. UnderWay(c)' = {}
  BY <1>1, ReceiveFields, SessionAssumption DEF UnderWay, NoRequest
<1>3. cookie'[c] # None => ~token'[cookie'[c]].revoked
  <2>1. CASE req[r].at = "pair" /\ cookie'[c] = req[r].bearer
    BY <1>1, <2>1, ReceiveFields DEF Undisturbed
  <2>2. CASE req[r].at = "cleared" /\ cookie'[c] = None
    BY <2>2
  <2>3. CASE req[r].at \in {"served", "plain"} /\ cookie'[c] = cookie[c]
    <3>1. ~Replaces(req[r], cookie[c])
      BY <2>3 DEF Replaces
    <3>2. QED
      BY <1>1, <2>3, <3>1, ReceiveFields DEF Undisturbed
  <2>4. QED
    BY <2>1, <2>2, <2>3, ReceiveFields
<1>4. QED
  BY <1>2, <1>3 DEF Undisturbed

\* What other clients' requests leave as it is.
LEMMA UndisturbedByOthers ==
  ASSUME TypeOK, Placed, Owned, [Next]_vars, NEW r \in Request, NEW c \in Client, Undisturbed(c),
         \A s \in Request \ {r} : req'[s] = req[s],
         req[r].from # c, req'[r].from # c, cookie'[c] = cookie[c]
  PROVE  Undisturbed(c)'
<1>1. UnderWay(c)' = UnderWay(c) /\ \A s \in UnderWay(c) : s # r
  BY DEF UnderWay
<1>2. \A s \in UnderWay(c) : req'[s] = req[s]
  BY <1>1 DEF UnderWay
<1>3. QED
  BY <1>1, <1>2, UndisturbedKept

LEMMA UndisturbedStep ==
  ASSUME TypeOK, Placed, Owned, [Next]_vars, NEW c \in Client, c \notin upset', Undisturbed(c)
  PROVE  Undisturbed(c)'
<1>1. ASSUME NEW r \in Request, SignInStep(r) \/ RefreshStep(r) \/ CallStep(r) \/ QueryFails(r)
      PROVE  Undisturbed(c)'
  <2>1. /\ req'[r].from = req[r].from /\ cookie' = cookie
        /\ \A s \in Request \ {r} : req'[s] = req[s]
    BY <1>1, HandledFields, OthersKept
  <2>2. CASE req[r].from = c
    BY <1>1, <2>2, UndisturbedHandled
  <2>3. CASE req[r].from # c
    BY <2>1, <2>3, UndisturbedByOthers
  <2>4. QED
    BY <2>2, <2>3
<1>2. ASSUME NEW r \in Request, NEW d \in Client,
             SignIn(r, d) \/ Refresh(r, d) \/ Call(r, d, "call") \/ Call(r, d, "logout")
      PROVE  Undisturbed(c)'
  <2>1. Arrives(r, d) /\ token' = token /\ cookie' = cookie
    BY <1>2, ArrivalFields
  <2>2. CASE d = c
    BY <2>1, <2>2, UndisturbedArrival
  <2>3. CASE d # c
    <3>1. /\ req[r].from # c /\ req'[r].from # c
          /\ \A s \in Request \ {r} : req'[s] = req[s]
      BY <2>1, <2>3, SessionAssumption DEF Arrives, NoRequest
    <3>2. QED
      BY <2>1, <3>1, UndisturbedByOthers
  <2>4. QED
    BY <2>2, <2>3
<1>3. ASSUME NEW r \in Request, Receive(r) PROVE Undisturbed(c)'
  <2>1. CASE req[r].from = c
    BY <1>3, <2>1, UndisturbedReceive
  <2>2. CASE req[r].from # c
    <3>1. /\ req'[r].from # c /\ cookie'[c] = cookie[c]
          /\ \A s \in Request \ {r} : req'[s] = req[s]
      BY <1>3, <2>2, ReceiveFields, SessionAssumption DEF NoRequest
    <3>2. QED
      BY <2>2, <3>1, UndisturbedByOthers
  <2>3. QED
    BY <2>1, <2>2
<1>4. ASSUME NEW r \in Request, AnswerLost(r) PROVE Undisturbed(c)'
  <2>1. req[r].from # c
    BY <1>4 DEF AnswerLost, Fails
  <2>2. /\ req'[r].from # c /\ cookie' = cookie /\ \A s \in Request \ {r} : req'[s] = req[s]
    BY <1>4, SessionAssumption DEF AnswerLost, NoRequest, TypeOK, jars
  <2>3. QED
    BY <2>1, <2>2, UndisturbedByOthers
<1>5. CASE Deactivate \/ Tick \/ UNCHANGED vars
  <2>1. req' = req /\ cookie' = cookie
    BY <1>5 DEF Deactivate, Tick, vars, jars
  <2>2. QED
    BY <2>1, UndisturbedKept DEF UnderWay
<1>6. QED
  BY <1>1, <1>2, <1>3, <1>4, <1>5 DEF Next

LEMMA SurvivalStep == TypeOK /\ Placed /\ SurvivalInv /\ [Next]_vars => SurvivalInv'
BY OwnedStep, UndisturbedStep, UpsetStep DEF SurvivalInv

LEMMA RotationInit == Init => RefusalInv /\ RotationInv /\ SurvivalInv
<1>. SUFFICES ASSUME Init PROVE RefusalInv /\ RotationInv /\ SurvivalInv
  OBVIOUS
<1>. USE DEF Init, NoRow, NoRequest
<1>1. RefusalInv
  BY DEF RefusalInv, Barred
<1>2. RotationInv
  BY DEF RotationInv, RootsIssued, OneTokenPerSignIn, OneHolder, Rotating, Live
<1>3. \A c \in Client : UnderWay(c) = {} /\ cookie[c] = None
  BY SessionAssumption DEF UnderWay
<1>4. Owned
  BY <1>3, SessionAssumption DEF Owned, Holds
<1>5. \A c \in Client : Undisturbed(c)
  BY <1>3 DEF Undisturbed
<1>6. QED
  BY <1>1, <1>2, <1>4, <1>5 DEF SurvivalInv

-----------------------------------------------------------------------------
(* The theorems.                                                            *)

\* The tables, the jars and the requests under way keep their shape, for any number of
\* clients and requests: the handlers of services/auth.go never act on a field they
\* have not read, nor on a pair that was not issued.
THEOREM SessionsTyped == Spec => [](TypeOK /\ LogoutInv)
<1>1. Init => TypeOK /\ LogoutInv
  BY TypeInit, LogoutInit
<1>2. TypeOK /\ LogoutInv /\ [Next]_vars => TypeOK' /\ LogoutInv'
  BY TypeStep, LogoutStep DEF LogoutInv
<1>3. QED
  BY <1>1, <1>2, PTL DEF Spec

\* A request that comes with a JWT whose logout was answered is not let in by the
\* middleware for as long as the JWT is valid, whatever the times to live.
THEOREM LogoutHolds == Spec => []LoggedOutIsRefused
<1>1. TypeOK /\ LogoutInv => LoggedOutIsRefused
  <2>. SUFFICES ASSUME TypeOK, LogoutInv, NEW r \in Request, LateCall(req[r]),
                       now < token[req[r].bearer].born + AccessTTL
                PROVE  req[r].at = "authenticate"
    BY DEF LoggedOutIsRefused, LateCall
  <2>1. req[r].bearer \in Token /\ Honoured(req[r])
    BY DEF TypeOK, Handling, LateCall, LogoutInv, Logouts
  <2>2. token[req[r].bearer].born \in Nat /\ now \in Nat
    BY <2>1 DEF TypeOK, Row, NoRow
  <2>3. QED
    BY <2>1, <2>2, SessionAssumption DEF Honoured
<1>2. QED
  BY <1>1, SessionsTyped, PTL

\* The three invariants of rotation.
RotationSafe == RefusalInv /\ RotationInv /\ SurvivalInv

\* Late refreshes stay barred, each sign-in has one holder and each client its own tokens,
\* for any number of clients, requests and failures: what refreshes and logouts do to
\* refresh_tokens between one another's calls.
THEOREM SessionsRotate == Spec => []RotationSafe
<1>1. Init => RotationSafe
  BY RotationInit DEF RotationSafe
<1>2. TypeOK /\ LogoutInv /\ RotationSafe /\ [Next]_vars => RotationSafe'
  BY RefusalStep, RotationStep, SurvivalStep DEF RotationSafe, LogoutInv
<1>3. QED
  BY <1>1, <1>2, SessionsTyped, PTL DEF Spec

\* A refresh that arrives after its token was rotated or revoked, or its account
\* deactivated, gets no pair, however its queries interleave with other requests.
THEOREM RefusedForGood == Spec => []RotatedIsRefused
<1>1. RotationSafe => RotatedIsRefused
  BY DEF RotationSafe, RefusalInv, Barred, RotatedIsRefused
<1>2. QED
  BY <1>1, SessionsRotate, PTL

\* A sign-in has at most one token that can be refreshed, whatever fails, unless two refreshes
\* of one token overlapped: SELECT, UPDATE and INSERT of RefreshTokens taken apart.
THEOREM OneTokenAtATime == Spec => []OneTokenPerSignIn
<1>1. RotationSafe => OneTokenPerSignIn
  BY DEF RotationSafe, RotationInv
<1>2. QED
  BY <1>1, SessionsRotate, PTL

\* The cookie of a client that sends one request at a time, none of which fails, is never
\* revoked: no other client's refresh or logout revokes a token it does not hold.
THEOREM SessionsSurvive == Spec => []SessionSurvives
<1>1. RotationSafe => SessionSurvives
  BY DEF RotationSafe, SurvivalInv, Undisturbed, SessionSurvives
<1>2. QED
  BY <1>1, SessionsRotate, PTL
=============================================================================
