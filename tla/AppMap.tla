-------------------------------- MODULE AppMap --------------------------------
(***************************************************************************)
(* The app's session and its map tab: AuthNotifier of auth_provider.dart,   *)
(* AuthInterceptor of dio_client.dart, the builder of main.dart that shows  *)
(* splash, login or the tabs, MapNotifier of map_provider.dart and          *)
(* onCameraIdle of map_screen.dart.                                         *)
(*                                                                         *)
(* Every provider has a dio client of its own, but all share the stored     *)
(* token.  Only the clients of the list and of the wizard pass              *)
(* onUnauthorized; the map's stands here for the others, too.  The storage  *)
(* does what it is asked in order, but nobody waits for a deletion, which   *)
(* an app that is killed never asks for.  A region stands for the markers   *)
(* in it; nothing ever sets the filters of the map.  Texts of errors are    *)
(* left out, but not that one which is no JSON ends the handler that would  *)
(* read its message.                                                        *)
(***************************************************************************)
CONSTANTS
  Token,    \* access tokens; one that is forgotten may be issued again
  Region,   \* where the camera goes
  Call,     \* requests under way at a time
  None

ASSUME AppAssumption == None \notin Token \union Region

VARIABLES
  auth,       \* AuthState; awaits: what _checkToken or login waits for
  stored,     \* the token in the storage
  wiping,     \* its deletion is under way
  valid,      \* tokens the API accepts
  map,        \* MapState, the debounce timer, and the camera
  call,       \* requests of the map and of the list
  upset       \* the last question of the map was answered before an older one, or by an error
              \* that is no JSON (history)

vars == <<auth, stored, wiping, valid, map, call, upset>>

\* const AuthState().
AuthState == [isLoggedIn |-> FALSE, isLoading |-> FALSE, isInitializing |-> TRUE, awaits |-> "nothing"]
NewMap == [camera |-> None, idle |-> FALSE, timer |-> None,
           properties |-> None, isLoading |-> FALSE, error |-> FALSE]
Idle == [kind |-> "none", at |-> "idle", region |-> None, token |-> None, latest |-> FALSE]

\* idle: onCameraIdle awaits the visible region.  latest: no _fetch started later.
TypeOK ==
  /\ auth \in [isLoggedIn : BOOLEAN, isLoading : BOOLEAN, isInitializing : BOOLEAN,
              awaits : {"nothing", "token", "login"}]
  /\ stored \in Token \union {None} /\ wiping \in BOOLEAN /\ valid \in SUBSET Token
  /\ map \in [camera : Region \union {None}, idle : BOOLEAN, timer : Region \union {None},
              properties : Region \union {None}, isLoading : BOOLEAN, error : BOOLEAN]
  /\ call \in [Call -> [kind : {"none", "map", "list"}, at : {"idle", "header", "sent"},
                        region : Region \union {None}, token : Token \union {None}, latest : BOOLEAN]]
  /\ \A c \in Call : call[c].kind = "map" => call[c].region # None
  /\ upset \in BOOLEAN

\* main, from a start or a restart on.
Started ==
  /\ auth = [AuthState EXCEPT !.awaits = "token"]
  /\ map = NewMap /\ call = [c \in Call |-> Idle] /\ upset = FALSE

Init ==
  /\ Started
  /\ stored \in Token \union {None} /\ wiping = FALSE
  /\ valid \in SUBSET (Token \cap {stored})

\* What the builder of main.dart shows.
Splash == auth.isInitializing
Login == ~Splash /\ ~auth.isLoggedIn
Tabs == ~Splash /\ auth.isLoggedIn

Asking == {c \in Call : call[c].kind = "map"}
Busy == {c \in Call : call[c] # Idle}

-----------------------------------------------------------------------------
(* The session.                                                             *)

CheckToken ==
  /\ auth.awaits = "token" /\ ~wiping
  /\ auth' = [auth EXCEPT !.isLoggedIn = (stored # None), !.isInitializing = FALSE,
                           !.awaits = "nothing"]
  /\ UNCHANGED <<stored, wiping, valid, map, call, upset>>

SubmitLogin ==
  /\ Login /\ ~auth.isLoading
  /\ auth' = [auth EXCEPT !.isLoading = TRUE, !.awaits = "login"]
  /\ UNCHANGED <<stored, wiping, valid, map, call, upset>>

Fresh(t) == t \notin valid /\ t # stored /\ \A c \in Call : call[c].token # t

\* The token is issued and stored.
LoggedIn ==
  /\ auth.awaits = "login" /\ ~wiping
  /\ \E t \in Token :
       /\ Fresh(t) /\ valid' = valid \union {t} /\ stored' = t
  /\ auth' = [auth EXCEPT !.isLoggedIn = TRUE, !.isLoading = FALSE, !.awaits = "nothing"]
  /\ UNCHANGED <<wiping, map, call, upset>>

\* A wrong password is a 401 like any other; the other errors leave the storage alone.  One
\* that is no JSON leaves the button off.
LoginFails ==
  /\ auth.awaits = "login"
  /\ \E isLoading \in BOOLEAN : auth' = [auth EXCEPT !.isLoading = isLoading, !.awaits = "nothing"]
  /\ wiping' \in {wiping, TRUE}
  /\ UNCHANGED <<stored, valid, map, call, upset>>

\* Mutant: logout ends on the login screen.
LoggedOutToLogin ==
  auth' = [AuthState EXCEPT !.isInitializing = FALSE, !.awaits = auth.awaits] /\ wiping' = TRUE

\* logout: the state as it is before _checkToken, which does not run again.
LoggedOut == auth' = [AuthState EXCEPT !.awaits = auth.awaits] /\ wiping' = TRUE

Logout ==
  /\ Tabs
  /\ LoggedOut
  /\ UNCHANGED <<stored, valid, map, call, upset>>

Wipe ==
  /\ wiping
  /\ stored' = None /\ wiping' = FALSE
  /\ UNCHANGED <<auth, valid, map, call, upset>>

\* Its time is over, or its user is deactivated.
Expire ==
  /\ \E t \in valid : valid' = valid \ {t}
  /\ UNCHANGED <<auth, stored, wiping, map, call, upset>>

\* The app is killed and started again.
Restart ==
  /\ auth' = [AuthState EXCEPT !.awaits = "token"]
  /\ map' = NewMap /\ call' = [c \in Call |-> Idle] /\ upset' = FALSE
  /\ wiping' = FALSE
  /\ UNCHANGED <<stored, valid>>

-----------------------------------------------------------------------------
(* The map.                                                                 *)

\* The camera comes to rest.
Move ==
  /\ Tabs
  /\ \E r \in Region : map' = [map EXCEPT !.camera = r, !.idle = TRUE]
  /\ UNCHANGED <<auth, stored, wiping, valid, call, upset>>

\* Mutant: a timer that runs is left alone.
LoadAtFirst ==
  /\ map.idle
  /\ map' = [map EXCEPT !.idle = FALSE, !.timer = IF @ = None THEN map.camera ELSE @]
  /\ UNCHANGED <<auth, stored, wiping, valid, call, upset>>

\* loadForBounds, with the region that is visible by now.
LoadForBounds ==
  /\ map.idle
  /\ map' = [map EXCEPT !.idle = FALSE, !.timer = map.camera]
  /\ UNCHANGED <<auth, stored, wiping, valid, call, upset>>

\* Mutant: the callback reads its bounds from a field that the timer clears.
FetchCleared(c) ==
  /\ map.timer # None /\ call[c] = Idle
  /\ map' = [map EXCEPT !.timer = None, !.isLoading = TRUE, !.error = FALSE]
  /\ call' = [d \in Call |->
       IF d = c THEN [Idle EXCEPT !.kind = "map", !.at = "header", !.region = map'.timer, !.latest = TRUE]
                ELSE [call[d] EXCEPT !.latest = FALSE]]
  /\ upset' = FALSE
  /\ UNCHANGED <<auth, stored, wiping, valid>>

\* The timer goes off, on whatever screen.
Fetch(c) ==
  /\ map.timer # None /\ call[c] = Idle
  /\ map' = [map EXCEPT !.timer = None, !.isLoading = TRUE, !.error = FALSE]
  /\ call' = [d \in Call |->
       IF d = c THEN [Idle EXCEPT !.kind = "map", !.at = "header", !.region = map.timer, !.latest = TRUE]
                ELSE [call[d] EXCEPT !.latest = FALSE]]
  /\ upset' = FALSE
  /\ UNCHANGED <<auth, stored, wiping, valid>>

\* A request of the list or of the wizard.
Request(c) ==
  /\ Tabs /\ call[c] = Idle
  /\ call' = [call EXCEPT ![c] = [Idle EXCEPT !.kind = "list", !.at = "header"]]
  /\ UNCHANGED <<auth, stored, wiping, valid, map, upset>>

\* onRequest.
Send(c) ==
  /\ call[c].at = "header" /\ ~wiping
  /\ call' = [call EXCEPT ![c].at = "sent", ![c].token = stored]
  /\ UNCHANGED <<auth, stored, wiping, valid, map, upset>>

\* The request is over; the map shows `properties` or an error.
Settle(c, properties, error) ==
  /\ call' = [call EXCEPT ![c] = Idle]
  /\ IF c \in Asking
     THEN /\ map' = [map EXCEPT !.properties = properties, !.isLoading = FALSE, !.error = error]
          /\ upset' = (upset \/ \A d \in Asking : ~call[d].latest)
     ELSE UNCHANGED <<map, upset>>

Answered(c) ==
  /\ call[c].at = "sent" /\ call[c].token \in valid
  /\ Settle(c, call[c].region, FALSE)
  /\ UNCHANGED <<auth, stored, wiping, valid>>

\* 401: the token is deleted, and the list's client logs out.
Rejected(c) ==
  /\ call[c].at = "sent" /\ call[c].token \notin valid
  /\ Settle(c, map.properties, TRUE)
  /\ IF call[c].kind = "list" THEN LoggedOut ELSE wiping' = TRUE /\ UNCHANGED auth
  /\ UNCHANGED <<stored, valid>>

\* Any other error, a time limit included.
Fails(c) ==
  /\ call[c].at = "sent"
  /\ Settle(c, map.properties, TRUE)
  /\ UNCHANGED <<auth, stored, wiping, valid>>

\* An error page that is no JSON: nothing is set, and the spinner stays.
Unread(c) ==
  /\ call[c].at = "sent"
  /\ call' = [call EXCEPT ![c] = Idle]
  /\ upset' = (upset \/ call[c].latest)
  /\ UNCHANGED <<auth, stored, wiping, valid, map>>

-----------------------------------------------------------------------------
Next ==
  \/ CheckToken \/ SubmitLogin \/ LoggedIn \/ LoginFails \/ Logout \/ Wipe \/ Expire \/ Restart
  \/ Move \/ LoadForBounds
  \/ \E c \in Call : Fetch(c) \/ Request(c) \/ Send(c) \/ Answered(c) \/ Rejected(c) \/ Fails(c) \/ Unread(c)

Spec == Init /\ [][Next]_vars

-----------------------------------------------------------------------------
(* Properties.                                                              *)

\* A request carries the token that is stored, if there is one: a 401, which deletes
\* whatever token is stored when it arrives, never takes away that of a later login.
OneSession ==
  \A c \in Call : call[c].at = "sent" /\ stored # None => call[c].token = stored

\* When the camera is at rest and nothing is under way, the map shows the listings of the
\* region that is visible, or an error, and no spinner, unless an older answer came last or
\* an error was no JSON.
MapSettles ==
  map.camera # None /\ ~map.idle /\ map.timer = None /\ Asking = {} /\ ~upset =>
    ~map.isLoading /\ (map.error \/ map.properties = map.camera)

-----------------------------------------------------------------------------
(* The inductive invariants behind OneSession and MapSettles.               *)

\* Nobody is logged in, and nothing is under way, while a token is read or obtained.
NothingMeanwhile ==
  /\ auth.awaits = "token" => Splash
  /\ auth.awaits = "login" => Login
  /\ Login \/ auth.awaits = "token" => Busy = {} /\ map.timer = None /\ ~map.idle

SessionInv == NothingMeanwhile /\ OneSession

Latest == {c \in Call : call[c].latest}

\* Once the camera was looked at, the timer or the latest request is about its region, and
\* what came of the latest request stays on the map until something upsets it.
MapInv ==
  /\ Latest \subseteq Asking /\ \A c, d \in Latest : c = d
  /\ map.idle => map.camera # None
  /\ ~map.idle /\ map.timer # None => map.timer = map.camera
  /\ ~map.idle /\ map.timer = None /\ map.camera # None =>
       /\ \A c \in Latest : call[c].region = map.camera
       /\ Latest = {} /\ ~upset => ~map.isLoading /\ (map.error \/ map.properties = map.camera)
=============================================================================
