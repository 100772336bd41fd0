------------------------------ MODULE RateLimit ------------------------------
(***************************************************************************)
(* The rate limiter (middleware/ratelimit.go): one key of Redis, that is,   *)
(* one client of one route group.  The key is a sorted set of the times of  *)
(* the requests; its members are the times as well, so that two requests of *)
(* one nanosecond are one.  checkLimit sends its four commands in a plain   *)
(* pipeline, not in MULTI/EXEC: those of other requests come in between,    *)
(* and time passes before, between and after them: a check lasts as long as *)
(* it takes.                                                                *)
(***************************************************************************)
EXTENDS Naturals, FiniteSets

CONSTANTS
  Request,   \* requests under way at a time
  Limit,
  Window,
  MaxTime,   \* bound on the clock
  MaxErrors  \* bound on the pipelines that fail

ASSUME LimitAssumption ==
  /\ Limit \in Nat /\ Window \in Nat \ {0}
  /\ MaxTime \in Nat /\ MaxErrors \in Nat

VARIABLES
  hits,      \* the sorted set
  expiry,    \* when the key expires; 0: never
  req,       \* the requests under way
  now,
  asked,     \* the times at which requests asked (history)
  late,      \* those that reached the key only when they were out of the window (history)
  admitted,  \* when the requests that were let through asked and were answered (history)
  errors     \* how many pipelines failed (bounds the model)

vars == <<hits, expiry, req, now, asked, late, admitted, errors>>

Idle == [at |-> "idle", time |-> 0, exceeded |-> FALSE, lost |-> FALSE]

\* The next command of the pipeline; then the handler answers 429 or calls the next one.
Command == {"zadd", "zremrangebyscore", "zcard", "expire"}
\* `lost` is history: the key expired between the request's ZADD and its EXPIRE.
Check == [at : Command \union {"idle", "refused", "served"}, time : Nat,
          exceeded : BOOLEAN, lost : BOOLEAN]

TypeOK ==
  /\ hits \in SUBSET Nat /\ IsFiniteSet(hits)
  /\ expiry \in Nat
  /\ req \in [Request -> Check]
  /\ now \in Nat
  /\ asked \in SUBSET Nat /\ IsFiniteSet(asked)
  /\ late \in SUBSET Nat /\ admitted \in SUBSET [time : Nat, end : Nat]
  /\ errors \in Nat

Init ==
  /\ hits = {} /\ expiry = 0
  /\ req = [r \in Request |-> Idle]
  /\ now = 0
  /\ asked = {} /\ late = {} /\ admitted = {}
  /\ errors = 0

Go(r, place) == req' = [req EXCEPT ![r].at = place]

\* A request arrives, and checkLimit reads the clock.
Arrive(r) ==
  /\ req[r] = Idle
  /\ req' = [req EXCEPT ![r] = [Idle EXCEPT !.at = "zadd", !.time = now]]
  /\ asked' = asked \union {now}
  /\ UNCHANGED <<hits, expiry, now, late, admitted, errors>>

ZAdd(r) ==
  /\ req[r].at = "zadd"
  /\ hits' = hits \union {req[r].time}
  /\ Go(r, "zremrangebyscore")
  /\ late' = IF req[r].time + Window <= now THEN late \union {req[r].time} ELSE late
  /\ UNCHANGED <<expiry, now, asked, admitted, errors>>

\* Mutant: nothing is pruned.
NoPrune(r) ==
  /\ req[r].at = "zremrangebyscore"
  /\ Go(r, "zcard")
  /\ UNCHANGED <<hits, expiry, now, asked, late, admitted, errors>>

\* Times up to the window's start go; a key without members goes, with its expiry.
ZRemRangeByScore(r) ==
  /\ req[r].at = "zremrangebyscore"
  /\ hits' = {h \in hits : h + Window > req[r].time}
  /\ expiry' = IF hits' = {} THEN 0 ELSE expiry
  /\ Go(r, "zcard")
  /\ UNCHANGED <<now, asked, late, admitted, errors>>

\* Mutant: the request that asks is not counted.
ExceededByOthers(count) == count > Limit + 1

Exceeded(count) == count > Limit

ZCard(r) ==
  /\ req[r].at = "zcard"
  /\ req' = [req EXCEPT ![r].at = "expire", ![r].exceeded = Exceeded(Cardinality(hits))]
  /\ UNCHANGED <<hits, expiry, now, asked, late, admitted, errors>>

\* The key outlives the window by a second; the last answer ends the check.
Expire(r) ==
  /\ req[r].at = "expire"
  /\ expiry' = IF hits = {} THEN expiry ELSE now + Window + 1
  /\ Go(r, IF req[r].exceeded THEN "refused" ELSE "served")
  /\ admitted' = IF req[r].exceeded \/ req[r].lost THEN admitted
                 ELSE admitted \union {[time |-> req[r].time, end |-> now]}
  /\ UNCHANGED <<hits, now, asked, late, errors>>

\* Mutant: the request is answered 500.
FailClosed(r) ==
  /\ errors < MaxErrors /\ errors' = errors + 1
  /\ req[r].at \in Command
  /\ Go(r, "failed")
  /\ UNCHANGED <<hits, expiry, now, asked, late, admitted>>

\* An error of Redis, after some of the commands: the request is let through.
FailOpen(r) ==
  /\ errors < MaxErrors /\ errors' = errors + 1
  /\ req[r].at \in Command
  /\ Go(r, "served")
  /\ UNCHANGED <<hits, expiry, now, asked, late, admitted>>

Finish(r) ==
  /\ req[r].at \in {"refused", "served"}
  /\ req' = [req EXCEPT ![r] = Idle]
  /\ UNCHANGED <<hits, expiry, now, asked, late, admitted, errors>>

\* Time passes, also for the requests under way; the key may expire.
Tick ==
  /\ now < MaxTime
  /\ now' = now + 1
  /\ IF expiry # 0 /\ expiry <= now'
     THEN /\ hits' = {} /\ expiry' = 0
          /\ req' = [r \in Request |->
                      [req[r] EXCEPT !.lost = @ \/ req[r].at \in Command \ {"zadd"}]]
     ELSE UNCHANGED <<hits, expiry, req>>
  /\ UNCHANGED <<asked, late, admitted, errors>>

Next ==
  \/ \E r \in Request :
       \/ Arrive(r) \/ ZAdd(r) \/ ZRemRangeByScore(r) \/ ZCard(r) \/ Expire(r)
       \/ FailOpen(r) \/ Finish(r)
  \/ Tick

Spec == Init /\ [][Next]_vars

-----------------------------------------------------------------------------
(* Properties.                                                              *)

\* No window lets more than Limit requests through, wherever it begins and however the
\* checks within it overlap: each ZCARD counts the hits of all that were counted before.
\* Requests are told apart by their nanosecond, as in the key.  Those do not count that
\* Redis failed, and those whose hit went with a key that expired under their check.
Within(t) == {a.time : a \in {b \in admitted : t <= b.time /\ b.end < t + Window}}

WindowBound == \A t \in 0 .. now : Cardinality(Within(t)) <= Limit

\* The times that a request of time t counts, or may count because they came late.
Counting(t) == {s \in asked : s + Window > t \/ s \in late}

\* A request that is refused has its reason, however long its check took: more than
\* Limit requests asked in the window before it or while it was checked, refused ones
\* among them, or reached the key too late.  Hence who waits for as long as Retry-After
\* says is let in.
RefusedHasReason ==
  \A r \in Request : req[r].at = "refused" => Cardinality(Counting(req[r].time)) > Limit

-----------------------------------------------------------------------------
(* The inductive invariant behind both.                                     *)

Recent(time) == time + Window > now

\* The key holds what was let through in the window that ends now, and outlives it.
Counted ==
  /\ expiry = 0 \/ expiry > now
  /\ \A a \in admitted :
       /\ a.time <= now
       /\ Recent(a.time) => a.time \in hits /\ (expiry = 0 \/ expiry > a.time + Window)

\* Requests that were found within the limit and will be let through.
Passing == {r \in Request : req[r].at = "expire" /\ ~req[r].exceeded /\ ~req[r].lost}

\* What the window from t on has let through, or will have if they are answered now.
Through(t) ==
  Within(t) \union {req[r].time : r \in {q \in Passing : t <= req[q].time /\ now < t + Window}}

\* What a request knows at its place.
Checked(r) ==
  LET check == req[r]
      added == check.at \in Command \ {"zadd"}
  IN  /\ check.time <= now
      /\ check.at # "idle" => check.time \in asked
      /\ added /\ ~check.lost /\ Recent(check.time) => check.time \in hits
      /\ check.at = "zcard" => hits \subseteq Counting(check.time)
      /\ check.at = "refused" \/ (check.at = "expire" /\ check.exceeded) =>
           Cardinality(Counting(check.time)) > Limit

LimitInv ==
  /\ Counted
  /\ hits \subseteq asked
  /\ \A r \in Request : Checked(r)
  /\ \A t \in Nat : Cardinality(Through(t)) <= Limit
=============================================================================
