--------------------------- MODULE RateLimit_proofs ---------------------------
(***************************************************************************)
(* Proofs about RateLimit, for any limit, window, number of requests and of *)
(* failures.                                                                *)
(***************************************************************************)
EXTENDS RateLimit, FiniteSetTheorems, TLAPS

\* A set within a finite one has no more elements.
LEMMA NoMore ==
  ASSUME NEW S, IsFiniteSet(S), NEW T \in SUBSET S
  PROVE  Cardinality(T) \in Nat /\ Cardinality(S) \in Nat /\ Cardinality(T) <= Cardinality(S)
BY FS_Subset, FS_CardinalityType

LEMMA TypeInit == Init => TypeOK
BY FS_EmptySet DEF Init, TypeOK, Idle, Check

\* A command moves its request on and leaves the rest of it alone.
LEMMA GoStep ==
  ASSUME req \in [Request -> Check], NEW r \in Request,
         NEW place \in Command \union {"refused", "served"}, Go(r, place)
  PROVE  /\ req' \in [Request -> Check]
         /\ req'[r].at = place /\ req'[r].time = req[r].time
         /\ req'[r].exceeded = req[r].exceeded /\ req'[r].lost = req[r].lost
         /\ \A s \in Request \ {r} : req'[s] = req[s]
BY DEF Go, Check

\* ZCARD tells its request what it found.
LEMMA ZCardStep ==
  ASSUME TypeOK, NEW r \in Request, ZCard(r)
  PROVE  /\ req' \in [Request -> Check]
         /\ req'[r].at = "expire" /\ req'[r].time = req[r].time
         /\ req'[r].exceeded = (Cardinality(hits) > Limit) /\ req'[r].lost = req[r].lost
         /\ \A s \in Request \ {r} : req'[s] = req[s]
<1>. DEFINE more == Exceeded(Cardinality(hits))
<1>1. req' = [req EXCEPT ![r] = [req[r] EXCEPT !.at = "expire", !.exceeded = more]]
  BY DEF ZCard
<1>2. more = (Cardinality(hits) > Limit) /\ more \in BOOLEAN
  BY DEF Exceeded
<1>3. req \in [Request -> Check] /\ req[r] \in Check
  BY DEF TypeOK
<1>. HIDE DEF more
<1>4. QED
  BY <1>1, <1>2, <1>3 DEF Check, Command

\* So does the clock, but for the hits that go with the key.
LEMMA TickReq ==
  ASSUME TypeOK, Tick
  PROVE  /\ req' \in [Request -> Check]
         /\ \A r \in Request :
              /\ req'[r].at = req[r].at /\ req'[r].time = req[r].time
              /\ req'[r].exceeded = req[r].exceeded
              /\ req'[r].lost = (req[r].lost \/ (expiry # 0 /\ expiry <= now'
                                                 /\ req[r].at \in Command \ {"zadd"}))
<1>1. CASE expiry # 0 /\ expiry <= now'
  <2>1. req' = [r \in Request |-> [req[r] EXCEPT !.lost = @ \/ req[r].at \in Command \ {"zadd"}]]
    BY <1>1 DEF Tick
  <2>2. ASSUME NEW r \in Request
        PROVE  /\ req'[r] \in Check
               /\ req'[r].at = req[r].at /\ req'[r].time = req[r].time
               /\ req'[r].exceeded = req[r].exceeded
               /\ req'[r].lost = (req[r].lost \/ req[r].at \in Command \ {"zadd"})
    <3>. DEFINE gone == req[r].lost \/ req[r].at \in Command \ {"zadd"}
    <3>1. req'[r] = [req[r] EXCEPT !.lost = gone]
      BY <2>1
    <3>2. req[r] \in Check /\ gone \in BOOLEAN
      BY DEF TypeOK, Check
    <3>. HIDE DEF gone
    <3>3. /\ req'[r] \in Check
          /\ req'[r].at = req[r].at /\ req'[r].time = req[r].time
          /\ req'[r].exceeded = req[r].exceeded /\ req'[r].lost = gone
      BY <3>1, <3>2 DEF Check
    <3>4. QED
      BY <3>3 DEF gone
  <2>3. req' \in [Request -> Check]
    BY <2>1, <2>2
  <2>4. QED
    BY <1>1, <2>2, <2>3
<1>2. CASE ~(expiry # 0 /\ expiry <= now')
  <2>1. req' = req
    BY <1>2 DEF Tick
  <2>2. \A r \in Request : req[r].lost \in BOOLEAN
    BY DEF TypeOK, Check
  <2>3. QED
    BY <1>2, <2>1, <2>2 DEF TypeOK
<1>3. QED
  BY <1>1, <1>2

LEMMA TypeStep == TypeOK /\ [Next]_vars => TypeOK'
<1>. SUFFICES ASSUME TypeOK, [Next]_vars PROVE TypeOK'
  OBVIOUS
<1>. USE LimitAssumption DEF TypeOK
<1>. {"zremrangebyscore", "zcard", "expire"} \subseteq Command
  BY DEF Command
<1>1. \A r \in Request : req[r].time \in Nat
  BY DEF Check
<1>2. ASSUME NEW r \in Request, Arrive(r) PROVE TypeOK'
  <2>1. req' \in [Request -> Check]
    BY <1>2 DEF Arrive, Idle, Check, Command
  <2>2. IsFiniteSet(asked')
    BY <1>2, FS_AddElement DEF Arrive
  <2>3. QED
    BY <1>2, <2>1, <2>2 DEF Arrive
<1>3. ASSUME NEW r \in Request, ZAdd(r) PROVE TypeOK'
  <2>1. IsFiniteSet(hits')
    BY <1>3, FS_AddElement DEF ZAdd
  <2>2. req' \in [Request -> Check]
    BY <1>3, GoStep DEF ZAdd
  <2>3. hits' \in SUBSET Nat /\ late' \in SUBSET Nat
    BY <1>1, <1>3 DEF ZAdd
  <2>4. QED
    BY <1>3, <2>1, <2>2, <2>3 DEF ZAdd
<1>4. ASSUME NEW r \in Request, ZRemRangeByScore(r) PROVE TypeOK'
  <2>1. hits' \subseteq hits
    BY <1>4 DEF ZRemRangeByScore
  <2>2. IsFiniteSet(hits')
    BY <2>1, FS_Subset
  <2>3. req' \in [Request -> Check] /\ expiry' \in Nat
    BY <1>4, GoStep DEF ZRemRangeByScore
  <2>4. QED
    BY <1>4, <2>1, <2>2, <2>3 DEF ZRemRangeByScore
<1>5. ASSUME NEW r \in Request, ZCard(r) PROVE TypeOK'
  BY <1>5, ZCardStep DEF ZCard
<1>6. ASSUME NEW r \in Request, Expire(r) PROVE TypeOK'
  <2>1. req' \in [Request -> Check]
    BY <1>6, GoStep DEF Expire
  <2>2. expiry' \in Nat
    BY <1>6 DEF Expire
  <2>3. [time |-> req[r].time, end |-> now] \in [time : Nat, end : Nat]
    BY <1>1
  <2>4. admitted' \in SUBSET [time : Nat, end : Nat]
    BY <1>6, <2>3 DEF Expire
  <2>5. QED
    BY <1>6, <2>1, <2>2, <2>4 DEF Expire
<1>7. ASSUME NEW r \in Request, FailOpen(r) PROVE TypeOK'
  <2>1. req' \in [Request -> Check] /\ errors' \in Nat
    BY <1>7, GoStep DEF FailOpen
  <2>2. QED
    BY <1>7, <2>1 DEF FailOpen
<1>8. ASSUME NEW r \in Request, Finish(r) PROVE TypeOK'
  <2>1. Idle \in Check
    BY DEF Idle, Check
  <2>2. QED
    BY <1>8, <2>1 DEF Finish
<1>9. CASE Tick
  <2>1. hits' \in {hits, {}} /\ expiry' \in {expiry, 0}
    BY <1>9 DEF Tick
  <2>2. IsFiniteSet(hits')
    BY <2>1, FS_EmptySet
  <2>3. QED
    BY <1>9, <2>1, <2>2, TickReq DEF Tick
<1>10. CASE UNCHANGED vars
  BY <1>10 DEF vars
<1>11. QED
  BY <1>2, <1>3, <1>4, <1>5, <1>6, <1>7, <1>8, <1>9, <1>10 DEF Next

-----------------------------------------------------------------------------
(* The invariant, conjunct by conjunct.                                     *)

\* What a prune takes away is out of every window that is still open.
LEMMA PruneKeepsRecent ==
  ASSUME TypeOK, LimitInv, NEW r \in Request, ZRemRangeByScore(r)
  PROVE  hits' \subseteq hits /\ \A h \in hits : Recent(h) => h \in hits'
<1>1. req[r].time \in Nat /\ req[r].time <= now /\ now \in Nat /\ hits \subseteq Nat
  BY DEF TypeOK, Check, LimitInv, Checked
<1>2. hits' = {h \in hits : h + Window > req[r].time}
  BY DEF ZRemRangeByScore
<1>3. QED
  BY <1>1, <1>2, LimitAssumption DEF Recent

LEMMA CountedStep == TypeOK /\ LimitInv /\ [Next]_vars => Counted'
<1>. SUFFICES ASSUME TypeOK, LimitInv, [Next]_vars PROVE Counted'
  OBVIOUS
<1>. USE LimitAssumption
<1>1. Counted /\ now \in Nat /\ expiry \in Nat /\ \A a \in admitted : a.time \in Nat
  BY DEF LimitInv, TypeOK
<1>2. CASE UNCHANGED <<hits, expiry, now, admitted>>
  BY <1>1, <1>2 DEF Counted, Recent
<1>3. ASSUME NEW r \in Request, ZAdd(r) PROVE Counted'
  BY <1>1, <1>3 DEF ZAdd, Counted, Recent
<1>4. ASSUME NEW r \in Request, ZRemRangeByScore(r) PROVE Counted'
  <2>1. UNCHANGED <<now, admitted>> /\ (expiry' = 0 \/ expiry' = expiry)
    BY <1>4 DEF ZRemRangeByScore
  <2>2. QED
    BY <1>1, <1>4, <2>1, PruneKeepsRecent DEF Counted, Recent
<1>5. ASSUME NEW r \in Request, Expire(r) PROVE Counted'
  <2>1. req[r].time \in Nat /\ req[r].time <= now
        /\ (~req[r].lost /\ Recent(req[r].time) => req[r].time \in hits)
    BY <1>5 DEF Expire, LimitInv, Checked, Command, TypeOK, Check
  <2>2. /\ UNCHANGED <<hits, now>> /\ expiry' = IF hits = {} THEN expiry ELSE now + Window + 1
        /\ \A a \in admitted' : a \in admitted \/ (a.time = req[r].time /\ ~req[r].lost)
    BY <1>5 DEF Expire
  <2>3. \A a \in admitted' : a.time \in Nat /\ a.time <= now /\ (Recent(a.time) => a.time \in hits)
    BY <1>1, <2>1, <2>2 DEF Counted
  <2>4. CASE hits = {}
    BY <1>1, <2>2, <2>3, <2>4 DEF Counted, Recent
  <2>5. CASE hits # {}
    BY <1>1, <2>2, <2>3, <2>5 DEF Counted, Recent
  <2>6. QED
    BY <2>4, <2>5
<1>6. CASE Tick
  <2>1. now' = now + 1 /\ admitted' = admitted
    BY <1>6 DEF Tick
  <2>2. CASE expiry # 0 /\ expiry <= now'
    <3>1. hits' = {} /\ expiry' = 0
      BY <1>6, <2>2 DEF Tick
    <3>2. QED
      BY <1>1, <2>1, <2>2, <3>1 DEF Counted, Recent
  <2>3. CASE ~(expiry # 0 /\ expiry <= now')
    <3>1. hits' = hits /\ expiry' = expiry
      BY <1>6, <2>3 DEF Tick
    <3>2. QED
      BY <1>1, <2>1, <2>3, <3>1 DEF Counted, Recent
  <2>4. QED
    BY <2>2, <2>3
<1>7. QED
  BY <1>2, <1>3, <1>4, <1>5, <1>6 DEF Next, Arrive, ZCard, FailOpen, Finish, vars

LEMMA HitsAskedStep == TypeOK /\ LimitInv /\ [Next]_vars => (hits \subseteq asked)'
<1>. SUFFICES ASSUME TypeOK, LimitInv, [Next]_vars PROVE hits' \subseteq asked'
  OBVIOUS
<1>1. hits \subseteq asked
  BY DEF LimitInv
<1>2. ASSUME NEW r \in Request, ZAdd(r) PROVE hits' \subseteq asked'
  <2>1. req[r].time \in asked
    BY <1>2 DEF ZAdd, LimitInv, Checked
  <2>2. QED
    BY <1>1, <1>2, <2>1 DEF ZAdd
<1>3. CASE hits' \subseteq hits /\ asked \subseteq asked'
  BY <1>1, <1>3
<1>4. QED
  BY <1>2, <1>3
  DEF Next, Arrive, ZRemRangeByScore, ZCard, Expire, FailOpen, Finish, Tick, vars

\* What a window has let through is of the past, so there are not infinitely many.
LEMMA ThroughFinite ==
  ASSUME TypeOK, LimitInv, NEW t \in Nat PROVE IsFiniteSet(Through(t))
<1>1. now \in Nat /\ IsFiniteSet(0 .. now)
  BY FS_Interval DEF TypeOK
<1>2. \A a \in admitted : a.time \in 0 .. now
  BY DEF TypeOK, LimitInv, Counted
<1>3. \A r \in Request : req[r].time \in 0 .. now
  BY DEF TypeOK, Check, LimitInv, Checked
<1>4. Through(t) \subseteq 0 .. now
  BY <1>2, <1>3 DEF Through, Within, Passing
<1>5. QED
  BY <1>1, <1>4, FS_Subset

\* A window that lets nobody new through stays within the limit.
LEMMA NobodyNew ==
  ASSUME TypeOK, LimitInv, NEW t \in Nat, NEW T \in SUBSET Through(t)
  PROVE  Cardinality(T) <= Limit
<1>1. IsFiniteSet(Through(t)) /\ Cardinality(Through(t)) <= Limit
  BY ThroughFinite DEF LimitInv
<1>2. QED
  BY <1>1, NoMore, LimitAssumption

\* Who passes now, passed before, unless ZCARD has just said so.
LEMMA WhoPasses ==
  ASSUME TypeOK, LimitInv, [Next]_vars, NEW q \in Request, q \in Passing'
  PROVE  (q \in Passing \/ ZCard(q)) /\ req'[q].time = req[q].time
<1>1. ASSUME NEW r \in Request,
             \/ Arrive(r) \/ ZAdd(r) \/ ZRemRangeByScore(r) \/ ZCard(r) \/ Expire(r)
             \/ FailOpen(r) \/ Finish(r)
      PROVE  (q \in Passing \/ ZCard(q)) /\ req'[q].time = req[q].time
  <2>1. CASE q # r
    <3>1. req'[q] = req[q]
      BY <1>1, <2>1 DEF Arrive, ZAdd, ZRemRangeByScore, ZCard, Expire, FailOpen, Finish, Go, TypeOK
    <3>2. QED
      BY <3>1 DEF Passing
  <2>2. CASE q = r
    <3>1. req'[q].at = "expire"
      BY DEF Passing
    <3>2. CASE ZCard(r)
      BY <2>2, <3>2, ZCardStep
    <3>3. CASE Arrive(r)
      BY <2>2, <3>1, <3>3 DEF Arrive, Idle, TypeOK
    <3>4. CASE Finish(r)
      BY <2>2, <3>1, <3>4 DEF Finish, Idle, TypeOK
    <3>5. CASE ZAdd(r) \/ ZRemRangeByScore(r) \/ Expire(r) \/ FailOpen(r)
      <4>1. PICK place \in {"zremrangebyscore", "zcard", "refused", "served"} : Go(r, place)
        BY <3>5 DEF ZAdd, ZRemRangeByScore, Expire, FailOpen
      <4>2. req'[r].at = place
        BY <4>1, GoStep DEF TypeOK, Command
      <4>3. QED
        BY <2>2, <3>1, <4>1, <4>2
    <3>6. QED
      BY <1>1, <3>2, <3>3, <3>4, <3>5
  <2>3. QED
    BY <2>1, <2>2
<1>2. CASE Tick
  BY <1>2, TickReq DEF Passing
<1>3. CASE UNCHANGED vars
  BY <1>3 DEF vars, Passing
<1>4. QED
  BY <1>1, <1>2, <1>3 DEF Next

\* While the window is open, the key holds every hit of those it has let through.
LEMMA WindowInKey ==
  ASSUME TypeOK, LimitInv, NEW t \in Nat, now < t + Window PROVE Through(t) \subseteq hits
<1>1. now \in Nat /\ Window \in Nat
  BY LimitAssumption DEF TypeOK
<1>2. ASSUME NEW a \in admitted, t <= a.time PROVE a.time \in hits
  BY <1>1, <1>2 DEF TypeOK, LimitInv, Counted, Recent
<1>3. ASSUME NEW q \in Passing, t <= req[q].time PROVE req[q].time \in hits
  BY <1>1, <1>3 DEF TypeOK, Check, LimitInv, Checked, Passing, Command, Recent
<1>4. QED
  BY <1>2, <1>3 DEF Through, Within

LEMMA ThroughStep == TypeOK /\ LimitInv /\ [Next]_vars => \A t \in Nat : Cardinality(Through(t)') <= Limit
<1>. SUFFICES ASSUME TypeOK, LimitInv, [Next]_vars, NEW t \in Nat
              PROVE  Cardinality(Through(t)') <= Limit
  OBVIOUS
<1>. USE LimitAssumption
<1>0. now \in Nat /\ now' \in Nat /\ now <= now'
  <2>1. now' = now \/ now' = now + 1
    BY DEF Next, Arrive, ZAdd, ZRemRangeByScore, ZCard, Expire, FailOpen, Finish, Tick, vars
  <2>2. QED
    BY <2>1 DEF TypeOK
<1>1. ASSUME NEW r \in Request, ZCard(r), r \in Passing', t <= req[r].time, now < t + Window
      PROVE  Cardinality(Through(t)') <= Limit
  <2>1. /\ req[r].at = "zcard" /\ ~req[r].lost /\ ~Exceeded(Cardinality(hits))
        /\ UNCHANGED <<hits, now, admitted>>
    BY <1>1 DEF ZCard, Passing, TypeOK, Check
  <2>2. req[r].time \in hits
    <3>1. Recent(req[r].time)
      BY <1>0, <1>1 DEF Recent, TypeOK, Check
    <3>2. QED
      BY <2>1, <3>1 DEF LimitInv, Checked, Command
  <2>3. Through(t)' \subseteq Through(t) \union {req[r].time}
    <3>1. ASSUME NEW q \in Request, q \in Passing'
          PROVE  req'[q].time = req[q].time /\ (q \in Passing \/ q = r)
      <4>1. ASSUME ZCard(q), q # r PROVE FALSE
        <5>1. req'[q].at = "expire" /\ req'[q] = req[q]
          BY <1>1, <4>1, ZCardStep
        <5>2. QED
          BY <4>1, <5>1 DEF ZCard
      <4>2. QED
        BY <3>1, <4>1, WhoPasses
    <3>2. Within(t)' = Within(t)
      BY <2>1 DEF Within
    <3>3. Passing' \subseteq Request
      BY DEF Passing
    <3>4. QED
      BY <2>1, <3>1, <3>2, <3>3 DEF Through
  <2>4. Through(t)' \in SUBSET hits
    BY <1>1, <2>2, <2>3, WindowInKey
  <2>5. Cardinality(hits) <= Limit
    <3>1. Cardinality(hits) \in Nat
      BY FS_CardinalityType DEF TypeOK
    <3>2. QED
      BY <2>1, <3>1 DEF Exceeded
  <2>6. QED
    BY <2>4, <2>5, NoMore DEF TypeOK
<1>2. ASSUME \A r \in Request : ~(ZCard(r) /\ r \in Passing' /\ t <= req[r].time /\ now < t + Window)
      PROVE  Through(t)' \subseteq Through(t)
  <2>1. ASSUME NEW q \in Request, q \in Passing', t <= req'[q].time, now' < t + Window
        PROVE  req'[q].time \in Through(t)
    <3>1. (q \in Passing \/ ZCard(q)) /\ req'[q].time = req[q].time
      BY <2>1, WhoPasses
    <3>2. now < t + Window
      BY <1>0, <2>1
    <3>3. q \in Passing
      BY <1>2, <2>1, <3>1, <3>2
    <3>4. QED
      BY <2>1, <3>1, <3>2, <3>3 DEF Through
  <2>2. ASSUME NEW a \in admitted', t <= a.time, a.end < t + Window
        PROVE  a.time \in Through(t)
    <3>1. CASE a \in admitted
      BY <2>2, <3>1 DEF Through, Within
    <3>2. ASSUME NEW r \in Request, Expire(r), a \notin admitted PROVE a.time \in Through(t)
      <4>1. a = [time |-> req[r].time, end |-> now] /\ r \in Passing
        BY <2>2, <3>2 DEF Expire, Passing
      <4>2. a.time = req[r].time /\ a.end = now
        BY <4>1
      <4>3. QED
        BY <2>2, <4>1, <4>2 DEF Through
    <3>3. QED
      BY <2>2, <3>1, <3>2
         DEF Next, Arrive, ZAdd, ZRemRangeByScore, ZCard, FailOpen, Finish, Tick, vars
  <2>3. Passing' \subseteq Request
    BY DEF Passing
  <2>4. QED
    BY <2>1, <2>2, <2>3 DEF Through, Within
<1>3. QED
  BY <1>1, <1>2, NobodyNew

\* A check that another request's command finds knows what it knew.
LEMMA CheckedKept ==
  ASSUME TypeOK, TypeOK', LimitInv, NEW s \in Request, req'[s] = req[s],
         now' = now, asked \subseteq asked', late \subseteq late',
         \A h \in hits : Recent(h) => h \in hits',
         \A h \in hits' : h \in hits \/ (h \in asked' /\ (Recent(h) \/ h \in late'))
  PROVE  Checked(s)'
<1>. DEFINE check == req[s]
            Reason == Counting(check.time)
            Reason2 == Counting(check.time)'
<1>1. Checked(s)
  BY DEF LimitInv
<1>2. check.time \in Nat /\ check.time <= now /\ now \in Nat /\ hits' \subseteq Nat /\ Window \in Nat
  BY <1>1, LimitAssumption DEF Checked, TypeOK, Check
<1>3. Reason2 = {h \in asked' : h + Window > check.time \/ h \in late'}
  BY DEF Counting
<1>4. Reason \in SUBSET Reason2 /\ IsFiniteSet(Reason2)
  <2>1. Reason2 \subseteq asked' /\ Reason \subseteq Reason2
    BY <1>3 DEF Counting
  <2>2. QED
    BY <2>1, FS_Subset DEF TypeOK
<1>5. Cardinality(Reason) > Limit => Cardinality(Reason2) > Limit
  <2>. HIDE DEF Reason, Reason2
  <2>1. QED
    BY <1>4, NoMore, LimitAssumption
<1>6. check.at = "zcard" => hits' \subseteq Reason2
  BY <1>1, <1>2, <1>3, <1>4 DEF Checked, Recent
<1>7. check.at \in Command \ {"zadd"} /\ ~check.lost /\ Recent(check.time)' => check.time \in hits'
  BY <1>1 DEF Checked, Recent
<1>. HIDE DEF Reason, Reason2
<1>8. check.time <= now /\ (check.at # "idle" => check.time \in asked')
  BY <1>1 DEF Checked
<1>9. check.at = "refused" \/ (check.at = "expire" /\ check.exceeded) => Cardinality(Reason2) > Limit
  BY <1>1, <1>5 DEF Checked, Reason
<1>10. QED
  BY <1>6, <1>7, <1>8, <1>9 DEF Checked, Reason2

\* One that moves learns what its command found.
LEMMA CheckedMoves ==
  ASSUME TypeOK, TypeOK', LimitInv, NEW r \in Request,
         \/ Arrive(r) \/ ZAdd(r) \/ ZRemRangeByScore(r) \/ ZCard(r) \/ Expire(r)
         \/ FailOpen(r) \/ Finish(r)
  PROVE  Checked(r)'
<1>. USE LimitAssumption
<1>1. /\ Checked(r) /\ hits \subseteq asked
      /\ req[r] \in Check /\ now \in Nat /\ req[r].time \in Nat
  BY DEF LimitInv, TypeOK, Check
<1>2. CASE Arrive(r)
  <2>1. req'[r].at = "zadd" /\ req'[r].time = now /\ now' = now /\ now \in asked'
    BY <1>2 DEF Arrive, Idle, TypeOK
  <2>2. QED
    BY <1>1, <2>1 DEF Checked
<1>3. ASSUME NEW place \in Command \union {"refused", "served"}, Go(r, place)
      PROVE  /\ req'[r].at = place /\ req'[r].time = req[r].time
             /\ req'[r].exceeded = req[r].exceeded /\ req'[r].lost = req[r].lost
  BY <1>3, GoStep DEF TypeOK
<1>4. CASE ZAdd(r)
  <2>1. /\ req'[r].at = "zremrangebyscore" /\ req'[r].time = req[r].time
        /\ now' = now /\ asked' = asked /\ req[r].time \in hits' /\ req[r].at = "zadd"
    BY <1>3, <1>4 DEF ZAdd, Command
  <2>2. QED
    BY <1>1, <2>1 DEF Checked
<1>5. CASE ZRemRangeByScore(r)
  <2>1. /\ req'[r].at = "zcard" /\ req'[r].time = req[r].time /\ req'[r].lost = req[r].lost
        /\ UNCHANGED <<now, asked, late>> /\ req[r].at = "zremrangebyscore"
        /\ hits' = {h \in hits : h + Window > req[r].time}
    BY <1>3, <1>5 DEF ZRemRangeByScore, Command
  <2>2. hits' \subseteq Counting(req[r].time)'
    BY <1>1, <2>1 DEF Counting
  <2>3. ~req[r].lost /\ Recent(req[r].time)' => req[r].time \in hits'
    BY <1>1, <1>5, <2>1, PruneKeepsRecent DEF Checked, Command, Recent
  <2>4. QED
    BY <1>1, <2>1, <2>2, <2>3 DEF Checked
<1>6. CASE ZCard(r)
  <2>1. /\ req'[r].at = "expire" /\ req'[r].time = req[r].time /\ req'[r].lost = req[r].lost
        /\ req'[r].exceeded = (Cardinality(hits) > Limit)
        /\ UNCHANGED <<now, asked, late, hits>> /\ req[r].at = "zcard"
    BY <1>6, ZCardStep DEF ZCard
  <2>2. Cardinality(hits) > Limit => Cardinality(Counting(req[r].time)) > Limit
    <3>. DEFINE Reason == Counting(req[r].time)
    <3>1. hits \in SUBSET Reason /\ Reason \in SUBSET asked
      BY <1>1, <2>1 DEF Checked, Counting
    <3>2. IsFiniteSet(Reason)
      BY <3>1, FS_Subset DEF TypeOK
    <3>. HIDE DEF Reason
    <3>3. Cardinality(hits) > Limit => Cardinality(Reason) > Limit
      BY <3>1, <3>2, NoMore
    <3>4. QED
      BY <3>3 DEF Reason
  <2>3. Counting(req[r].time)' = Counting(req[r].time)
    BY <2>1 DEF Counting
  <2>4. ~req[r].lost /\ Recent(req[r].time) => req[r].time \in hits
    BY <1>1, <2>1 DEF Checked, Command
  <2>5. QED
    BY <1>1, <2>1, <2>2, <2>3, <2>4 DEF Checked, Recent
<1>7. CASE Expire(r)
  <2>1. /\ req'[r].at = IF req[r].exceeded THEN "refused" ELSE "served"
        /\ req'[r].time = req[r].time
        /\ UNCHANGED <<now, asked, late>> /\ req[r].at = "expire"
    BY <1>3, <1>7 DEF Expire
  <2>2. Counting(req[r].time)' = Counting(req[r].time)
    BY <2>1 DEF Counting
  <2>3. QED
    BY <1>1, <2>1, <2>2 DEF Checked, Command
<1>8. CASE FailOpen(r)
  <2>1. /\ req'[r].at = "served" /\ req'[r].time = req[r].time
        /\ UNCHANGED <<now, asked>> /\ req[r].at # "idle"
    BY <1>3, <1>8 DEF FailOpen, Command
  <2>2. QED
    BY <1>1, <2>1 DEF Checked, Command
<1>9. CASE Finish(r)
  <2>1. req'[r].at = "idle" /\ req'[r].time = 0 /\ now' = now
    BY <1>9 DEF Finish, Idle, TypeOK
  <2>2. QED
    BY <1>1, <2>1 DEF Checked, Command
<1>10. QED
  BY <1>2, <1>4, <1>5, <1>6, <1>7, <1>8, <1>9

LEMMA CheckedStep == TypeOK /\ LimitInv /\ [Next]_vars => \A s \in Request : Checked(s)'
<1>. SUFFICES ASSUME TypeOK, LimitInv, [Next]_vars, NEW s \in Request PROVE Checked(s)'
  OBVIOUS
<1>. USE LimitAssumption
<1>1. TypeOK'
  BY TypeStep
<1>2. ASSUME NEW r \in Request \ {s},
             \/ Arrive(r) \/ ZAdd(r) \/ ZRemRangeByScore(r) \/ ZCard(r) \/ Expire(r)
             \/ FailOpen(r) \/ Finish(r)
      PROVE  Checked(s)'
  <2>1. req'[s] = req[s]
    BY <1>2 DEF Arrive, ZAdd, ZRemRangeByScore, ZCard, Expire, FailOpen, Finish, Go, TypeOK
  <2>2. now' = now /\ asked \subseteq asked' /\ late \subseteq late'
    BY <1>2 DEF Arrive, ZAdd, ZRemRangeByScore, ZCard, Expire, FailOpen, Finish
  <2>3. CASE hits' = hits
    BY <1>1, <2>1, <2>2, <2>3, CheckedKept
  <2>4. CASE ZAdd(r)
    <3>1. /\ req[r].time \in asked' /\ hits' = hits \union {req[r].time}
          /\ Recent(req[r].time) \/ req[r].time \in late'
      BY <2>4 DEF ZAdd, LimitInv, Checked, Recent, TypeOK, Check
    <3>2. QED
      BY <1>1, <2>1, <2>2, <3>1, CheckedKept
  <2>5. CASE ZRemRangeByScore(r)
    BY <1>1, <2>1, <2>2, <2>5, PruneKeepsRecent, CheckedKept
  <2>6. QED
    BY <1>2, <2>3, <2>4, <2>5 DEF Arrive, ZCard, Expire, FailOpen, Finish
<1>3. CASE Tick
  <2>1. Checked(s) /\ req[s].time \in Nat /\ now \in Nat /\ now' = now + 1
        /\ asked' = asked /\ late' = late /\ Window \in Nat
    BY <1>3 DEF Tick, LimitInv, TypeOK, Check
  <2>2. /\ req'[s].at = req[s].at /\ req'[s].time = req[s].time
        /\ req'[s].exceeded = req[s].exceeded
        /\ req'[s].lost = (req[s].lost \/ (expiry # 0 /\ expiry <= now'
                                           /\ req[s].at \in Command \ {"zadd"}))
    BY <1>3, TickReq
  <2>3. Counting(req[s].time)' = Counting(req[s].time)
    BY <2>1, <2>2 DEF Counting
  <2>4. hits' \subseteq hits /\ (hits' = hits \/ (expiry # 0 /\ expiry <= now'))
    BY <1>3 DEF Tick
  <2>5. ASSUME req[s].at \in Command \ {"zadd"}, ~req'[s].lost, Recent(req[s].time)'
        PROVE  req[s].time \in hits'
    <3>1. Recent(req[s].time)
      BY <2>1, <2>2, <2>5 DEF Recent
    <3>2. ~req[s].lost /\ hits' = hits
      BY <2>2, <2>4, <2>5
    <3>3. QED
      BY <2>1, <2>5, <3>1, <3>2 DEF Checked
  <2>6. QED
    BY <2>1, <2>2, <2>3, <2>4, <2>5 DEF Checked
<1>4. CASE UNCHANGED vars
  BY <1>1, <1>4, CheckedKept DEF vars
<1>5. QED
  BY <1>1, <1>2, <1>3, <1>4, CheckedMoves DEF Next

-----------------------------------------------------------------------------
(* The theorems.                                                            *)

\* The key, the checks under way and what is known of them keep their shape.
THEOREM LimiterTyped == Spec => []TypeOK
BY TypeInit, TypeStep, PTL DEF Spec

LEMMA Inductive == Spec => [](TypeOK /\ LimitInv)
<1>1. Init => LimitInv
  <2>. SUFFICES ASSUME Init PROVE LimitInv
    OBVIOUS
  <2>1. ASSUME NEW r \in Request PROVE Checked(r)
    BY DEF Init, Idle, Checked, Command
  <2>2. ASSUME NEW t \in Nat PROVE Cardinality(Through(t)) <= Limit
    <3>1. Through(t) = {}
      BY DEF Init, Through, Within, Passing, Idle
    <3>2. QED
      BY <3>1, FS_EmptySet, LimitAssumption
  <2>3. QED
    BY <2>1, <2>2 DEF Init, LimitInv, Counted
<1>2. TypeOK /\ LimitInv /\ [Next]_vars => TypeOK' /\ LimitInv'
  BY TypeStep, CountedStep, HitsAskedStep, CheckedStep, ThroughStep DEF LimitInv
<1>3. QED
  BY TypeInit, <1>1, <1>2, PTL DEF Spec

\* However the checks of a client's requests overlap and however long they take, and
\* whatever Redis drops, no window lets more of them through than the limit, but for
\* those whose hit the key's expiry took along.
THEOREM AtMostLimit == Spec => []WindowBound
<1>1. TypeOK /\ LimitInv => WindowBound
  <2>. SUFFICES ASSUME TypeOK, LimitInv, NEW t \in 0 .. now
                PROVE  Cardinality(Within(t)) <= Limit
    BY DEF WindowBound
  <2>1. Within(t) \in SUBSET Through(t) /\ t \in Nat
    BY DEF Through, TypeOK
  <2>2. QED
    BY <2>1, NobodyNew
<1>2. QED
  BY <1>1, Inductive, PTL

\* checkLimit refuses only for requests of the window before it, of the time it took,
\* or late ones.
THEOREM RefusedForReason == Spec => []RefusedHasReason
<1>1. LimitInv => RefusedHasReason
  BY DEF LimitInv, Checked, RefusedHasReason
<1>2. QED
  BY <1>1, Inductive, PTL
=============================================================================
