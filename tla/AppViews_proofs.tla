---------------------------- MODULE AppViews_proofs ----------------------------
(***************************************************************************)
(* Proofs about what the app shows of the listings: the list (ListingFeed), *)
(* and the session and the map (AppMap), each on its own, for any number of *)
(* listings, requests, tokens and regions.                                  *)
(***************************************************************************)
EXTENDS ListingFeed, AppMap, FiniteSetTheorems, SequenceTheorems, TLAPS

-----------------------------------------------------------------------------
(* Rows in order.                                                           *)

\* A set of natural numbers that is not empty has a smallest element.
LEMMA Smallest ==
  ASSUME NEW S \in SUBSET Nat, S # {}
  PROVE  \E x \in S : \A y \in S : x <= y
<1> DEFINE Less == OpToRel(<, Nat)
<1>1. \A m, n \in Nat : m < n => <<m, n>> \in Less
  BY DEF OpToRel
<1>2. IsWellFoundedOn(Less, Nat)
  BY NatLessThanWellFounded
<1>. HIDE DEF Less
<1>3. PICK x \in S : \A y \in S : ~(<<y, x>> \in Less)
  BY <1>2, WFMin
<1>4. ASSUME NEW y \in S PROVE x <= y
  <2>1. x \in Nat /\ y \in Nat
    OBVIOUS
  <2>2. ~(y < x)
    BY <1>1, <1>3, <2>1
  <2>3. QED
    BY <2>1, <2>2
<1>5. QED
  BY <1>4

Above(S, x) == {y \in S : y > x}

\* Every rank in S is some element's.
Full(S) == \A n \in 1 .. Cardinality(S) : \E x \in S : Cardinality(Above(S, x)) = n - 1

\* Adding an element below all others keeps their ranks and takes the last one.
LEMMA FullWithSmallest ==
  ASSUME NEW S \in SUBSET Nat, IsFiniteSet(S), NEW x \in S, \A y \in S : x <= y,
         Full(S \ {x})
  PROVE  Full(S)
<1>1. IsFiniteSet(S \ {x}) /\ Cardinality(S \ {x}) = Cardinality(S) - 1
  BY FS_RemoveElement
<1>2. Cardinality(S) \in Nat
  BY FS_CardinalityType
<1>3. \A y \in S \ {x} : y > x
  <2>1. ASSUME NEW y \in S \ {x} PROVE y > x
    <3>1. x \in Nat /\ y \in Nat /\ x <= y /\ y # x
      OBVIOUS
    <3>2. QED
      BY <3>1
  <2>2. QED
    BY <2>1
<1>4. Above(S, x) = S \ {x}
  <2>1. x \in Nat /\ ~(x > x)
    OBVIOUS
  <2>2. QED
    BY <1>3, <2>1 DEF Above
<1>5. \A y \in S \ {x} : Above(S, y) = Above(S \ {x}, y)
  BY <1>3 DEF Above
<1>6. ASSUME NEW n \in 1 .. Cardinality(S)
      PROVE  \E y \in S : Cardinality(Above(S, y)) = n - 1
  <2>1. CASE n = Cardinality(S)
    BY <1>1, <1>4, <2>1
  <2>2. CASE n # Cardinality(S)
    <3>1. n \in 1 .. Cardinality(S \ {x})
      BY <1>1, <1>2, <2>2
    <3>2. PICK y \in S \ {x} : Cardinality(Above(S \ {x}, y)) = n - 1
      BY <3>1 DEF Full
    <3>3. QED
      BY <1>5, <3>2
  <2>3. QED
    BY <2>1, <2>2
<1>7. QED
  BY <1>6 DEF Full

\* Every finite set is full: a smallest one that is not would have a smallest element,
\* without which it would be full.
LEMMA AlwaysFull ==
  ASSUME NEW S \in SUBSET Nat, IsFiniteSet(S)
  PROVE  Full(S)
<1> DEFINE Lacking == {T \in SUBSET Nat : IsFiniteSet(T) /\ ~Full(T)}
           Sizes == {Cardinality(T) : T \in Lacking}
<1>1. \A T \in Lacking : Cardinality(T) \in Nat
  BY FS_CardinalityType
<1>2. SUFFICES ASSUME Lacking # {} PROVE FALSE
  OBVIOUS
<1>3. PICK T \in Lacking : \A U \in Lacking : Cardinality(T) <= Cardinality(U)
  <2>1. Sizes \in SUBSET Nat /\ Sizes # {}
    BY <1>1, <1>2
  <2>2. PICK n \in Sizes : \A m \in Sizes : n <= m
    BY <2>1, Smallest
  <2>3. QED
    BY <2>2
<1>4. T \in SUBSET Nat /\ IsFiniteSet(T) /\ ~Full(T) /\ Cardinality(T) \in Nat
  BY <1>1
<1>5. T # {}
  <2>1. ASSUME T = {} PROVE FALSE
    <3>1. Cardinality(T) = 0
      BY <2>1, FS_EmptySet
    <3>2. QED
      BY <1>4, <3>1 DEF Full
  <2>2. QED
    BY <2>1
<1>6. PICK x \in T : \A y \in T : x <= y
  BY <1>4, <1>5, Smallest
<1>7. T \ {x} \notin Lacking
  <2>1. Cardinality(T \ {x}) = Cardinality(T) - 1
    BY <1>4, FS_RemoveElement
  <2>2. QED
    BY <1>3, <1>4, <2>1
<1>8. IsFiniteSet(T \ {x}) /\ T \ {x} \in SUBSET Nat
  BY <1>4, FS_RemoveElement
<1>9. Full(T \ {x})
  BY <1>7, <1>8
<1>10. QED
  BY <1>4, <1>6, <1>9, FullWithSmallest

\* The rows in order are a sequence of these rows.
LEMMA DescendingIs ==
  ASSUME NEW S \in SUBSET Nat, IsFiniteSet(S)
  PROVE  /\ Descending(S) \in Seq(S) /\ Len(Descending(S)) = Cardinality(S)
         /\ Len(Descending(S)) \in Nat
<1>1. Cardinality(S) \in Nat
  BY FS_CardinalityType
<1>2. \A n \in 1 .. Cardinality(S) :
        (CHOOSE x \in S : Cardinality({y \in S : y > x}) = n - 1) \in S
  BY AlwaysFull DEF Full, Above
<1>3. Descending(S) \in [1 .. Cardinality(S) -> S]
  BY <1>2 DEF Descending
<1>4. QED
  BY <1>1, <1>3, SeqDef

LEMMA QueryIs ==
  ASSUME NEW n \in Nat, live \in SUBSET (1 .. n), NEW f
  PROVE  Query(f) \in Seq(1 .. n) /\ Len(Query(f)) \in Nat
<1> DEFINE S == live \intersect Admits(f)
<1>1. IsFiniteSet(1 .. n)
  BY FS_Interval
<1>2. S \in SUBSET (1 .. n) /\ S \in SUBSET Nat
  <2>1. S \subseteq live
    OBVIOUS
  <2>2. 1 .. n \subseteq Nat
    OBVIOUS
  <2>3. QED
    BY <2>1, <2>2
<1>3. IsFiniteSet(S)
  BY <1>1, <1>2, FS_Subset
<1>. HIDE DEF S
<1>4. Descending(S) \in Seq(S) /\ Len(Descending(S)) \in Nat
  BY <1>2, <1>3, DescendingIs
<1>5. Descending(S) \in Seq(1 .. n)
  BY <1>2, <1>4, SeqMonotonic
<1>6. QED
  BY <1>4, <1>5 DEF Query, S

LEMMA MinIs ==
  ASSUME NEW m \in Nat, NEW n \in Nat
  PROVE  Min({m, n}) = IF m <= n THEN m ELSE n
BY DEF Min

\* A page consists of rows of the query; if it starts within the query, it continues there.
LEMMA PageIs ==
  ASSUME FeedAssumption, NEW n \in Nat, live \in SUBSET (1 .. n), NEW f, NEW k \in Nat
  PROVE  /\ Page(f, k) \in Seq(1 .. n)
         /\ k <= Len(Query(f)) => \E m \in k .. Len(Query(f)) : Page(f, k) = SubSeq(Query(f), k + 1, m)
<1> DEFINE q == Query(f)
           m == Min({k + PageSize, Len(q)})
<1>1. q \in Seq(1 .. n) /\ Len(q) \in Nat
  BY QueryIs
<1>2. k + PageSize \in Nat /\ PageSize > 0
  BY DEF FeedAssumption
<1>3. Page(f, k) = SubSeq(q, k + 1, m)
  BY DEF Page
<1>. HIDE DEF q
<1>4. m = IF k + PageSize <= Len(q) THEN k + PageSize ELSE Len(q)
  BY <1>1, <1>2, MinIs
<1>5. m \in Int /\ m <= Len(q) /\ (k <= Len(q) => m \in k .. Len(q))
  BY <1>1, <1>2, <1>4
<1>. HIDE DEF m
<1>6. \A i \in k + 1 .. m : q[i] \in 1 .. n
  <2>1. ASSUME NEW i \in k + 1 .. m PROVE q[i] \in 1 .. n
    <3>1. i \in 1 .. Len(q)
      BY <1>1, <1>5
    <3>2. QED
      BY <1>1, <3>1, ElementOfSeq
  <2>2. QED
    BY <2>1
<1>7. SubSeq(q, k + 1, m) \in Seq(1 .. n)
  BY <1>5, <1>6, SubSeqProperties
<1>8. QED
  BY <1>3, <1>5, <1>7 DEF q

\* What is left of a list is part of it.
LEMMA WithoutIs ==
  ASSUME NEW T, shown \in Seq(T), NEW p
  PROVE  Without(p) \in Seq(T)
<1> DEFINE S == {i \in DOMAIN shown : shown[i] # p}
           d == Descending(S)
<1>1. DOMAIN shown = 1 .. Len(shown) /\ Len(shown) \in Nat
  BY LenProperties
<1>2. S \in SUBSET Nat /\ S \in SUBSET (1 .. Len(shown))
  BY <1>1
<1>3. IsFiniteSet(S)
  <2>1. IsFiniteSet(1 .. Len(shown))
    BY <1>1, FS_Interval
  <2>2. QED
    BY <1>2, <2>1, FS_Subset
<1>. HIDE DEF S
<1>4. d \in Seq(S) /\ Len(d) \in Nat
  BY <1>2, <1>3, DescendingIs
<1>. HIDE DEF d
<1>5. Reverse(d) \in [1 .. Len(d) -> S]
  <2>1. ASSUME NEW i \in 1 .. Len(d) PROVE d[(Len(d) - i) + 1] \in S
    <3>1. (Len(d) - i) + 1 \in 1 .. Len(d)
      BY <1>4
    <3>2. QED
      BY <1>4, <3>1, ElementOfSeq
  <2>2. QED
    BY <2>1 DEF Reverse
<1>6. PICK r \in [1 .. Len(d) -> S] : r = Reverse(d)
  BY <1>5
<1>7. [n \in DOMAIN r |-> shown[r[n]]] \in [1 .. Len(d) -> T]
  <2>1. ASSUME NEW n \in 1 .. Len(d) PROVE shown[r[n]] \in T
    <3>1. r[n] \in 1 .. Len(shown)
      BY <1>2
    <3>2. QED
      BY <3>1, ElementOfSeq
  <2>2. QED
    BY <2>1
<1>8. Without(p) = [n \in DOMAIN r |-> shown[r[n]]]
  BY <1>6 DEF Without, d, S
<1>9. QED
  BY <1>4, <1>7, <1>8, SeqDef

-----------------------------------------------------------------------------
(* The list: types.                                                         *)

\* The GET requests when n listings have been created.
Gets(n) ==
  [at : {"idle", "list", "count", "answer"}, replace : BOOLEAN, filters : Filters \union {"none"},
   offset : Nat, items : Seq(1 .. n), total : Nat]

LEMMA IdleGet == ASSUME NEW n \in Nat PROVE NoFetch \in Gets(n) /\ NoFetch.at = "idle"
<1>1. <<>> \in Seq(1 .. n)
  BY EmptySeq
<1>2. QED
  BY <1>1 DEF NoFetch, Gets

LEMMA GetsGrow ==
  ASSUME NEW m \in Nat, NEW n \in Nat, m <= n
  PROVE  Seq(1 .. m) \subseteq Seq(1 .. n) /\ Gets(m) \subseteq Gets(n)
<1>1. 1 .. m \subseteq 1 .. n
  OBVIOUS
<1>2. Seq(1 .. m) \subseteq Seq(1 .. n)
  BY <1>1, SeqMonotonic
<1>3. QED
  BY <1>2 DEF Gets

\* A request that has just been sent.
Asked(replace, f, from) ==
  [NoFetch EXCEPT !.at = "list", !.replace = replace, !.filters = f, !.offset = from]

LEMMA AskedIs ==
  ASSUME NEW n \in Nat, NEW replace \in BOOLEAN, NEW f \in Filters, NEW from \in Nat
  PROVE  LET g == Asked(replace, f, from)
         IN  /\ g \in Gets(n)
             /\ g.at = "list" /\ g.replace = replace /\ g.filters = f /\ g.offset = from
<1>1. NoFetch \in Gets(n)
  BY IdleGet
<1>2. QED
  BY <1>1 DEF Asked, Gets

LEMMA FetchIs ==
  ASSUME NEW n \in Nat, fetch \in [FetchId -> Gets(n)],
         NEW c \in FetchId, NEW replace \in BOOLEAN, NEW f \in Filters, NEW from \in Nat,
         StartFetch(c, replace, f, from)
  PROVE  /\ fetch' \in [FetchId -> Gets(n)] /\ fetch[c].at = "idle"
         /\ fetch'[c].at = "list" /\ fetch'[c].replace = replace
         /\ fetch'[c].filters = f /\ fetch'[c].offset = from
         /\ \A d \in FetchId \ {c} : fetch'[d] = fetch[d]
<1>1. PICK g \in Gets(n) : /\ g = Asked(replace, f, from)
                           /\ g.at = "list" /\ g.replace = replace
                           /\ g.filters = f /\ g.offset = from
  BY AskedIs
<1>2. fetch[c].at = "idle" /\ fetch' = [fetch EXCEPT ![c] = g]
  BY <1>1 DEF StartFetch, Asked
<1>3. QED
  BY <1>1, <1>2

\* What the API's two queries do to the request.
LEMMA ListQueryIs ==
  ASSUME FeedAssumption, FeedTypeOK, NEW c \in FetchId, ListQuery(c)
  PROVE  /\ fetch[c].filters = fetch'[c].filters /\ fetch[c].offset = fetch'[c].offset
         /\ fetch[c].at = "list" /\ fetch'[c].at = "count" /\ fetch'[c].replace = fetch[c].replace
         /\ fetch'[c].items = Page(fetch[c].filters, fetch[c].offset)
         /\ fetch' \in [FetchId -> Gets(newest)]
         /\ \A d \in FetchId \ {c} : fetch'[d] = fetch[d]
<1>1. fetch \in [FetchId -> Gets(newest)] /\ newest \in Nat /\ live \in SUBSET (1 .. newest)
  BY DEF FeedTypeOK, Gets, FeedAssumption
<1>2. fetch[c] \in Gets(newest) /\ fetch[c].offset \in Nat
  BY <1>1 DEF Gets
<1>3. PICK p \in Seq(1 .. newest) : p = Page(fetch[c].filters, fetch[c].offset)
  BY <1>1, <1>2, PageIs
<1>4. fetch[c].at = "list" /\ fetch' = [fetch EXCEPT ![c] = [fetch[c] EXCEPT !.at = "count", !.items = p]]
  BY <1>1, <1>3 DEF ListQuery
<1>5. [fetch[c] EXCEPT !.at = "count", !.items = p] \in Gets(newest)
  BY <1>2 DEF Gets
<1>6. QED
  BY <1>1, <1>2, <1>3, <1>4, <1>5 DEF Gets

LEMMA CountQueryIs ==
  ASSUME FeedAssumption, FeedTypeOK, NEW c \in FetchId, CountQuery(c)
  PROVE  /\ fetch[c].filters = fetch'[c].filters /\ fetch[c].offset = fetch'[c].offset
         /\ fetch[c].at = "count" /\ fetch'[c].at = "answer" /\ fetch'[c].replace = fetch[c].replace
         /\ fetch'[c].items = fetch[c].items /\ fetch'[c].total = Len(Query(fetch[c].filters))
         /\ fetch' \in [FetchId -> Gets(newest)]
         /\ \A d \in FetchId \ {c} : fetch'[d] = fetch[d]
<1>1. fetch \in [FetchId -> Gets(newest)] /\ newest \in Nat /\ live \in SUBSET (1 .. newest)
  BY DEF FeedTypeOK, Gets, FeedAssumption
<1>2. fetch[c] \in Gets(newest)
  BY <1>1
<1>3. PICK n \in Nat : n = Len(Query(fetch[c].filters))
  BY <1>1, QueryIs
<1>4. fetch[c].at = "count" /\ fetch' = [fetch EXCEPT ![c] = [fetch[c] EXCEPT !.at = "answer", !.total = n]]
  BY <1>1, <1>3 DEF CountQuery
<1>5. [fetch[c] EXCEPT !.at = "answer", !.total = n] \in Gets(newest)
  BY <1>2 DEF Gets
<1>6. QED
  BY <1>1, <1>2, <1>3, <1>4, <1>5 DEF Gets

LEMMA ChangeType ==
  ASSUME FeedAssumption, FeedTypeOK, Change
  PROVE  changes' \in 0 .. MaxChanges /\ calm' \in BOOLEAN
<1>1. changes < MaxChanges /\ changes' = changes + 1 /\ changes \in 0 .. MaxChanges
  BY DEF Change, FeedTypeOK
<1>2. changes' \in 0 .. MaxChanges
  BY <1>1 DEF FeedAssumption
<1>3. calm' \in BOOLEAN
  BY DEF Change
<1>4. QED
  BY <1>2, <1>3

LEMMA FeedTypeStep == FeedTypeOK /\ [FeedNext]_feedVars => FeedTypeOK'
<1>. SUFFICES ASSUME FeedTypeOK, [FeedNext]_feedVars PROVE FeedTypeOK'
  OBVIOUS
<1>0. /\ newest \in Nat /\ newest \in 0 .. MaxListing /\ MaxListing \in Nat /\ MaxChanges \in Nat
      /\ PageSize \in Nat /\ fetch \in [FetchId -> Gets(newest)]
  BY FeedAssumption DEF FeedTypeOK, Gets
<1>1. FeedTypeOK' <=> /\ newest' \in 0 .. MaxListing /\ live' \in SUBSET (1 .. newest')
                  /\ shown' \in Seq(1 .. newest')
                  /\ filters' \in Filters /\ offset' \in Nat /\ total' \in Nat
                  /\ isLoading' \in BOOLEAN /\ isLoadingMore' \in BOOLEAN /\ error' \in BOOLEAN
                  /\ fetch' \in [FetchId -> Gets(newest')]
                  /\ deleting' \in 0 .. newest' /\ calm' \in BOOLEAN /\ changes' \in 0 .. MaxChanges
  BY DEF FeedTypeOK, Gets
<1>2. ASSUME NEW c \in FetchId, NEW f \in Filters, StartRefresh(c, f) PROVE FeedTypeOK'
  <2>1. fetch' \in [FetchId -> Gets(newest)]
    BY <1>0, <1>2, FetchIs DEF StartRefresh
  <2>2. QED
    BY <1>1, <1>2, <2>1 DEF StartRefresh, FeedTypeOK
<1>3. ASSUME NEW c \in FetchId, Refresh(c) \/ ApplyFilters(c) PROVE FeedTypeOK'
  BY <1>2, <1>3 DEF Refresh, ApplyFilters, FeedTypeOK
<1>4. ASSUME NEW c \in FetchId, FetchNext(c) PROVE FeedTypeOK'
  <2>1. filters \in Filters /\ offset \in Nat
    BY DEF FeedTypeOK
  <2>2. fetch' \in [FetchId -> Gets(newest)]
    BY <1>0, <1>4, <2>1, FetchIs DEF FetchNext
  <2>3. QED
    BY <1>1, <1>4, <2>2 DEF FetchNext, FeedTypeOK
<1>5. CASE DeleteOnServer
  <2>1. PICK p \in ToSet(shown) \intersect live : live' = live \ {p} /\ deleting' = p
    BY <1>5 DEF DeleteOnServer
  <2>2. changes' \in 0 .. MaxChanges /\ calm' \in BOOLEAN
    BY <1>5, ChangeType, FeedAssumption DEF DeleteOnServer
  <2>3. deleting' \in 0 .. newest /\ live' \in SUBSET (1 .. newest)
    <3>1. live \in SUBSET (1 .. newest) /\ p \in live
      BY <2>1 DEF FeedTypeOK
    <3>2. p \in 1 .. newest
      BY <3>1
    <3>3. p \in 0 .. newest
      BY <1>0, <3>2
    <3>4. QED
      BY <2>1, <3>1, <3>3
  <2>4. UNCHANGED <<newest, client, fetch>>
    BY <1>5 DEF DeleteOnServer
  <2>5. QED
    BY <1>0, <1>1, <2>2, <2>3, <2>4 DEF client, FeedTypeOK
<1>6. CASE RemoveDeleted
  <2>1. Without(deleting) \in Seq(1 .. newest)
    BY WithoutIs DEF FeedTypeOK
  <2>2. total' \in Nat
    BY <1>6 DEF RemoveDeleted, FeedTypeOK
  <2>3. deleting' \in 0 .. newest /\ calm' \in BOOLEAN /\ error' \in BOOLEAN
    <3>1. deleting' = 0 /\ calm' \in BOOLEAN /\ error' \in BOOLEAN
      BY <1>6 DEF RemoveDeleted
    <3>2. QED
      BY <1>0, <3>1
  <2>4. /\ shown' \in Seq(1 .. newest)
        /\ UNCHANGED <<newest, live, filters, offset, isLoading, isLoadingMore, fetch, changes>>
    BY <1>6, <2>1 DEF RemoveDeleted
  <2>5. QED
    BY <1>0, <1>1, <2>2, <2>3, <2>4 DEF FeedTypeOK
<1>7. CASE DeleteAnswerLost
  BY <1>0, <1>1, <1>7 DEF DeleteAnswerLost, client, FeedTypeOK
<1>8. ASSUME NEW c \in FetchId, ListQuery(c) PROVE FeedTypeOK'
  BY <1>1, <1>8, ListQueryIs, FeedAssumption DEF ListQuery, client, FeedTypeOK
<1>9. ASSUME NEW c \in FetchId, CountQuery(c) PROVE FeedTypeOK'
  BY <1>1, <1>9, CountQueryIs, FeedAssumption DEF CountQuery, client, FeedTypeOK
<1>10. CASE Publish
  <2>1. newest' = newest + 1 /\ newest' \in Nat /\ newest' \in 0 .. MaxListing /\ newest <= newest'
    BY <1>0, <1>10 DEF Publish
  <2>2. shown' \in Seq(1 .. newest') /\ fetch' \in [FetchId -> Gets(newest')]
    BY <1>0, <1>10, <2>1, GetsGrow DEF Publish, client, FeedTypeOK
  <2>3. live' \in SUBSET (1 .. newest') /\ deleting' \in 0 .. newest'
    BY <1>0, <1>10, <2>1 DEF Publish, FeedTypeOK
  <2>4. changes' \in 0 .. MaxChanges /\ calm' \in BOOLEAN
    BY <1>10, ChangeType, FeedAssumption DEF Publish
  <2>5. QED
    BY <1>1, <1>10, <2>1, <2>2, <2>3, <2>4 DEF Publish, client, FeedTypeOK
<1>11. CASE Withdraw
  <2>1. changes' \in 0 .. MaxChanges /\ calm' \in BOOLEAN
    BY <1>11, ChangeType, FeedAssumption DEF Withdraw
  <2>2. QED
    BY <1>0, <1>1, <1>11, <2>1 DEF Withdraw, client, FeedTypeOK
<1>12. ASSUME NEW c \in FetchId, ReceivePage(c) PROVE FeedTypeOK'
  <2>1. PICK items \in Seq(1 .. newest) : items = fetch[c].items
    BY <1>0 DEF Gets
  <2>2. shown \in Seq(1 .. newest) /\ Len(items) \in Nat /\ shown \o items \in Seq(1 .. newest)
    BY ConcatProperties, LenProperties DEF FeedTypeOK
  <2>3. shown' \in Seq(1 .. newest) /\ offset' \in Nat
    <3>1. shown' = items \/ shown' = shown \o items
      BY <1>12, <2>1 DEF ReceivePage
    <3>2. offset' = Len(items) \/ offset' = offset + Len(items)
      BY <1>12, <2>1 DEF ReceivePage
    <3>3. offset \in Nat
      BY DEF FeedTypeOK
    <3>4. shown' \in Seq(1 .. newest)
      BY <2>2, <3>1
    <3>5. offset' \in Nat
      BY <2>2, <3>2, <3>3
    <3>6. QED
      BY <3>4, <3>5
  <2>4. total' \in Nat
    BY <1>0, <1>12 DEF ReceivePage, Gets
  <2>5. fetch' \in [FetchId -> Gets(newest)]
    BY <1>0, <1>12, IdleGet DEF ReceivePage
  <2>6. QED
    BY <1>1, <1>12, <2>3, <2>4, <2>5 DEF ReceivePage, FeedTypeOK
<1>13. ASSUME NEW c \in FetchId, FetchFails(c) PROVE FeedTypeOK'
  <2>1. fetch' \in [FetchId -> Gets(newest)]
    BY <1>0, <1>13, IdleGet DEF FetchFails
  <2>2. fetch[c].replace \in BOOLEAN
    BY <1>0 DEF Gets
  <2>3. QED
    BY <1>1, <1>13, <2>1, <2>2 DEF FetchFails, FeedTypeOK
<1>14. CASE UNCHANGED feedVars
  BY <1>0, <1>1, <1>14 DEF feedVars, client, FeedTypeOK
<1>15. QED
  BY <1>3, <1>4, <1>5, <1>6, <1>7, <1>8, <1>9, <1>10, <1>11, <1>12, <1>13, <1>14 DEF FeedNext

\* The list, its requests and the listings are well-typed; in particular, the total never
\* falls below 0, and what a page or a deletion leaves are listings that were once created.
THEOREM FeedTyped == FeedSpec => []FeedTypeOK
<1>1. FeedInit => FeedTypeOK
  <2>. SUFFICES ASSUME FeedInit PROVE FeedTypeOK
    OBVIOUS
  <2>1. newest \in Nat /\ newest \in 0 .. MaxListing /\ filters \in Filters /\ changes \in 0 .. MaxChanges
    BY FeedAssumption DEF FeedInit
  <2>2. PICK c \in FetchId :
          fetch = [d \in FetchId |-> IF d = c THEN [NoFetch EXCEPT !.at = "list", !.replace = TRUE,
                                                            !.filters = filters]
                                 ELSE NoFetch]
    BY DEF FeedInit
  <2>3. NoFetch \in Gets(newest)
    BY <2>1, IdleGet
  <2>4. [NoFetch EXCEPT !.at = "list", !.replace = TRUE, !.filters = filters] \in Gets(newest)
    BY <2>1, <2>3 DEF Gets
  <2>5. fetch \in [FetchId -> Gets(newest)]
    BY <2>2, <2>3, <2>4
  <2>6. shown \in Seq(1 .. newest) /\ deleting \in 0 .. newest
    BY <2>1, EmptySeq DEF FeedInit
  <2>7. QED
    BY <2>1, <2>5, <2>6 DEF FeedInit, FeedTypeOK, Gets
<1>2. QED
  BY <1>1, FeedTypeStep, PTL DEF FeedSpec

-----------------------------------------------------------------------------
(* The list: what is shown.                                                 *)

\* The beginning of a sequence.
LEMMA Beginning ==
  ASSUME NEW T, NEW q \in Seq(T), NEW m \in 0 .. Len(q)
  PROVE  LET s == SubSeq(q, 1, m)
         IN  s \in Seq(T) /\ Len(s) = m /\ IsPrefix(s, q)
<1>1. Len(q) \in Nat
  BY LenProperties
<1>2. \A i \in 1 .. m : q[i] \in T
  BY <1>1, ElementOfSeq
<1>3. PICK s : s = SubSeq(q, 1, m)
  OBVIOUS
<1>4. s \in Seq(T) /\ Len(s) = m
  BY <1>1, <1>2, <1>3, SubSeqProperties
<1>5. SubSeq(s, 1, Len(s)) = s
  BY <1>4, SubSeqFull
<1>6. IsPrefix(s, q)
  BY <1>1, <1>3, <1>4, <1>5 DEF IsPrefix
<1>7. QED
  BY <1>3, <1>4, <1>6

LEMMA PrefixIs ==
  ASSUME NEW T, NEW q \in Seq(T), NEW s \in Seq(T), IsPrefix(s, q)
  PROVE  Len(s) \in 0 .. Len(q) /\ s = SubSeq(q, 1, Len(s))
<1>1. Len(s) \in Nat /\ Len(q) \in Nat
  BY LenProperties
<1>2. SubSeq(s, 1, Len(s)) = s
  BY SubSeqFull
<1>3. QED
  BY <1>1, <1>2 DEF IsPrefix

\* An answered page makes the list a longer beginning of the query.
LEMMA PageContinues ==
  ASSUME FeedAssumption, FeedTypeOK, NEW f, IsPrefix(shown, Query(f))
  PROVE  LET s == shown \o Page(f, Len(shown))
         IN  IsPrefix(s, Query(f)) /\ Len(s) = Len(shown) + Len(Page(f, Len(shown)))
<1>1. /\ newest \in Nat /\ live \in SUBSET (1 .. newest)
      /\ shown \in Seq(1 .. newest) /\ Len(shown) \in Nat
  BY LenProperties DEF FeedTypeOK, FeedAssumption
<1>2. PICK q \in Seq(1 .. newest) : q = Query(f) /\ Len(q) \in Nat
  BY <1>1, QueryIs
<1>3. PICK k \in Nat : k = Len(shown) /\ k \in 0 .. Len(q) /\ shown = SubSeq(q, 1, k)
  BY <1>1, <1>2, PrefixIs
<1>4. PICK m \in k .. Len(q) : Page(f, k) = SubSeq(q, k + 1, m)
  <2>1. k <= Len(Query(f))
    BY <1>2, <1>3
  <2>2. \E m \in k .. Len(Query(f)) : Page(f, k) = SubSeq(Query(f), k + 1, m)
    BY <1>1, <2>1, PageIs
  <2>3. QED
    BY <1>2, <2>2
<1>5. Page(f, k) \in Seq(1 .. newest)
  BY <1>1, PageIs
<1>6. shown \o Page(f, k) = SubSeq(q, 1, m)
  <2>1. 1 \in 1 .. Len(q) + 1 /\ k \in 1 - 1 .. Len(q)
    BY <1>2, <1>3
  <2>2. SubSeq(q, 1, k) \o SubSeq(q, k + 1, m) = SubSeq(q, 1, m)
    BY <1>4, <2>1, ConcatAdjacentSubSeq
  <2>3. QED
    BY <1>3, <1>4, <2>2
<1>7. IsPrefix(SubSeq(q, 1, m), q)
  BY <1>2, <1>3, Beginning
<1>8. Len(shown \o Page(f, k)) = Len(shown) + Len(Page(f, k))
  BY <1>1, <1>5, ConcatProperties
<1>9. QED
  BY <1>2, <1>3, <1>6, <1>7, <1>8

LEMMA FirstPage ==
  ASSUME FeedAssumption, FeedTypeOK, NEW f
  PROVE  IsPrefix(Page(f, 0), Query(f))
<1>1. newest \in Nat /\ live \in SUBSET (1 .. newest)
  BY DEF FeedTypeOK, FeedAssumption
<1>2. PICK q \in Seq(1 .. newest) : q = Query(f) /\ Len(q) \in Nat
  BY <1>1, QueryIs
<1>3. PICK m \in 0 .. Len(q) : Page(f, 0) = SubSeq(q, 1, m)
  BY <1>1, <1>2, PageIs
<1>4. QED
  BY <1>2, <1>3, Beginning

\* When all other requests are idle, the one that is left overlaps nothing.
LEMMA OnlyOne ==
  ASSUME NEW c \in FetchId, \A d \in FetchId \ {c} : fetch'[d].at = "idle"
  PROVE  InFlight' \subseteq {c} /\ Alone'
<1>1. InFlight' \subseteq {c}
  BY DEF InFlight
<1>2. QED
  BY <1>1 DEF Alone

LEMMA RefreshStep ==
  ASSUME FeedTypeOK, NEW c \in FetchId, NEW f \in Filters, StartRefresh(c, f)
  PROVE  FeedInv'
<1>1. fetch \in [FetchId -> Gets(newest)] /\ newest \in Nat
  BY FeedAssumption DEF FeedTypeOK, Gets
<1>2. /\ StartFetch(c, TRUE, f, 0) /\ filters' = f /\ isLoading' = TRUE
      /\ calm' = (InFlight = {})
  BY DEF StartRefresh
<1>3. /\ fetch'[c].at = "list" /\ fetch'[c].replace = TRUE
      /\ fetch'[c].filters = f /\ fetch'[c].offset = 0
      /\ \A d \in FetchId \ {c} : fetch'[d] = fetch[d]
  BY <1>1, <1>2, FetchIs
<1>4. ASSUME calm' PROVE \A d \in FetchId \ {c} : fetch'[d].at = "idle"
  <2>1. InFlight = {}
    BY <1>2, <1>4
  <2>2. QED
    BY <1>3, <2>1 DEF InFlight
<1>5. calm' => InFlight' \subseteq {c} /\ Alone'
  BY <1>4, OnlyOne
<1>6. Alone' /\ FeedIsPrefix'
  BY <1>2, <1>5 DEF Alone, FeedIsPrefix
<1>7. PageToCome'
  BY <1>2, <1>3, <1>5 DEF PageToCome
<1>8. QED
  BY <1>6, <1>7 DEF FeedInv

LEMMA FetchNextStep ==
  ASSUME FeedTypeOK, FeedInv, NEW c \in FetchId, FetchNext(c)
  PROVE  FeedInv'
<1>1. fetch \in [FetchId -> Gets(newest)] /\ newest \in Nat /\ filters \in Filters /\ offset \in Nat
  BY FeedAssumption DEF FeedTypeOK, Gets
<1>2. /\ StartFetch(c, FALSE, filters, offset) /\ isLoading = FALSE
      /\ UNCHANGED <<live, shown, filters, offset, total, isLoading>>
      /\ calm' => calm /\ InFlight = {}
  BY DEF FetchNext, ListVisible, FeedTypeOK
<1>3. /\ fetch'[c].at = "list" /\ fetch'[c].replace = FALSE
      /\ fetch'[c].filters = filters /\ fetch'[c].offset = offset
      /\ \A d \in FetchId \ {c} : fetch'[d] = fetch[d]
  BY <1>1, <1>2, FetchIs
<1>4. calm' => \A d \in FetchId \ {c} : fetch'[d].at = "idle"
  BY <1>2, <1>3 DEF InFlight
<1>5. calm' => InFlight' \subseteq {c} /\ Alone'
  BY <1>4, OnlyOne
<1>6. Alone'
  BY <1>5 DEF Alone
<1>7. FeedIsPrefix'
  BY <1>2 DEF FeedInv, FeedIsPrefix, Query
<1>8. calm' => offset = Len(shown)
  BY <1>2 DEF FeedInv, FeedIsPrefix
<1>9. PageToCome'
  BY <1>2, <1>3, <1>5, <1>8 DEF PageToCome
<1>10. QED
  BY <1>6, <1>7, <1>9 DEF FeedInv

\* One of the two queries is answered.
LEMMA AnswerStep ==
  ASSUME FeedTypeOK, FeedInv, NEW c \in FetchId, ListQuery(c) \/ CountQuery(c)
  PROVE  FeedInv'
<1>1. UNCHANGED <<live, shown, filters, offset, total, isLoading, calm>>
  BY DEF ListQuery, CountQuery, client
<1>2. /\ fetch'[c].filters = fetch[c].filters /\ fetch'[c].offset = fetch[c].offset
      /\ fetch'[c].replace = fetch[c].replace /\ c \in InFlight
      /\ \A d \in FetchId \ {c} : fetch'[d] = fetch[d]
      /\ fetch'[c].at # "idle"
  BY ListQueryIs, CountQueryIs, FeedAssumption DEF InFlight
<1>3. \/ /\ fetch'[c].at = "count"
         /\ fetch'[c].items = Page(fetch[c].filters, fetch[c].offset)
      \/ /\ fetch[c].at = "count" /\ fetch'[c].items = fetch[c].items
         /\ fetch'[c].total = Len(Query(fetch[c].filters))
  BY ListQueryIs, CountQueryIs, FeedAssumption
<1>4. InFlight' = InFlight
  BY <1>2 DEF InFlight
<1>5. Alone' /\ FeedIsPrefix'
  BY <1>1, <1>4 DEF FeedInv, Alone, FeedIsPrefix, Query
<1>6. \A f, k : Query(f)' = Query(f) /\ Page(f, k)' = Page(f, k)
  BY <1>1 DEF Query, Page
<1>7. ASSUME calm, NEW d \in InFlight
      PROVE  /\ fetch'[d].replace = isLoading /\ fetch'[d].filters = filters
             /\ fetch'[d].offset = IF fetch'[d].replace THEN 0 ELSE Len(shown)
             /\ fetch'[d].at # "list" => fetch'[d].items = Page(filters, fetch'[d].offset)
             /\ fetch'[d].at = "answer" => fetch'[d].total = Len(Query(filters))
  <2>1. d = c
    BY <1>2, <1>7 DEF FeedInv, Alone
  <2>2. QED
    BY <1>2, <1>3, <1>7, <2>1 DEF FeedInv, PageToCome
<1>8. PageToCome'
  BY <1>1, <1>4, <1>7 DEF PageToCome, Query, Page
<1>9. QED
  BY <1>5, <1>8 DEF FeedInv

LEMMA ReceiveStep ==
  ASSUME FeedTypeOK, FeedInv, NEW c \in FetchId, ReceivePage(c)
  PROVE  FeedInv'
<1>1. /\ UNCHANGED <<live, filters, calm>> /\ ~isLoading' /\ total' = fetch[c].total
      /\ fetch[c].at = "answer" /\ fetch' = [fetch EXCEPT ![c] = NoFetch]
      /\ IF fetch[c].replace
         THEN shown' = fetch[c].items /\ offset' = Len(fetch[c].items)
         ELSE shown' = shown \o fetch[c].items /\ offset' = offset + Len(fetch[c].items)
  BY DEF ReceivePage
<1>2. c \in InFlight
  BY <1>1 DEF InFlight
<1>3. SUFFICES ASSUME calm PROVE FeedInv'
  BY <1>1 DEF FeedInv, Alone, FeedIsPrefix, PageToCome
<1>4. \A d \in InFlight : d = c
  BY <1>2, <1>3 DEF FeedInv, Alone
<1>5. InFlight' = {}
  BY <1>1, <1>4 DEF InFlight, FeedTypeOK, NoFetch
<1>6. /\ fetch[c].replace = isLoading /\ fetch[c].filters = filters
      /\ fetch[c].items = Page(filters, IF fetch[c].replace THEN 0 ELSE Len(shown))
      /\ fetch[c].total = Len(Query(filters))
  BY <1>1, <1>2, <1>3 DEF FeedInv, PageToCome
<1>7. IsPrefix(shown', Query(filters)) /\ offset' = Len(shown')
  <2>1. CASE fetch[c].replace
    BY <1>1, <1>6, <2>1, FirstPage, FeedAssumption
  <2>2. CASE ~fetch[c].replace
    <3>1. IsPrefix(shown, Query(filters)) /\ offset = Len(shown)
      BY <1>3, <1>6, <2>2 DEF FeedInv, FeedIsPrefix
    <3>2. fetch[c].items = Page(filters, Len(shown))
      BY <1>6, <2>2
    <3>3. QED
      BY <1>1, <2>2, <3>1, <3>2, PageContinues, FeedAssumption
  <2>3. QED
    BY <2>1, <2>2
<1>8. FeedIsPrefix'
  BY <1>1, <1>6, <1>7 DEF FeedIsPrefix, Query
<1>9. QED
  BY <1>5, <1>8 DEF FeedInv, Alone, PageToCome

LEMMA FailStep ==
  ASSUME FeedTypeOK, FeedInv, NEW c \in FetchId, FetchFails(c)
  PROVE  FeedInv'
<1>1. /\ UNCHANGED <<live, shown, filters, offset, total>> /\ c \in InFlight
      /\ calm' = (calm /\ ~fetch[c].replace) /\ fetch' = [fetch EXCEPT ![c] = NoFetch]
  BY DEF FetchFails
<1>2. SUFFICES ASSUME calm, ~fetch[c].replace PROVE FeedInv'
  BY <1>1 DEF FeedInv, Alone, FeedIsPrefix, PageToCome
<1>3. \A d \in InFlight : d = c
  BY <1>1, <1>2 DEF FeedInv, Alone
<1>4. InFlight' = {}
  BY <1>1, <1>3 DEF InFlight, FeedTypeOK, NoFetch
<1>5. ~isLoading
  BY <1>1, <1>2 DEF FeedInv, PageToCome
<1>6. FeedIsPrefix'
  BY <1>1, <1>2, <1>5 DEF FeedInv, FeedIsPrefix, Query
<1>7. QED
  BY <1>4, <1>6 DEF FeedInv, Alone, PageToCome

LEMMA FeedStep == FeedTypeOK /\ FeedInv /\ [FeedNext]_feedVars => FeedInv'
<1>. SUFFICES ASSUME FeedTypeOK, FeedInv, [FeedNext]_feedVars PROVE FeedInv'
  OBVIOUS
<1>1. ASSUME NEW c \in FetchId, Refresh(c) \/ ApplyFilters(c) PROVE FeedInv'
  BY <1>1, RefreshStep DEF Refresh, ApplyFilters, FeedTypeOK
<1>2. CASE DeleteOnServer \/ RemoveDeleted \/ Publish \/ Withdraw
  <2>1. ~calm'
    BY <1>2 DEF DeleteOnServer, RemoveDeleted, Publish, Withdraw, Change
  <2>2. QED
    BY <2>1 DEF FeedInv, Alone, FeedIsPrefix, PageToCome
<1>3. CASE DeleteAnswerLost \/ UNCHANGED feedVars
  <2>1. UNCHANGED <<live, client, fetch, calm>>
    BY <1>3 DEF DeleteAnswerLost, feedVars
  <2>2. QED
    BY <2>1 DEF client, FeedInv, Alone, FeedIsPrefix, PageToCome, InFlight, Query, Page
<1>4. QED
  BY <1>1, <1>2, <1>3, FetchNextStep, AnswerStep, ReceiveStep, FailStep DEF FeedNext

\* Pages that are fetched one after the other join without a gap or a repetition: what an
\* undisturbed list shows is the beginning of the query, whatever the size of the pages,
\* the filter and the number of listings.
THEOREM FeedJoins == FeedSpec => []FeedIsPrefix
<1>1. FeedInit => FeedInv
  <2>. SUFFICES ASSUME FeedInit PROVE FeedInv
    OBVIOUS
  <2>1. PICK c \in FetchId :
          fetch = [d \in FetchId |-> IF d = c THEN [NoFetch EXCEPT !.at = "list", !.replace = TRUE,
                                                            !.filters = filters]
                                 ELSE NoFetch]
    BY DEF FeedInit
  <2>2. /\ fetch[c].at = "list" /\ fetch[c].replace = TRUE
        /\ fetch[c].filters = filters /\ fetch[c].offset = 0
    BY <2>1 DEF NoFetch
  <2>3. InFlight \subseteq {c} /\ isLoading = TRUE
    BY <2>1 DEF InFlight, NoFetch, FeedInit
  <2>4. Alone /\ FeedIsPrefix
    BY <2>3 DEF Alone, FeedIsPrefix
  <2>5. PageToCome
    BY <2>2, <2>3 DEF PageToCome
  <2>6. QED
    BY <2>4, <2>5 DEF FeedInv
<1>2. FeedInv => FeedIsPrefix
  BY DEF FeedInv
<1>3. QED
  BY <1>1, <1>2, FeedStep, FeedTyped, PTL DEF FeedSpec

-----------------------------------------------------------------------------
(* The session and the map.                                                 *)

Calls == [kind : {"none", "map", "list"}, at : {"idle", "header", "sent"},
          region : Region \union {None}, token : Token \union {None}, latest : BOOLEAN]

AuthOK == auth \in [isLoggedIn : BOOLEAN, isLoading : BOOLEAN, isInitializing : BOOLEAN,
                    awaits : {"nothing", "token", "login"}]
StoreOK == stored \in Token \union {None} /\ wiping \in BOOLEAN /\ valid \in SUBSET Token
MapOK == map \in [camera : Region \union {None}, idle : BOOLEAN, timer : Region \union {None},
                  properties : Region \union {None}, isLoading : BOOLEAN, error : BOOLEAN]
CallOK == call \in [Call -> Calls] /\ \A c \in Call : call[c].kind = "map" => call[c].region # None

LEMMA TypeParts ==
  /\ TypeOK <=> AuthOK /\ StoreOK /\ MapOK /\ CallOK /\ upset \in BOOLEAN
  /\ TypeOK' <=> AuthOK' /\ StoreOK' /\ MapOK' /\ CallOK' /\ upset' \in BOOLEAN
BY DEF TypeOK, AuthOK, StoreOK, MapOK, CallOK, Calls

LEMMA IdleType == Idle \in Calls /\ Idle.kind = "none"
BY DEF Idle, Calls

LEMMA StartedType == Started => AuthOK /\ MapOK /\ CallOK /\ upset \in BOOLEAN
<1>. SUFFICES ASSUME Started PROVE AuthOK /\ MapOK /\ CallOK /\ upset \in BOOLEAN
  OBVIOUS
<1>1. AuthOK
  BY DEF Started, AuthState, AuthOK
<1>2. MapOK
  BY DEF Started, NewMap, MapOK
<1>3. CallOK /\ upset \in BOOLEAN
  BY IdleType DEF Started, CallOK
<1>4. QED
  BY <1>1, <1>2, <1>3

\* Ending a call keeps the others.
LEMMA EndedType ==
  ASSUME CallOK, NEW c \in Call, call' = [call EXCEPT ![c] = Idle]
  PROVE  CallOK' /\ call'[c] = Idle /\ \A d \in Call \ {c} : call'[d] = call[d]
BY IdleType DEF CallOK

LEMMA SettleType ==
  ASSUME TypeOK, NEW c \in Call, NEW properties \in Region \union {None}, NEW failed \in BOOLEAN,
         Settle(c, properties, failed)
  PROVE  MapOK' /\ CallOK' /\ upset' \in BOOLEAN
<1>1. CallOK'
  BY EndedType, TypeParts DEF Settle
<1>2. CASE c \in Asking
  BY <1>1, <1>2, TypeParts DEF Settle, MapOK
<1>3. CASE c \notin Asking
  BY <1>1, <1>3, TypeParts DEF Settle, MapOK
<1>4. QED
  BY <1>2, <1>3

LEMMA LoggedOutType == TypeOK /\ LoggedOut => AuthOK' /\ wiping' \in BOOLEAN
BY TypeParts DEF LoggedOut, AuthState, AuthOK

\* Fetch and Send give a call its region and its token.
LEMMA FetchType == ASSUME TypeOK, NEW c \in Call, Fetch(c) PROVE MapOK' /\ CallOK'
<1>. DEFINE new == [Idle EXCEPT !.kind = "map", !.at = "header", !.region = map.timer, !.latest = TRUE]
<1>1. map.timer \in Region
  BY TypeParts DEF MapOK, Fetch
<1>2. new \in Calls /\ new.kind = "map" /\ new.region = map.timer
  BY <1>1 DEF Idle, Calls
<1>3. ASSUME NEW d \in Call
      PROVE  LET x == [call[d] EXCEPT !.latest = FALSE]
             IN  x \in Calls /\ x.kind = call[d].kind /\ x.region = call[d].region
  BY TypeParts DEF CallOK, Calls
<1>4. MapOK'
  BY TypeParts DEF Fetch, MapOK
<1>5. CallOK'
  <2>1. call' = [d \in Call |-> IF d = c THEN new ELSE [call[d] EXCEPT !.latest = FALSE]]
    BY DEF Fetch
  <2>2. QED
    BY <1>1, <1>2, <1>3, <2>1, TypeParts, AppAssumption DEF CallOK
<1>6. QED
  BY <1>4, <1>5

LEMMA SendType == ASSUME TypeOK, NEW c \in Call, Send(c) PROVE CallOK'
<1>. DEFINE new == [call[c] EXCEPT !.at = "sent", !.token = stored]
<1>1. new \in Calls /\ new.kind = call[c].kind /\ new.region = call[c].region
  BY TypeParts DEF StoreOK, CallOK, Calls
<1>2. call' = [call EXCEPT ![c] = new]
  BY TypeParts DEF Send, CallOK
<1>3. QED
  BY <1>1, <1>2, TypeParts DEF CallOK

LEMMA TypeStep == TypeOK /\ [Next]_vars => TypeOK'
<1>. SUFFICES ASSUME TypeOK, [Next]_vars PROVE TypeOK'
  OBVIOUS
<1>. USE TypeParts
<1>1. CASE CheckToken \/ SubmitLogin \/ LoggedIn \/ LoginFails
  <2>1. AuthOK' /\ StoreOK'
    BY <1>1 DEF CheckToken, SubmitLogin, LoggedIn, LoginFails, AuthOK, StoreOK
  <2>2. QED
    BY <1>1, <2>1 DEF CheckToken, SubmitLogin, LoggedIn, LoginFails, MapOK, CallOK
<1>2. CASE Logout
  BY <1>2, LoggedOutType DEF Logout, StoreOK, MapOK, CallOK
<1>3. CASE Wipe \/ Expire
  BY <1>3 DEF Wipe, Expire, AuthOK, StoreOK, MapOK, CallOK
<1>4. CASE Restart
  <2>1. AuthOK' /\ MapOK' /\ StoreOK'
    BY <1>4 DEF Restart, AuthState, NewMap, AuthOK, StoreOK, MapOK
  <2>2. CallOK'
    BY <1>4, IdleType DEF Restart, CallOK
  <2>3. QED
    BY <1>4, <2>1, <2>2 DEF Restart
<1>5. CASE Move \/ LoadForBounds
  <2>1. MapOK'
    BY <1>5 DEF Move, LoadForBounds, MapOK
  <2>2. AuthOK' /\ StoreOK' /\ CallOK'
    BY <1>5 DEF Move, LoadForBounds, AuthOK, StoreOK, CallOK
  <2>3. QED
    BY <1>5, <2>1, <2>2 DEF Move, LoadForBounds
<1>6. ASSUME NEW c \in Call, Fetch(c) PROVE TypeOK'
  BY <1>6, FetchType DEF Fetch, AuthOK, StoreOK
<1>7. ASSUME NEW c \in Call, Request(c) PROVE TypeOK'
  <2>. DEFINE new == [Idle EXCEPT !.kind = "list", !.at = "header"]
  <2>1. new \in Calls /\ new.kind = "list"
    BY DEF Idle, Calls
  <2>2. CallOK'
    BY <1>7, <2>1 DEF Request, CallOK
  <2>3. QED
    BY <1>7, <2>2 DEF Request, AuthOK, StoreOK, MapOK
<1>8. ASSUME NEW c \in Call, Send(c) PROVE TypeOK'
  <2>1. CallOK'
    BY <1>8, SendType
  <2>2. QED
    BY <1>8, <2>1 DEF Send, AuthOK, StoreOK, MapOK
<1>9. ASSUME NEW c \in Call, Answered(c) PROVE TypeOK'
  <2>1. call[c].region \in Region \union {None}
    BY DEF CallOK, Calls
  <2>2. QED
    BY <1>9, <2>1, SettleType DEF Answered, AuthOK, StoreOK
<1>10. ASSUME NEW c \in Call, Rejected(c) \/ Fails(c) PROVE TypeOK'
  <2>1. map.properties \in Region \union {None}
    BY DEF MapOK
  <2>2. MapOK' /\ CallOK' /\ upset' \in BOOLEAN
    BY <1>10, <2>1, SettleType DEF Rejected, Fails
  <2>3. AuthOK' /\ StoreOK'
    BY <1>10, LoggedOutType DEF Rejected, Fails, AuthOK, StoreOK
  <2>4. QED
    BY <2>2, <2>3
<1>11. ASSUME NEW c \in Call, Unread(c) PROVE TypeOK'
  <2>1. call[c].latest \in BOOLEAN
    BY DEF CallOK, Calls
  <2>2. CallOK'
    BY <1>11, EndedType DEF Unread
  <2>3. MapOK'
    BY <1>11, <2>1 DEF Unread, MapOK
  <2>4. AuthOK' /\ StoreOK'
    BY <1>11 DEF Unread, AuthOK, StoreOK
  <2>5. QED
    BY <1>11, <2>1, <2>2, <2>3, <2>4 DEF Unread
<1>12. CASE UNCHANGED vars
  BY <1>12 DEF vars, AuthOK, StoreOK, MapOK, CallOK
<1>13. QED
  BY <1>1, <1>2, <1>3, <1>4, <1>5, <1>6, <1>7, <1>8, <1>9, <1>10, <1>11, <1>12 DEF Next

\* TypeOK, for any instance.
THEOREM AppTyped == Spec => []TypeOK
<1>1. Init => TypeOK
  BY StartedType, TypeParts DEF Init, StoreOK
<1>2. QED
  BY <1>1, TypeStep, PTL DEF Spec

-----------------------------------------------------------------------------
(* The session.                                                             *)

\* A call that waits or is sent is under way, and nobody logs in meanwhile.
LEMMA BusyMeanwhile ==
  ASSUME NothingMeanwhile, Busy # {} \/ map.timer # None \/ map.idle \/ Tabs
  PROVE  ~Login /\ auth.awaits # "token" /\ auth.awaits # "login"
BY DEF NothingMeanwhile, Tabs, Login, Splash

LEMMA UnderWay ==
  ASSUME NEW c \in Call, call[c].at \in {"header", "sent"}
  PROVE  Busy # {}
BY DEF Busy, Idle

\* A call that ends leaves the others as they are.
LEMMA EndedBusy ==
  ASSUME TypeOK, NEW c \in Call, call' = [call EXCEPT ![c] = Idle], OneSession,
         stored' = stored
  PROVE  OneSession'
<1>1. call'[c] = Idle /\ \A d \in Call \ {c} : call'[d] = call[d]
  BY EndedType, TypeParts
<1>2. call'[c].at # "sent"
  BY <1>1 DEF Idle
<1>3. QED
  BY <1>1, <1>2 DEF OneSession

\* Nobody waits for a token after a step that leaves auth, or logs out, meanwhile.
LEMMA StillNobody ==
  ASSUME ~Login, auth.awaits # "token", auth.awaits # "login", AuthOK, auth' = auth \/ LoggedOut
  PROVE  NothingMeanwhile'
<1>1. ~Login' /\ auth'.awaits # "token" /\ auth'.awaits # "login"
  BY DEF LoggedOut, AuthState, Login, Splash, AuthOK
<1>2. QED
  BY <1>1 DEF NothingMeanwhile

LEMMA SessionStep == TypeOK /\ SessionInv /\ [Next]_vars => SessionInv'
<1>. SUFFICES ASSUME TypeOK, SessionInv, [Next]_vars PROVE SessionInv'
  OBVIOUS
<1>. NothingMeanwhile /\ OneSession /\ AuthOK
  BY TypeParts DEF SessionInv
<1>1. CASE CheckToken
  <2>1. /\ auth'.awaits = "nothing" /\ call' = call /\ map' = map /\ stored' = stored
        /\ Busy = {} /\ map.timer = None /\ ~map.idle
    BY <1>1 DEF CheckToken, AuthOK, NothingMeanwhile
  <2>2. QED
    BY <2>1 DEF SessionInv, NothingMeanwhile, OneSession, Busy
<1>2. CASE SubmitLogin \/ LoginFails
  <2>1. /\ auth'.isInitializing = auth.isInitializing /\ auth'.isLoggedIn = auth.isLoggedIn
        /\ auth'.awaits \in {"nothing", "login"} /\ call' = call /\ map' = map /\ stored' = stored
    BY <1>2 DEF SubmitLogin, LoginFails, AuthOK
  <2>2. Login
    BY <1>2 DEF SubmitLogin, LoginFails, NothingMeanwhile
  <2>3. QED
    BY <2>1, <2>2 DEF SessionInv, NothingMeanwhile, OneSession, Busy, Login, Splash
<1>3. CASE LoggedIn
  <2>1. auth'.awaits = "nothing" /\ auth'.isLoggedIn /\ call' = call
    BY <1>3 DEF LoggedIn, AuthOK
  <2>2. Busy = {}
    BY <1>3 DEF LoggedIn, NothingMeanwhile
  <2>3. OneSession'
    BY <2>1, <2>2, UnderWay DEF OneSession
  <2>4. QED
    BY <2>1, <2>3 DEF SessionInv, NothingMeanwhile, Login
<1>4. CASE Logout
  BY <1>4, BusyMeanwhile, StillNobody DEF Logout, SessionInv, OneSession
<1>5. CASE Wipe \/ Expire
  BY <1>5 DEF Wipe, Expire, SessionInv, NothingMeanwhile, OneSession, Login, Splash, Busy
<1>6. CASE Restart
  <2>1. /\ auth'.awaits = "token" /\ auth'.isInitializing /\ \A c \in Call : call'[c] = Idle
        /\ map'.timer = None /\ ~map'.idle
    BY <1>6 DEF Restart, AuthState, NewMap
  <2>2. OneSession'
    BY <2>1 DEF OneSession, Idle
  <2>3. QED
    BY <2>1, <2>2 DEF SessionInv, NothingMeanwhile, Busy, Login, Splash
<1>7. CASE Move \/ LoadForBounds
  BY <1>7, BusyMeanwhile, StillNobody DEF Move, LoadForBounds, SessionInv, OneSession
<1>8. ASSUME NEW c \in Call, Fetch(c) PROVE SessionInv'
  <2>1. \A d \in Call : call'[d].at = "sent" => call[d].at = "sent" /\ call'[d].token = call[d].token
    BY <1>8, TypeParts DEF Fetch, Idle, CallOK, Calls
  <2>2. stored' = stored /\ auth' = auth
    BY <1>8 DEF Fetch
  <2>3. OneSession'
    BY <2>1, <2>2 DEF OneSession
  <2>4. QED
    BY <1>8, <2>2, <2>3, BusyMeanwhile, StillNobody DEF Fetch, SessionInv
<1>9. ASSUME NEW c \in Call, Request(c) PROVE SessionInv'
  <2>1. \A d \in Call : call'[d].at = "sent" => call'[d] = call[d]
    BY <1>9, TypeParts DEF Request, Idle, CallOK, Calls
  <2>2. QED
    BY <1>9, <2>1, BusyMeanwhile, StillNobody DEF Request, SessionInv, OneSession
<1>10. ASSUME NEW c \in Call, Send(c) PROVE SessionInv'
  <2>1. call'[c].token = stored /\ \A d \in Call \ {c} : call'[d] = call[d]
    BY <1>10, TypeParts DEF Send, CallOK, Calls
  <2>2. QED
    BY <1>10, <2>1, UnderWay, BusyMeanwhile, StillNobody DEF Send, SessionInv, OneSession
<1>11. ASSUME NEW c \in Call, Answered(c) \/ Rejected(c) \/ Fails(c) \/ Unread(c) PROVE SessionInv'
  <2>1. /\ call' = [call EXCEPT ![c] = Idle] /\ stored' = stored
        /\ call[c].at = "sent" /\ (auth' = auth \/ LoggedOut)
    BY <1>11 DEF Answered, Rejected, Fails, Unread, Settle
  <2>2. QED
    BY <2>1, EndedBusy, UnderWay, BusyMeanwhile, StillNobody DEF SessionInv
<1>12. CASE UNCHANGED vars
  BY <1>12 DEF vars, SessionInv, NothingMeanwhile, OneSession, Login, Splash, Busy
<1>13. QED
  BY <1>1, <1>2, <1>3, <1>4, <1>5, <1>6, <1>7, <1>8, <1>9, <1>10, <1>11, <1>12 DEF Next

LEMMA SessionInvariant == Spec => []SessionInv
<1>1. Init => SessionInv
  <2>. SUFFICES ASSUME Init PROVE SessionInv
    OBVIOUS
  <2>1. /\ auth.awaits = "token" /\ auth.isInitializing /\ \A c \in Call : call[c] = Idle
        /\ map.timer = None /\ ~map.idle
    BY DEF Init, Started, AuthState, NewMap
  <2>2. OneSession
    BY <2>1 DEF OneSession, Idle
  <2>3. QED
    BY <2>1, <2>2 DEF SessionInv, NothingMeanwhile, Busy, Login, Splash
<1>2. QED
  BY <1>1, SessionStep, AppTyped, PTL DEF Spec

\* However many requests, tokens and restarts there are: a token that was obtained by a
\* later login is not the one that an older request's 401 takes away.
THEOREM OneSessionAtATime == Spec => []OneSession
BY SessionInvariant, PTL DEF SessionInv

-----------------------------------------------------------------------------
(* The map.                                                                 *)

\* The call that ends was the latest one, or some other one, or there was none.
LEMMA EndedLatest ==
  ASSUME TypeOK, MapInv, NEW c \in Call, call' = [call EXCEPT ![c] = Idle]
  PROVE  /\ Latest' = Latest \ {c} /\ Latest' \subseteq Asking'
         /\ \A d, e \in Latest' : d = e /\ call'[d].region = call[d].region
         /\ c \in Latest => Latest' = {}
<1>1. call'[c] = Idle /\ \A d \in Call \ {c} : call'[d] = call[d]
  BY EndedType, TypeParts
<1>2. ~call'[c].latest
  BY <1>1 DEF Idle
<1>3. Latest' = Latest \ {c}
  BY <1>1, <1>2 DEF Latest
<1>4. QED
  BY <1>1, <1>3 DEF MapInv, Latest, Asking

LEMMA MapStep == TypeOK /\ MapInv /\ [Next]_vars => MapInv'
<1>. SUFFICES ASSUME TypeOK, MapInv, [Next]_vars PROVE MapInv'
  OBVIOUS
<1>. MapOK /\ CallOK
  BY TypeParts
<1>1. CASE map' = map /\ call' = call /\ upset' = upset
  BY <1>1 DEF MapInv, Latest, Asking
<1>2. CASE Restart
  <2>1. \A c \in Call : ~call'[c].latest
    BY <1>2 DEF Restart, Idle
  <2>2. map'.camera = None /\ map'.timer = None /\ ~map'.idle
    BY <1>2 DEF Restart, NewMap
  <2>3. QED
    BY <2>1, <2>2 DEF MapInv, Latest
<1>3. CASE Move
  <2>1. map'.idle /\ map'.camera # None /\ call' = call
    BY <1>3, AppAssumption DEF Move, MapOK
  <2>2. QED
    BY <2>1 DEF MapInv, Latest, Asking
<1>4. CASE LoadForBounds
  <2>1. ~map'.idle /\ map'.camera = map.camera /\ map'.timer = map.camera /\ map.camera # None
        /\ call' = call
    BY <1>4 DEF LoadForBounds, MapInv, MapOK
  <2>2. QED
    BY <2>1 DEF MapInv, Latest, Asking
<1>5. ASSUME NEW c \in Call, Fetch(c) PROVE MapInv'
  <2>1. /\ call'[c].latest /\ call'[c].kind = "map" /\ call'[c].region = map.timer
        /\ \A d \in Call \ {c} : ~call'[d].latest
    BY <1>5 DEF Fetch, Idle, CallOK, Calls
  <2>2. Latest' = {c} /\ c \in Asking'
    BY <2>1 DEF Latest, Asking
  <2>3. map'.idle = map.idle /\ map'.camera = map.camera /\ map'.timer = None /\ map.timer # None
    BY <1>5 DEF Fetch, MapOK
  <2>4. QED
    BY <2>1, <2>2, <2>3 DEF MapInv
<1>6. ASSUME NEW c \in Call, Request(c) PROVE MapInv'
  <2>1. ~call'[c].latest /\ ~call[c].latest /\ \A d \in Call \ {c} : call'[d] = call[d]
    BY <1>6 DEF Request, Idle, CallOK, Calls
  <2>2. map' = map /\ upset' = upset
    BY <1>6 DEF Request
  <2>3. QED
    BY <2>1, <2>2 DEF MapInv, Latest, Asking
<1>7. ASSUME NEW c \in Call, Send(c) PROVE MapInv'
  <2>1. \A d \in Call : call'[d].latest = call[d].latest /\ call'[d].region = call[d].region
                        /\ call'[d].kind = call[d].kind
    BY <1>7 DEF Send, CallOK, Calls
  <2>2. map' = map /\ upset' = upset
    BY <1>7 DEF Send
  <2>3. QED
    BY <2>1, <2>2 DEF MapInv, Latest, Asking
<1>8. ASSUME NEW c \in Call, NEW properties, NEW failed \in BOOLEAN, Settle(c, properties, failed),
             failed \/ properties = call[c].region
      PROVE  MapInv'
  <2>1. /\ Latest' = Latest \ {c} /\ Latest' \subseteq Asking'
        /\ \A d, e \in Latest' : d = e /\ call'[d].region = call[d].region
        /\ c \in Latest => Latest' = {}
    BY <1>8, EndedLatest DEF Settle
  <2>2. CASE c \notin Asking
    <3>1. map' = map /\ upset' = upset /\ c \notin Latest
      BY <1>8, <2>2 DEF Settle, MapInv
    <3>2. QED
      BY <2>1, <3>1 DEF MapInv
  <2>3. CASE c \in Asking
    <3>1. /\ map'.camera = map.camera /\ map'.timer = map.timer /\ map'.idle = map.idle
          /\ ~map'.isLoading /\ map'.error = failed /\ map'.properties = properties
          /\ upset' = (upset \/ \A d \in Asking : ~call[d].latest)
      BY <1>8, <2>3 DEF Settle, MapOK
    <3>2. CASE c \in Latest
      BY <1>8, <2>1, <3>1, <3>2 DEF MapInv
    <3>3. CASE c \notin Latest /\ Latest # {}
      BY <2>1, <3>1, <3>3 DEF MapInv
    <3>4. CASE Latest = {}
      <4>1. upset'
        BY <3>1, <3>4 DEF Latest, Asking
      <4>2. QED
        BY <2>1, <3>1, <3>4, <4>1 DEF MapInv
    <3>5. QED
      BY <3>2, <3>3, <3>4
  <2>4. QED
    BY <2>2, <2>3
<1>9. ASSUME NEW c \in Call, Answered(c) \/ Rejected(c) \/ Fails(c) PROVE MapInv'
  BY <1>8, <1>9 DEF Answered, Rejected, Fails
<1>10. ASSUME NEW c \in Call, Unread(c) PROVE MapInv'
  <2>1. /\ Latest' = Latest \ {c} /\ Latest' \subseteq Asking'
        /\ \A d, e \in Latest' : d = e /\ call'[d].region = call[d].region
    BY <1>10, EndedLatest DEF Unread
  <2>2. map' = map /\ upset' = (upset \/ call[c].latest)
    BY <1>10 DEF Unread
  <2>3. c \in Latest => upset'
    BY <2>2 DEF Latest
  <2>4. QED
    BY <2>1, <2>2, <2>3 DEF MapInv
<1>11. CheckToken \/ SubmitLogin \/ LoggedIn \/ LoginFails \/ Logout \/ Wipe \/ Expire \/ UNCHANGED vars
         => map' = map /\ call' = call /\ upset' = upset
  BY DEF CheckToken, SubmitLogin, LoggedIn, LoginFails, Logout, Wipe, Expire, vars
<1>12. QED
  BY <1>1, <1>2, <1>3, <1>4, <1>5, <1>6, <1>7, <1>9, <1>10, <1>11 DEF Next

\* Wherever the camera goes and in whatever order the answers come, the map settles on the
\* region that is visible, if the answer to the last question came last and was readable.
THEOREM MapSettled == Spec => []MapSettles
<1>1. Init => MapInv
  BY DEF Init, Started, NewMap, Idle, MapInv, Latest, Asking
<1>2. TypeOK /\ MapInv => MapSettles
  BY DEF MapInv, MapSettles
<1>3. QED
  BY <1>1, <1>2, MapStep, AppTyped, PTL DEF Spec
=============================================================================
