----------------------------- MODULE ListingFeed -----------------------------
(***************************************************************************)
(* The list of properties in the app and the pages it is loaded by:         *)
(* PropertyListNotifier in property_list_provider.dart, the gestures of     *)
(* property_list_screen.dart that call it, and PropertyService.List, which  *)
(* answers in two queries: the page, then the count.                        *)
(*                                                                         *)
(* The notifier's methods suspend at their one await: every page is on its  *)
(* way while the user goes on and while other users publish and withdraw    *)
(* listings, and the answers arrive in any order.  A method that resumes    *)
(* reads the state as it then is.                                           *)
(***************************************************************************)
EXTENDS Naturals, SequencesExt

CONSTANTS
  MaxListing,  \* listings are numbered 1 .. MaxListing by created_at
  Filters,     \* the values of the filter sheet
  Admits(_),   \* Admits(f): the listings that filter f lets through
  NoFilter,    \* the one that lets everything through
  PageSize,    \* limit (20 in the code)
  FetchId,     \* identities of GET requests on their way; bounds their number
  MaxChanges   \* bound on listings that come or go

ASSUME FeedAssumption ==
  /\ MaxListing \in Nat
  /\ PageSize \in Nat \ {0}
  /\ NoFilter \in Filters
  /\ MaxChanges \in Nat
  /\ \A f \in Filters : Admits(f) \subseteq 1 .. MaxListing

VARIABLES
  newest,         \* the number of the newest listing ever created
  live,           \* the listings not deleted
  shown,          \* state.properties
  filters, offset, total, isLoading, isLoadingMore,   \* the fields of PropertyListState
  error,          \* state.error is not null
  fetch,          \* fetch[c]: a _fetch suspended at its await, and how far the API has got
  deleting,       \* the listing whose DELETE succeeded, its answer on the way, or 0
  calm,           \* nothing has disturbed the list since the last refresh (history)
  changes         \* how many listings have come or gone (bounds the model)

client == <<shown, filters, offset, total, isLoading, isLoadingMore, error>>
feedVars == <<newest, live, client, fetch, deleting, calm, changes>>

NoFetch == [at |-> "idle", replace |-> FALSE, filters |-> "none", offset |-> 0, items |-> <<>>, total |-> 0]

FeedTypeOK ==
  /\ newest \in 0 .. MaxListing /\ live \in SUBSET (1 .. newest)
  /\ shown \in Seq(1 .. newest)
  /\ filters \in Filters /\ offset \in Nat /\ total \in Nat
  /\ isLoading \in BOOLEAN /\ isLoadingMore \in BOOLEAN /\ error \in BOOLEAN
  /\ fetch \in [FetchId -> [at : {"idle", "list", "count", "answer"}, replace : BOOLEAN,
                            filters : Filters \union {"none"}, offset : Nat,
                            items : Seq(1 .. newest), total : Nat]]
  /\ deleting \in 0 .. newest /\ calm \in BOOLEAN /\ changes \in 0 .. MaxChanges

InFlight == {c \in FetchId : fetch[c].at # "idle"}

\* The members of a finite set of numbers from the largest to the smallest: the n-th
\* is the one that n - 1 are larger than.
Descending(S) ==
  [n \in 1 .. Cardinality(S) |-> CHOOSE x \in S : Cardinality({y \in S : y > x}) = n - 1]

\* The rows a filter lets through, ORDER BY created_at DESC.
Query(f) == Descending(live \intersect Admits(f))

Page(f, from) == SubSeq(Query(f), from + 1, Min({from + PageSize, Len(Query(f))}))

\* _fetch up to its await, with the parameters it reads from the state.
StartFetch(c, replace, f, from) ==
  /\ fetch[c].at = "idle"
  /\ fetch' = [fetch EXCEPT ![c] =
                  [NoFetch EXCEPT !.at = "list", !.replace = replace, !.filters = f, !.offset = from]]

\* The list without listing p: where(...).toList() keeps the order.
Without(p) ==
  LET kept == Reverse(Descending({i \in DOMAIN shown : shown[i] # p}))
  IN  [n \in DOMAIN kept |-> shown[kept[n]]]

hasMore == offset + Len(shown) < total

\* The screen has just opened and called refresh.
FeedInit ==
  /\ newest \in 0 .. MaxListing /\ live \in SUBSET (1 .. newest)
  /\ shown = <<>> /\ offset = 0 /\ total = 0
  /\ filters = NoFilter
  /\ isLoading = TRUE /\ isLoadingMore = FALSE /\ error = FALSE
  /\ \E c \in FetchId :
       fetch = [d \in FetchId |->
                  IF d = c THEN [NoFetch EXCEPT !.at = "list", !.replace = TRUE, !.filters = filters]
                  ELSE NoFetch]
  /\ deleting = 0 /\ calm = TRUE /\ changes = 0

-----------------------------------------------------------------------------
(* The user's gestures.                                                     *)

\* A listing comes or goes: pages shift under the list.
Change == changes < MaxChanges /\ changes' = changes + 1 /\ calm' = FALSE

\* The body shows the list, which can be scrolled and pulled.
ListVisible == ~isLoading /\ shown # <<>>

StartRefresh(c, f) ==
  /\ StartFetch(c, TRUE, f, 0)
  /\ filters' = f /\ offset' = 0 /\ isLoading' = TRUE /\ error' = FALSE
  /\ calm' = (InFlight = {})
  /\ UNCHANGED <<newest, live, shown, total, isLoadingMore, deleting, changes>>

\* Pulled down, or Retry was pressed.
Refresh(c) ==
  /\ ListVisible \/ (~isLoading /\ error)
  /\ StartRefresh(c, filters)

ApplyFilters(c) == \E f \in Filters : StartRefresh(c, f)

FetchNext(c) ==
  /\ ListVisible
  /\ ~isLoadingMore /\ hasMore
  /\ StartFetch(c, FALSE, filters, offset)
  /\ isLoadingMore' = TRUE /\ error' = FALSE
  /\ calm' = (calm /\ InFlight = {})
  /\ UNCHANGED <<newest, live, shown, filters, offset, total, isLoading, deleting, changes>>

\* deleteProperty, from the list or a detail screen: the DELETE takes effect ...
DeleteOnServer ==
  /\ deleting = 0
  /\ \E p \in ToSet(shown) \intersect live :
       live' = live \ {p} /\ deleting' = p
  /\ Change
  /\ UNCHANGED <<newest, client, fetch>>

\* Mutant: the total is decremented whatever it is.
TotalUnclamped ==
  /\ deleting # 0
  /\ deleting' = 0 /\ calm' = FALSE
  /\ shown' = Without(deleting)
  /\ total' = total + (0 - 1)
  /\ error' = FALSE
  /\ UNCHANGED <<newest, live, filters, offset, isLoading, isLoadingMore, fetch, changes>>

\* ... and is answered; the offset stays.
RemoveDeleted ==
  /\ deleting # 0
  /\ deleting' = 0 /\ calm' = FALSE
  /\ shown' = Without(deleting)
  /\ total' = IF total > 0 THEN total - 1 ELSE 0
  /\ error' = FALSE
  /\ UNCHANGED <<newest, live, filters, offset, isLoading, isLoadingMore, fetch, changes>>

\* The answer is lost: deleteProperty throws.
DeleteAnswerLost ==
  /\ deleting # 0
  /\ deleting' = 0
  /\ UNCHANGED <<newest, live, client, fetch, calm, changes>>

-----------------------------------------------------------------------------
(* The API and the other users.                                             *)

ListQuery(c) ==
  /\ fetch[c].at = "list"
  /\ fetch' = [fetch EXCEPT ![c].at = "count", ![c].items = Page(fetch[c].filters, fetch[c].offset)]
  /\ UNCHANGED <<newest, live, client, deleting, calm, changes>>

CountQuery(c) ==
  /\ fetch[c].at = "count"
  /\ fetch' = [fetch EXCEPT ![c].at = "answer", ![c].total = Len(Query(fetch[c].filters))]
  /\ UNCHANGED <<newest, live, client, deleting, calm, changes>>

Publish ==
  /\ newest < MaxListing
  /\ newest' = newest + 1 /\ live' = live \union {newest + 1}
  /\ Change
  /\ UNCHANGED <<client, fetch, deleting>>

Withdraw ==
  /\ \E p \in live : live' = live \ {p}
  /\ Change
  /\ UNCHANGED <<newest, client, fetch, deleting>>

-----------------------------------------------------------------------------
(* _fetch resumes.                                                          *)

\* Mutant: the next page starts a whole page further, however short this one was.
ReceiveFullPage(c) ==
  LET page == fetch[c]
  IN  /\ page.at = "answer"
      /\ shown' = IF page.replace THEN page.items ELSE shown \o page.items
      /\ offset' = IF page.replace THEN PageSize ELSE offset + PageSize
      /\ total' = page.total
      /\ isLoading' = FALSE /\ isLoadingMore' = FALSE /\ error' = FALSE
      /\ fetch' = [fetch EXCEPT ![c] = NoFetch]
      /\ UNCHANGED <<newest, live, filters, deleting, calm, changes>>

ReceivePage(c) ==
  LET page == fetch[c]
  IN  /\ page.at = "answer"
      /\ shown' = IF page.replace THEN page.items ELSE shown \o page.items
      /\ offset' = IF page.replace THEN Len(page.items) ELSE offset + Len(page.items)
      /\ total' = page.total
      /\ isLoading' = FALSE /\ isLoadingMore' = FALSE /\ error' = FALSE
      /\ fetch' = [fetch EXCEPT ![c] = NoFetch]
      /\ UNCHANGED <<newest, live, filters, deleting, calm, changes>>

\* Mutant: the error path forgets the spinner.
FailWithSpinner(c) ==
  /\ c \in InFlight
  /\ isLoadingMore' = FALSE /\ error' = TRUE
  /\ calm' = (calm /\ ~fetch[c].replace)
  /\ fetch' = [fetch EXCEPT ![c] = NoFetch]
  /\ UNCHANGED <<newest, live, shown, filters, offset, total, isLoading, deleting, changes>>

\* Any failure, dio's timeouts included: what was shown remains, so does an offset
\* that refresh has set to 0.
FetchFails(c) ==
  /\ c \in InFlight
  /\ isLoading' = FALSE /\ isLoadingMore' = FALSE /\ error' = TRUE
  /\ calm' = (calm /\ ~fetch[c].replace)
  /\ fetch' = [fetch EXCEPT ![c] = NoFetch]
  /\ UNCHANGED <<newest, live, shown, filters, offset, total, deleting, changes>>

-----------------------------------------------------------------------------
FeedNext ==
  \/ \E c \in FetchId :
       \/ Refresh(c) \/ ApplyFilters(c) \/ FetchNext(c)
       \/ ListQuery(c) \/ CountQuery(c) \/ ReceivePage(c) \/ FetchFails(c)
  \/ DeleteOnServer \/ RemoveDeleted \/ DeleteAnswerLost
  \/ Publish \/ Withdraw

FeedSpec == FeedInit /\ [][FeedNext]_feedVars

\* dio's timeouts end every request, with an answer or with an error; nothing is
\* assumed of the users.
FairFeedSpec ==
  /\ FeedSpec
  /\ \A c \in FetchId :
       WF_feedVars(ListQuery(c) \/ CountQuery(c) \/ ReceivePage(c) \/ FetchFails(c))

-----------------------------------------------------------------------------
(* Properties.                                                              *)

\* As long as requests do not overlap, no refresh fails and no listing comes or
\* goes, scrolling continues the list without a gap or a repetition: what is shown is
\* the beginning of the query, the offset its length and the total that of the query.
FeedIsPrefix ==
  calm /\ ~isLoading =>
    /\ IsPrefix(shown, Query(filters))
    /\ offset = Len(shown)
    /\ total = Len(Query(filters))

\* No spinner turns for ever: whatever requests overtake each other or fail, both
\* loading flags are cleared in the end.
SpinnersStop == (isLoading ~> ~isLoading) /\ (isLoadingMore ~> ~isLoadingMore)

\* The screen's "Infinite scroll" loads more as long as there is more: the list is
\* at its end only when it shows every listing.
ScrollReachesTheEnd ==
  calm /\ InFlight = {} /\ ~error /\ ~hasMore => Len(shown) = Len(Query(filters))

-----------------------------------------------------------------------------
(* The inductive invariant behind FeedIsPrefix.                             *)

\* Nothing overlaps in an undisturbed list.
Alone == calm => \A c, d \in InFlight : c = d

\* The page under way is the first one, which the spinner of the whole list announces,
\* or continues what is shown; what the API has answered so far still holds.
PageToCome ==
  calm => \A c \in InFlight :
    LET page == fetch[c]
    IN  /\ page.replace = isLoading
        /\ page.filters = filters
        /\ page.offset = IF page.replace THEN 0 ELSE Len(shown)
        /\ page.at # "list" => page.items = Page(filters, page.offset)
        /\ page.at = "answer" => page.total = Len(Query(filters))

FeedInv == Alone /\ FeedIsPrefix /\ PageToCome
=============================================================================
