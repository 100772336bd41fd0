# Realstate_allan: specification and verification

TLA+ modules for the real-estate listing system: a Go backend (an API process and
a worker process that share Postgres and a Redis task queue) and a Flutter app.
The modules are translated from the code under `src/`; every definition that
stands for code is listed with its lines in `PROJECT.json` ("map").

To check: `tlc -workers 2 -config <X>.cfg <MC module>` for a run,
`tlapm <Module>_proofs.tla` for the proofs.

## 1. Inventory

| Component | State | Operations | What is hard about it |
|---|---|---|---|
| **Worker** (`worker/dispatcher.go`, `client.go`, `server.go`, `cmd/worker`) | `notification_jobs`; asynq queues in Redis; messages sent through Twilio | `HandleStale`, `HandleWhatsApp`, `HandleSMS`, `HandleOCR`; enqueueing; shutdown | at-least-once delivery: every retry, crash or shutdown repeats calls that already happened; two channels write one row |
| **Stale scan** (`handlers/notifications.go`, `services/stale.go`) | none of its own | `TriggerStaleScan` (query, then one enqueue per listing) | stops half-way, is repeated |
| **Listings** (`services/properties.go`, `handlers/properties.go`) | `properties` | `Create`, `Patch`, soft `Delete`, `List`, `Get`, `Nearby` | ownership check, UPDATE and re-read are three statements; page and count are two; PATCH checks nothing that POST checks |
| **Photos** (`services/photos.go`, `handlers/photos.go`) | `property_photos` | `Presign`, `Confirm`, `Delete` | ownership query before the statement it guards |
| **OCR** (`services/ocr.go`, `handlers/ocr.go`, `HandleOCR`) | `ocr_results` | `ScanPhoto`, `GetResult`, the audit task | a result is written seconds after the photo was looked up, best-effort, and again by the worker |
| **Authentication** (`services/auth.go`, `services/token.go`, `handlers/auth.go`, `middleware/auth.go`) | `users`, `refresh_tokens`; JWT blacklist in Redis; the client's cookie | `Register`, `Login`, Google callback, `Refresh`, `Logout`, the middleware | rotation without a lock, each handler several calls to two stores |
| **Rate limiter** (`middleware/ratelimit.go`) | a sorted set per key in Redis | `checkLimit` | four commands others interleave with |
| **Commission calculator** (`services/calculator.go`, `handlers/tools.go`, `calculator_provider.dart`) | the page: fields, result, error, debounce timer | the setters, `calculate` | separate roundings; answers that overtake each other |
| **Share texts, tags, users** | read only | | formatting |
| **App: list of properties** (`property_list_provider.dart`, `property_list_screen.dart`) | loaded pages, offset, total, flags | `refresh`, `fetchNext`, `applyFilters`, `deleteProperty` | methods resume in a state others have changed |
| **App: listing wizard** (`property_form_provider.dart`, `add_property_screen.dart`) | the form, its photos, `createdPropertyId`; outlives the screen | `loadForEdit`, `createProperty`, `uploadPhoto`, `removePhoto`, `submit`, `reset` | not awaited, addressed by index, ends after the screen; every edit sends every field |
| **App: map, login** (`map_provider.dart`, `auth_provider.dart`, `dio_client.dart`, `main.dart`) | `MapState`, camera, timer; `AuthState`, the stored token | `loadForBounds`, `_fetch`; `_checkToken`, `login`, `logout`, the interceptor | the last answer wins, not the last question; a 401 deletes whatever token is stored by then |
| Start-up, configuration, schema, deployment | | | wiring |

How they interact. The app calls the API over HTTP (dio, with time limits); the API
and the worker share Postgres and hand tasks over through asynq in Redis; the
worker calls Twilio; the API calls Vision and signs URLs with which the app writes
to the bucket itself. There is one goroutine per request and per task, no
transaction spans two statements, and there are no locks: everything that is right is
right because of the order of single statements. The modules therefore split
every handler at each call that leaves the process, and every Dart method at its awaits.

What makes each component correct is stated as properties in its module (section 4);
every hazard that was found is listed with its line in `PROJECT.json` ("hazards"),
with the properties that watch it, or the reason none does.

## 2. Modules

| Module | Models | Composes |
|---|---|---|
| `TaskQueue` | what the handlers see of asynq (external): at-least-once delivery, `MaxRetry`, crash, shutdown | |
| `JobLedger` | abstract specification: what `notification_jobs` promises its readers | |
| `StaleReminder` | scan, reminder task, message tasks, worker crashes and shutdowns | EXTENDS `TaskQueue`, implements `JobLedger` |
| `ListingStore` | listings, photos, OCR results, and the audit task | EXTENDS `TaskQueue` |
| `ListingFeed` | the app's list against `PropertyService.List` | |
| `Sessions` | sign-ins, refresh-token rotation, blacklist, logout, and clients with cookie jars | |
| `ListingForm` | the wizard's form, its screen and its coroutines against the API: which listing is written | |
| `ListingEdit` | the fields of one listing, from the row to the form and its pages and back: what is written | |
| `AppMap` | the app's token, what it shows for it, and the map | |
| `RateLimit` | one key of the rate limiter, command by command | |
| `Calculator` | the commission on the server, and the page that asks for it | |
| `MC*` | instances of these for TLC | |
| `*_proofs` | theorems, for every value of the constants | |

**State and actions.** A table is a function from ids to rows, "none" where there is no row; a
request or task has a place (`at`, `pc`) that names the call it makes next, and the
parameters and answers it still needs. An action is one call with the code up to
the next. A call that fails is an action of its own (`...Fails`), and where a failed
call may have taken effect nevertheless (the answer was lost) both outcomes are
there. Data is kept only where a property tells it apart: message texts, prices, ids
in URLs and JSON are abstracted. Variables marked "(history)" record what happened
for the sake of a property; no guard reads them. Every model is finite by
its sets of ids and by bounds on what may go wrong (`MaxMishaps`, `MaxErrors`), on what users and others do (`MaxChanges`, `MaxEvents`)
and on the clock (`MaxTime`).

*`TaskQueue`.* asynq is not part of `src/`; it is modelled by what the handlers depend on. Back-off
and waiting are one state, "queued": a task may be taken at any later time.

*`StaleReminder`.* `stale[t]` is a reminder task, `jobID[t]` the local variable of its handler, `job`
the table, `msg[<<j, c>>]` the message task of row `j` on channel `c`. `Crash` and
`Shutdown` (`srv.Shutdown`, which puts tasks back without counting a retry) stop all
handlers at once. A message task survives the row's writer.

*`ListingStore`.* `req[r]` is a request of any kind with the place of its handler; deleting a photo
removes its result (ON DELETE CASCADE); inserts meet the foreign keys. Who calls is
chosen freely (`Caller`), because admins skip the ownership query.

*`ListingFeed`.* `fetch[c]` is a `_fetch` suspended at its await, and how far the server has got with
it (page query, count query, answer). Other users publish and withdraw listings.

*`Sessions`.* A `Token` id stands for a pair, refresh token and JWT. `token[k].root` is the sign-in
a row goes back to. Clients send any number of requests at a time from one cookie
jar; answers arrive in any order or not at all. The JWT's expiry is checked on
arrival, the blacklist at the next step, with time passing in between.

*`ListingForm`.* `call[c]` is a coroutine of `createProperty`, `uploadPhoto` or `submit`, at the await
where it is suspended; `Finish` is what `submit` does after an upload: go on with
the next photo, or end, in which case its continuation closes the screen if the
page is still there. The fields are abstracted to whether `submit` accepts them; the six
pages to four.

*`ListingEdit`.* `row` is the listing as the table has it, `phone` the screen, the form and one call. `text` is what the
controllers of the page hold: they are filled from the form once, when the page comes up, the details page also follows every
change of the form (`Sync`), and *Next* stores them (`Store`). A page that Flutter kept alive comes up as it was
left, which amounts to typing that again. The five fields stand for those of the form: `contact` is the owner's contact (the
name is treated alike, but the details page does not follow it), `price` the required amount, `area` the plot or built-up
area, `place` latitude and longitude, `tags` those that are chosen, not typed, and always sent; the description is left out.
`Shown`, `Inserted` and `Patched` are the conversions: `ScrubForRole` and `toStringAsFixed(0)`,
`double.tryParse` with POST's validation and defaults, and the same with `buildSetClauses`. Amounts are tenths of a paisa, one digit
more than NUMERIC(15,2) keeps; what the column makes of them is `Rounded`. The load is three steps: it is asked for, the server
reads the row (`ServeGet`), the phone gets the answer (`Loaded`). Here there is one listing and one
call at a time; overlapping ones are `ListingForm`'s. `Complete` and the `valid` of `ListingForm` are the same
check. The phone's user has one role throughout: after a logout the app stays on the splash until it is started again,
which empties the form. A request that reaches the server after the phone gave it up is not modelled.

*`AppMap`.* `auth` is the `AuthState`, with what its notifier awaits. `Splash`, `Login` and `Tabs` are what `main.dart` shows for it. `stored` is
the token in the secure storage; a deletion is asked for and not awaited (`wiping`), and an app that is killed before
never asks. `call[c]` is a request, of the map or (the `list` kind) of a client that was given `onUnauthorized`; it reads
the token, and is sent, and a 401 deletes the token. All clients share the token, not the callback: a 401 to the map leaves the
tabs on screen with no token. A region stands for the markers in it.

*`RateLimit`.* One key, that is, one client of one route group. `req[r]` is the check of one request and
names the next command of its pipeline. The file's header says MULTI/EXEC, but `rdb.Pipeline()` is a plain
pipeline, so the commands of others come in between, time passes, and the key of an earlier request may expire; go-redis sends them in
order. A check lasts as long as it takes. Time is in ticks, which stand for nanoseconds where requests are told apart (the member of the set is the
time); scores, which the code rounds to doubles (about 256 ns apart), are exact. An error after some of the commands lets the request through.

*`Calculator`.* Amounts are paise and rates tenths of a percent, so that every double of the code is a fraction of
naturals; a result is any of the nearest paise, where the code's double may fall on either side of a tie (amounts up to
2^53 paise). The answer is computed from the fields as they were sent; `shown` is what `copyWith` leaves.

## 3. Runs

| Run | Question | Bounds |
|---|---|---|
| `stale_safety` | Do rows, messages and Twilio agree, are duplicates bounded, and is the table a `JobLedger`, with any two failures? | 1 scan, 1 listing, 2 rows, MaxRetry 1, both channels, 2 mishaps |
| `stale_liveness` | Is every task finished, do retries mask failures, and what do rows say in the end? | the same with 3 rows and one worker goroutine; more mishaps than retries |
| `listing` | Do photos and results stay consistent, is no text lost to the worker, does an answered scan leave a result? | 2 requests of any kind, 1 photo, 2 listings, MaxRetry 1, 3 mishaps |
| `feed` | Is the undisturbed list a prefix of the query, does every spinner stop? | 3 listings, 2 filters, page of 1, 2 requests at a time, 1 change |
| `feed_end` | *violated*: does the list end where the listings end? | the same |
| `sessions_tokens` | Is rotation safe against interleavings and failures? | 1 account, 2 clients, 2 requests at a time, 3 pairs, 1 mishap, no clock |
| `sessions_clock` | Does the blacklist hold while time passes? | 1 client, 1 pair, AccessTTL 2, 4 ticks |
| `form_wizard` | Where does the wizard write, what do its marks mean, does its button come back? | 2 listings, 2 photos, 2 coroutines, 1 load at a time, 1 mishap |
| `edit` | Does an edit change what was typed and nothing else, does a row keep its owner and price, does a broker write back an owner he was not shown? | 1 listing, prices 0.004 and 0.604, area 0.404, 2 sets of tags, 3 events (openings, texts typed over, saves and deletes elsewhere, lost calls) |
| `app` | Does a 401 ever cost a later session its token, and does the map settle? | 2 tokens, 2 regions, 3 requests at a time, any number of restarts |
| `rate_limit` | How many requests does a window admit, and is a refusal justified? | limit 2, window 3, 4 ticks, 2 requests at a time, 1 failure of Redis |
| `calculator` | Do the shares add up, and does the page show what its fields say? | 3 amounts, 2 rates, 6 splits, 5 changes, 2 calculations at a time |

*Why the bounds are enough for the cases they are meant for.* Rows and tasks of
different reminders never meet, since a row id is new at each INSERT, so one listing with two rows covers a retry
against its first attempt; `MaxRetry` 1 with two mishaps reaches a retry, an archived
task, and a crash after a lost answer; with three, in `listing`, a scan that could not store its result and whose audit task is archived after
two crashes. Two requests, each of any kind, let a scan overlap a delete or a second scan, and since its audit task may run at any later time, the
photo may be deleted, or scanned again, before that; a
deleted and an unknown listing are both among the initial states. A page of
one with three listings has a first, a middle and a last page, and a change shifts them. Three
pairs are a sign-in and two rotations, or two sign-ins and one rotation; the clock run needs
one pair, because an entry of the blacklist concerns one JWT. Two photos and two
coroutines let an upload overlap another or a submit, and an index go out of range.
A limit of two in a window of three ticks is passed and left again within four ticks, and the key of the first request expires
under the check of a later one; requests end and are
issued again, so any number of them meets the limit. The amounts and rates are such that total and shares fall between
two paise. In `edit`, 0.604 is stored as 0.60 and shown as 1, 0.404 is shown as 0, and 0.004 is stored as 0.00; three events are an opening, one save from
elsewhere or one text typed over, and one lost call or one more opening, and typing into blank fields is free. Its initial rows have other tags than a
fresh form, and whose row it is matters for a broker only (`MCInit`). Three
requests of the map's and the list's clients let a late 401 meet a newer request, and two regions an older answer a newer one. The
longest runs have two to four million states and take up to three minutes with two workers.
`CHECK_DEADLOCK FALSE` is set where the bounds, or finished work, stop the model.

*What TLC finds violated, and what it means.* `ScrollReachesTheEnd` (run `feed_end`): `hasMore` compares `offset + properties.length` with the total, but the
offset already is that length, so scrolling stops at half of the listings.

Some comments disagree with the code where no run is needed to see it. `HandleStale` enqueues the text message beside the
WhatsApp message, not as a fallback (`dispatcher.go:183`). `HandleOCR` inserts its row as DONE and without text, not as
PENDING (`dispatcher.go:151`); `GetResult` scans that NULL text into a string and fails. The rate limiter's commands are not
in MULTI/EXEC (`ratelimit.go:10`) but in a plain pipeline: if the key of earlier requests expires between ZADD and ZCARD, the
check counts no hit, not even its own. A failed `loadForEdit` leaves the form as it is, not empty
(`property_form_provider.dart:210`), so that after an abandoned form it shows that one, `createdPropertyId` included. `logout` does not redirect
(`auth_provider.dart:72`): it puts back the state before the first look at the storage, for which `main.dart` shows the splash "on
cold start" (`main.dart:37`), and nothing looks again until the app is killed. It does not tell the server either, so the JWT stays valid.

## 4. Properties

`StaleReminder`: `SentWasAccepted`, `MessageHasRow`, `SendsBounded`, `RowsBounded`, `CompletedSaysSent`,
`LedgerSpec` (refinement), `EveryTaskFinishes`, `RetriesMaskFaults`, `UnconfiguredSaysFailed`.
`ListingStore`: `ResultHasConfirmedPhoto`, `UnreadableOnlyAfterLoss`, `TextIsKept`,
`ScanLeavesResult`. `ListingFeed`: `FeedIsPrefix`, `SpinnersStop`. `Sessions`: `RotatedIsRefused`,
`OneTokenPerSignIn`, `SessionSurvives`, `LoggedOutIsRefused`. `ListingForm`: `OneListingPerForm`,
`ConfirmedIsStored`, `SubmittingAwaits`. `ListingEdit`: `RowIsValid`, `UntouchedIsKept`, `OwnerIsEntered`.
`AppMap`: `OneSession`, `MapSettles`. `RateLimit`: `WindowBound`, `RefusedHasReason`. `Calculator`: `SplitsAddUp`,
`ShowsCurrent`. Each is stated in words above its definition. For each,
the module contains a mutant of the code (a definition marked "Mutant") with which the
property fails.

Some of them hold only for undisturbed histories, which a history variable singles out. What it
excludes is reachable, and worth knowing:
- `calm` in `ListingFeed`: a refresh that fails resets the offset but not the list, so the next page
  repeats the first; a delete leaves a gap; overlapping requests can leave either.
- `raced` in `Sessions`: two refreshes with one cookie whose lookups both come before the UPDATE are
  both answered, and the sign-in has two live tokens from then on.
- `upset`: a refresh that fails after its UPDATE ends the session; one whose answer is lost, too.
- `calm` in `ListingForm`: a draft that is still being created when *Next* or *Submit* is pressed again is
  created twice; a creation whose answer is lost is repeated; removing a photo while another uploads shifts the
  indices, so that the wrong photo is marked or an upload is dropped; a listing opened
  for editing over an abandoned form, or whose load arrives late, is mixed with that form.
- `lost` in `RateLimit` (for `WindowBound`): the hit of a request may go with the key of earlier ones, if that expires before the request's own EXPIRE;
  it is let through and not on record. So is one that Redis fails, and two of one nanosecond count once.
- `late` (for `RefusedHasReason`): a hit that reached the key only when it was out of the window may count until it is pruned.
- `crossed` in `Calculator`: an answer to older fields leaves its total on the page; and, because `copyWith` reads null as
  "unchanged", it leaves its shares or its error beside a newer answer that has none, even if answers come in order.

- `fresh` in `ListingEdit` (for `UntouchedIsKept`): a form whose load was answered after the user went on is overwritten by
  the blank texts of the page, and can move a listing to 0, 0; and since a PATCH sends every field, it undoes what was saved
  elsewhere since the server read the row for the form. That prices and areas lose their fraction with every edit is what the property allows.
- `tiny` in `ListingEdit` (for `RowIsValid`): a price above 0 and below half a paisa passes the app (`property_form_provider.dart:223`) and POST
  (`handlers/properties.go:79`), and the column stores it as 0.00 (`003_create_properties.up.sql:8`).
- `upset` in `AppMap`: an older answer that comes last stays on the map.
- `unread` in `ListingForm` and `Calculator`, `upset` in `AppMap`: the handlers of errors read the `message` of the body as JSON. If a proxy
  answers with a page of its own, they throw, and the button stays off or the spinner on; that of `login` and of the
  notification list, too.

`RowIsValid`, but for that price, `OwnerIsEntered` and `OneSession` hold for every history, but thinly: PATCH checks neither owner nor price, so that only
the app's check in `submit` keeps a broker, whose form is loaded without the owner, from blanking it; and that no 401 comes too late is
owed partly to the splash after a logout, which only a restart leaves (see the mutant of `OneSession`).

More things the models show and no property states: while a photo uploads, every progress rewrites the texts of the details page, so that typing can be
lost before *Next*; a blank area keeps the stored one, an area that is no number becomes 0 (NULL in a POST), a
blank place becomes 0, 0 in a PATCH, where a POST is refused; photos of an edited listing never show, because its answer has none for the form; a
photo that is still uploading when `submit` succeeds is dropped by the reset; and the map asks for 200 listings where the
server's limit is 100.

**Fairness.** `StaleReminder` and `ListingStore` assume that the worker runs (it is restarted by
docker), so that asynq hands out and recovers tasks and a running handler takes its next
step, weakly fair per task; and that the scan's loop goes on. `ListingFeed` assumes that every
request ends, in an answer or an error: dio is created with time limits (connect 15 s, receive 30 s). Nothing is
assumed of users, of failures or of new requests. The bucket upload has no time limit, so nothing is
assumed, and no liveness is claimed, for it.

## 5. Proofs

Assumptions are only those on the constants, named in each module: `MaxRetryAssumption` and
`ConstantsAssumption`, `StoreAssumption`, `SessionAssumption`, `LimitAssumption`, `FeedAssumption`, `FormAssumption`, `CalculatorAssumption`, `AppAssumption`, `EditAssumption`. They ask for naturals where there are
counters and for nil values that are no ids.

`StaleReminder_proofs`: `TypeCorrect`, then `Inductive` (`Spec => []IInv`). The safety properties are not
inductive: that a message task has its row depends on where the handler that enqueued it stands, and
that a completed row says SENT on what its other channel may still write. `IInv` adds
- `Activity`: a handler has a place exactly while its task is active;
- `OwnRow`: between its INSERT and its return a run of `HandleStale` works on a row of its own whose later
  channels have no task yet, so nobody resets a task that already runs;
- `SendsPaid`: each accepted message is paid for by an attempt: this gives the bound on duplicates;
- `VerdictOpen`: a row that says FAILED has a task that may still correct it or was given up.

`BoundedRows` counts the rows of one reminder, which needs two more parts. `RowsPaid` is `SendsPaid` for the INSERT,
and says that the rows counted are finitely many, since there may be infinitely many ids. It is inductive only with
`Awaited`: a scan enqueues each reminder at most once, so that a task never starts over from zero retries with rows behind it.

From these: `SentIsTrue`, `MessagesHaveRows`, `BoundedSends`, `CompletedIsSent`, `BoundedRows`, and
`WorkerImplementsLedger`, the refinement of `JobLedger`, step by step under the mapping that drops the
row's origin. They hold for any number of scans, listings, rows, retries, goroutines and failures.

`ListingStore_proofs`: `StoreInvariant` proves types together with `StoreInv`, because the types of a scan's
writes need `ScannedWasConfirmed`: whatever a scan or a task works on was confirmed, so it can only be confirmed or gone.
`AuditAfterStore` and `TaskAfterAnswer` order the audit task after its request's own write.
Results: `OnlyConfirmedHaveResults`, `UnreadableIsLoss`, and the action property `TextKept`: `INSERT ... ON CONFLICT DO NOTHING` is the one write of
the worker, and what a scan stores is a text, if an empty one.

`Sessions_proofs`: `SessionsTyped` proves types together with `LogoutInv`, and `LogoutHolds` follows from it.
`LoggedOutIsRefused` alone is not inductive: whether a late call is let in depends on the entry
that the logout left, maybe of another request. `LogoutInv` adds
- `Placed`: a handler has read what its place needs, and every pair it or a jar names was issued;
- `Remembered`: the entry of a pair whose logout was answered, or has passed its call to Redis, lasts as long as the JWT;
  it is kept because an entry is only ever replaced by one that is dated now, and no JWT is dated later;
- `Honoured`: a request that came with a logged-out JWT gets past the middleware only once the JWT has expired.

`SessionsRotate` proves `RotationSafe`, from which come `RefusedForGood`, `OneTokenAtATime` and `SessionsSurvive`.
Each of these is about what is stored, and is broken or kept by a handler that has read something else before; the
three parts of `RotationSafe` say what that handler still holds:
- `Barred` (in `RefusalInv`): a refresh that came too late meets its revoked row at the lookup, or its inactive account after it;
  rows are never unrevoked and the code never reactivates an account;
- `OneHolder` (in `RotationInv`): a sign-in lives on in one live token, with at most the refresh that is about to revoke it, or in one refresh
  past its UPDATE, so that the INSERT never makes a second one. `RootsIssued` keeps a new sign-in apart from the old ones;
- `Owned` and `Undisturbed` (in `SurvivalInv`): no two clients hold one refresh token, so only a client's own
  request revokes its cookie, and the answer to that request replaces or clears it.
All of this holds for any times to live, accounts, clients, requests at a time and failures.

`RateLimit_proofs`: `AtMostLimit` and `RefusedForReason`, by `LimitInv`. The bound is about a set of past
times, the code about what a key holds now; `Counted` joins them: whoever was let in, and asked less than a window ago, is still
in the key, and the key outlives them. `Checked` says what each request knows at its place: its own hit is in the key, and what it counts
is no more than those that asked (for the reason). `Through(t)` adds to those a window has let in the requests that were found within
the limit and are yet to be answered; that it never grows beyond the limit is shown at the ZCARD, which counts all of them. Any limit, window,
number of requests at a time, length of their checks and failures.

`Calculator_proofs`: `SharesAddUp` and `PageSettles`, by `PageInv`: as long as no other answer crossed, what is shown belongs
to the fields, and the page is settled, or a timer or the right request will settle it. Any amounts, rates, splits and number of
calculations at a time.

`ListingEdit_proofs`: `EditInvariant` proves types together with `EditInv`. `RowIsValid` is not inductive, because the server checks nothing of a
PATCH: `SentIsComplete` says that what is under way was complete when it was sent, and `TinyIsTyped` that a price the column rounds to 0 was
typed by somebody: no conversion in between makes one. `FreshIsShown` joins form and row for `UntouchedKept`: as long as
they are fresh, the answer to the GET, the form and the call agree with what the row would be shown as, but for what the user changed.
`OwnerIsHidden` follows the contact on the same way: a broker's form has one only if he entered it. Then `RowStaysValid`,
`UntouchedKept`, `OwnerEntered`, for any texts, amounts and number of events.

`ListingForm_proofs`: `FormTypeOK` by `TypeInv`, and `ButtonComesBack`, which needs no more than the types: `submitting` is
set in the step that starts a submit, and whatever sets the form anew or ends the submit clears it. An index into the photos is only
safe together with the shape of the coroutine that holds it (`CallShape`), hence `TypeInv` and not `TypeOK`.
`FormMakesOneListing` and `ShownConfirmedIsStored` follow from `FormInv`. What a coroutine writes was decided when it was
started, so `OnScreen` says what a calm form and each of its coroutines agree on: the one listing that the form, or the
creation under way, is about; that there is one creation at a time, and no submit beside it; and that an upload's index is still that of its
photo. Any number of listings, photos and coroutines.

`AppViews_proofs` is about two parts of the app, `ListingFeed` and `AppMap`, each under its own specification (`FeedSpec`, `Spec`); they share
nothing, and the definitions of `ListingFeed` carry *Feed* in their names so that both modules can be in scope.
- `ListingFeed`: `FeedTyped` and `FeedJoins`. `Query` sorts the rows by counting the later ones, not by recursion, so
  that it can be reasoned about: `AlwaysFull` says that every position it counts to has a row, for any finite set of ids (of the sets for
  which that failed, take a smallest one: it holds without the least element, so with it). `FeedIsPrefix` alone
  says nothing of the page to come. `FeedInv` adds `Alone`, an undisturbed list has one request under way, and `PageToCome`: that request continues
  the list, or replaces it, under the filters that are set, and what the API answered so far still holds. Any number of
  listings, filters and requests, any page size.
- `AppMap`: `AppTyped`; `OneSessionAtATime` by `SessionInv`, whose `NothingMeanwhile` says that while a token is looked up or obtained nothing
  else is under way, so no request can be left from before; `MapSettled` by `MapInv`: once the camera was looked at, the
  timer or the latest request is about its region. Any number of tokens, regions and requests.

Only model-checked: liveness and fairness (`EveryTaskFinishes`, `RetriesMaskFaults`,
`UnconfiguredSaysFailed`, `ScanLeavesResult`, `SpinnersStop`), which the provers cannot reach. Every other property that a
passing run checks is also a theorem. `FeedInv`, `FormInv`, `Awaited` and `RowsPaid` are in no cfg, because what they add is about the model; TLC found them to hold
on the instances of `feed`, `form_wizard` and `stale_safety` before they were proved.

## 6. Not modelled, and the plan

Not modelled because there is nothing to check: layout, navigation, formatting of share texts, validation
messages, start-up, configuration and deployment. Tags, users, `Nearby`, share texts and exports only read. What `parseOCRText` finds in a text is
an arbitrary text in `ListingEdit` (`Autofill`), because the user reviews it. The bucket, Vision, Twilio and Google are external and
appear as calls that succeed, fail, or fail having succeeded.

Next, in this order:
1. Composition of `ListingStore` with `StaleReminder`: a reminder uses the contact and the age that the scan read, for a listing that
   may have been sold or deleted meanwhile.
2. `ListingEdit` with two listings, so that a form left from one is saved over the other field by field, which `ListingForm` has without the fields.
3. What becomes of photos that are still uploading when a submit succeeds, as a property of `ListingForm`.
